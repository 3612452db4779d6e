--------------------------------- MODULE Setup ---------------------------------
(***************************************************************************)
(* The files config.json and ports.json, what the server and the client    *)
(* make of them, the ports on which they meet, and the quotas, which live  *)
(* as long as the process.  A file is the Value that the reader found in   *)
(* it, or unreadable.                                                      *)
(***************************************************************************)
EXTENDS JsonQueries
LOCAL INSTANCE SequencesExt
LOCAL INSTANCE FiniteSetsExt

CONSTANTS
    Configs, PortFiles, \* what may be in config.json and in ports.json
    Taken,              \* sets of ports on which other programs may listen
    Barred,             \* the ports that bind() refuses whoever has them: below 1024
    PortRange,          \* 2^16 in the code
    Ephemeral,          \* the ports from which the kernel chooses one itself
    Kilobyte,           \* 1024 in the code
    FileSizes,          \* the bytes that the files on the server hold
    Garbage,            \* what a float may hold that was never written, as an int
    MaxStarts           \* bound: how often the server is started

Unreadable == <<>>     \* no Value has no root
Nobody == 0
NullTree == Leaf("null", <<>>)

\* A port is an int, and so is what a float may be cut to; a file holds a Value as
\* the reader makes it.
ASSUME SetupAssumption ==
    /\ PortRange \in 1 .. maxInt /\ Ephemeral \subseteq 1 .. PortRange - 1
    /\ \A others \in Taken : Cardinality(Ephemeral \ others) >= 2
    /\ Kilobyte \in Nat \ {0} /\ FileSizes \subseteq Nat /\ Garbage \subseteq minInt .. maxInt
    /\ MaxStarts \in Nat
    /\ \A file \in (Configs \cup PortFiles) \ {Unreadable} : IsTree(file)

VARIABLES
    config, ports, taken,   \* the two files, and the ports of others
    server,     \* "down", "up", "exited" or "aborted"
    listening,  \* the ports of server_fd and server_data
    accounts,   \* Clients
    client,     \* "down", "up", "exited" or "aborted"
    reached,    \* whom the client's two connections reach
    starts,     \* how often the server was started
    got,        \* what each account downloaded in all that time
    tooLong     \* a file of more bytes than an int counts was downloaded

setupVars == <<config, ports, taken, server, listening, accounts, client, reached, starts,
               got, tooLong>>

-----------------------------------------------------------------------------
(***************************************************************************)
(* Reading the numbers.                                                    *)
(***************************************************************************)
\* operator>> of an int, which stops at the first byte that is no digit; without
\* a digit it is 0, and beyond the width the limit.
ReadInt(text) ==
    LET start  == Span(text, 0, {C(" "), Tab, LF, CR})
        minus  == HasAt(text, start, C("-"))
        from   == IF minus \/ HasAt(text, start, C("+")) THEN start + 1 ELSE start
        number == Number(Slice(text, from, Span(text, from, Digits)))
    IN  CASE minus  -> Max({-number, minInt})
          [] ~minus -> Min({number, maxInt})

\* operator>> of a float.  The size is needed to the kilobyte only, for which the
\* bits of a float are enough.
ReadFloat(text) ==
    LET start == Span(text, 0, {C(" "), Tab, LF, CR})
        minus == HasAt(text, start, C("-"))
        from  == IF minus THEN start + 1 ELSE start
        point == Span(text, from, Digits)
        end   == IF HasAt(text, point, C(".")) THEN Span(text, point + 1, Digits) ELSE point
        whole == Slice(text, from, point)
        part  == Slice(text, point + 1, end)
        power == IF HasAt(text, end, C("e")) THEN ReadInt(Slice(text, end + 1, Len(text))) ELSE 0
        number == Number(whole \o part)
    IN  Real(IF minus THEN -number ELSE number, power - Len(part))

\* What a float becomes as an int: cut to a whole number; one that does not fit
\* is undefined, and the processor's conversion gives the least int.
FloatToInt(real) == IF InRange(real, minInt, maxInt) THEN Truncated(real) ELSE minInt

\* stringstream << value >> int, by way of the text that a StreamWriterBuilder
\* makes: what begins with a comment, a quote, a bracket or a letter is 0.
PortOf(value) ==
    LET v == value[<<>>]
    IN  CASE hasComment(value, Before) \/ ~isNumeric(v) -> 0
          [] ~hasComment(value, Before) /\ v.type \in IntegerTypes ->
                 Max({Min({v.val[1], maxInt}), minInt})
          [] OTHER -> ReadInt(asString(v.type, v.val))

-----------------------------------------------------------------------------
(***************************************************************************)
(* The files.  Names are one byte long here: c and d are the channels, u   *)
(* and f the users and the files; u, p, a and s are what a user has.       *)
(***************************************************************************)
Key(c) == Text(<<c>>)

\* values["..."] of what may be asked for it: a null where nothing is.
Member(tree, key) == get(tree, "object", key, NullTree).val

Items(tree) == [i \in 1 .. size(tree, <<>>) |-> get(tree, "array", Index(i - 1), NullTree).val]

\* Whether an item can be asked for all its members, and whether those are no
\* containers, which asString() throws for.
Askable(tree) == tree[<<>>].type \in {"null", "object"}

Plain(tree) == asText(tree[<<>>]).ok

Listed(tree) == size(tree, <<>>) > 0 => tree[<<>>].type = "array"

\* Config::set_values and User::User throw otherwise, and nothing catches it.
Acceptable(tree) ==
    /\ Askable(tree)
    /\ LET users == Member(tree, Key("u"))
           files == Member(tree, Key("f"))
       IN  /\ Listed(users) /\ Listed(files)
           /\ \A user \in ToSet(Items(users)) :
                  Askable(user) /\ \A c \in {"u", "p", "a", "s"} : Plain(Member(user, Key(c)))
           /\ \A file \in ToSet(Items(files)) : Plain(file)

\* What a member of a user is as a text.
TextOf(user, c) == asText(Member(user, Key(c))[<<>>]).val

HasSize(user) == \E byte \in ToSet(TextOf(user, "s")) : byte \notin {C(" "), Tab, LF, CR}

\* User::User.  A text of nothing leaves the size as it was: never written.
SizeOf(user) == IF HasSize(user) THEN {FloatToInt(ReadFloat(TextOf(user, "s")))} ELSE Garbage

\* User::get_size and Client::Client: from kilobytes to bytes.
Quota(user) == {FloatToInt(Real(n * Kilobyte, 0)) : n \in SizeOf(user)}

\* load_clients: one account for each user, in their order.
Accounts(tree) ==
    LET users == Items(Member(tree, Key("u")))
    IN  {[i \in DOMAIN users |->
            [username |-> TextOf(users[i], "u"), password |-> TextOf(users[i], "p"),
             admin |-> TextOf(users[i], "a") = Text(<<"t", "r", "u", "e">>), size |-> sizes[i]]]
         : sizes \in {s \in [DOMAIN users -> UNION {Quota(user) : user \in ToSet(users)}] :
                        \A i \in DOMAIN users : s[i] \in Quota(users[i])}}

\* Mutant: both channels get the port of the commands.
ConfiguredPortsSame(tree) == [channel \in 1 .. 2 |-> PortOf(Member(tree, Key("c")))]

\* Config::set_values, and Ports::set_values.
ConfiguredPorts(tree) == [channel \in 1 .. 2 |-> PortOf(Member(tree, Key(<<"c", "d">>[channel])))]

-----------------------------------------------------------------------------
(***************************************************************************)
(* The network.                                                            *)
(***************************************************************************)
\* htons: an int is cut to 16 bits.
htons(port) == port % PortRange

\* Mutant: the port is taken from whoever has it.
SetupServerBlind(port, busy) == IF htons(port) \in Barred \cup {0} THEN Ephemeral \ busy ELSE {htons(port)}

\* setupServer: when bind() fails, which nobody looks at, because others have the
\* port or the process may not have it, or when the port is 0, listen() takes one
\* that the kernel chooses.
SetupServer(port, busy) ==
    IF htons(port) \in busy \cup Barred \cup {0} THEN Ephemeral \ busy ELSE {htons(port)}

\* connectServer: a connection that fails is reported and used all the same.
ConnectServer(port) ==
    LET p == htons(port)
    IN  CASE server = "up" /\ p = listening[1] -> "command"
          [] server = "up" /\ p = listening[2] -> "data"
          [] p \in taken -> "other"
          [] OTHER -> "nobody"

-----------------------------------------------------------------------------
Closed == <<Nobody, Nobody>>
NotConnected == <<"nobody", "nobody">>

SetupInit ==
    /\ config \in Configs
    /\ ports \in PortFiles
    /\ taken \in Taken
    /\ server = "down" /\ listening = Closed /\ accounts = <<>>
    /\ client = "down" /\ reached = NotConnected
    /\ starts = 0 /\ got = <<>> /\ tooLong = FALSE

\* Config::Config and main up to the loop.
StartServer ==
    /\ server = "down" /\ starts < MaxStarts
    /\ starts' = starts + 1
    /\ \/ /\ config = Unreadable
          /\ server' = "exited"
          /\ UNCHANGED <<listening, accounts, got>>
       \/ /\ config # Unreadable /\ ~Acceptable(config)
          /\ server' = "aborted"
          /\ UNCHANGED <<listening, accounts, got>>
       \/ /\ config # Unreadable /\ Acceptable(config)
          /\ server' = "up"
          /\ accounts' \in Accounts(config)
          /\ \E wanted \in {ConfiguredPorts(config)} :
                \E command \in SetupServer(wanted[1], taken) :
                   \E data \in SetupServer(wanted[2], taken \cup {command}) :
                       listening' = <<command, data>>
          /\ got' = IF starts = 0 THEN [i \in DOMAIN accounts' |-> 0] ELSE got
    /\ UNCHANGED <<config, ports, taken, client, reached, tooLong>>

\* The process ends, and with it what it knew and its connections.
Crash ==
    /\ server = "up"
    /\ server' = "down" /\ listening' = Closed /\ accounts' = <<>>
    /\ reached' = [c \in 1 .. 2 |-> IF reached[c] = "other" THEN "other" ELSE "nobody"]
    /\ UNCHANGED <<config, ports, taken, client, starts, got, tooLong>>

\* client.cpp: main up to the loop, and Ports::Ports.
StartClient ==
    /\ client = "down"
    /\ \/ /\ ports = Unreadable
          /\ client' = "exited" /\ UNCHANGED reached
       \/ /\ ports # Unreadable /\ ~Askable(ports)
          /\ client' = "aborted" /\ UNCHANGED reached
       \/ /\ ports # Unreadable /\ Askable(ports)
          /\ client' = "up"
          /\ reached' = [c \in 1 .. 2 |-> ConnectServer(ConfiguredPorts(ports)[c])]
    /\ UNCHANGED <<config, ports, taken, server, listening, accounts, starts, got, tooLong>>

EndClient ==
    /\ client = "up"
    /\ client' = "down" /\ reached' = NotConnected
    /\ UNCHANGED <<config, ports, taken, server, listening, accounts, starts, got, tooLong>>

\* int file_size_in_bytes: the low bits of the size.
IntOf(n) == ((n + maxInt + 1) % (2 * maxInt + 2)) - maxInt - 1

\* Mutant: that something is left is enough.
AllowsSome(account, bytes) == account.size > 0

Allows(account, bytes) == account.size >= IntOf(bytes)

\* retr_command, of a file that may be read: the account's size is what is left
\* of its quota.
Retr(i, bytes) ==
    /\ server = "up"
    /\ Allows(accounts[i], bytes)
    /\ accounts' = [accounts EXCEPT ![i].size = @ - IntOf(bytes)]
    /\ got' = [got EXCEPT ![i] = @ + bytes]
    /\ tooLong' = (tooLong \/ bytes > maxInt)
    /\ UNCHANGED <<config, ports, taken, server, listening, client, reached, starts>>

Download == ~tooLong /\ \E i \in DOMAIN accounts, bytes \in FileSizes : Retr(i, bytes)

SetupNext == StartServer \/ Crash \/ StartClient \/ EndClient \/ Download

SetupSpec == SetupInit /\ [][SetupNext]_setupVars

-----------------------------------------------------------------------------
(***************************************************************************)
(* Properties.                                                             *)
(***************************************************************************)
\* The state is well formed: a server that is up listens on two different ports
\* that nobody else has, and a quota is an int.
TypeOK ==
    /\ server \in {"down", "up", "exited", "aborted"}
    /\ client \in {"down", "up", "exited", "aborted"}
    /\ starts \in 0 .. MaxStarts /\ tooLong \in BOOLEAN
    /\ reached \in [1 .. 2 -> {"nobody", "other", "command", "data"}]
    /\ server = "up" =>
           /\ listening[1] # listening[2]
           /\ \A c \in 1 .. 2 : listening[c] \in (1 .. PortRange - 1) \ taken
    /\ \A i \in DOMAIN accounts :
           /\ accounts[i].size \in minInt .. maxInt \/ tooLong
           /\ accounts[i].admin \in BOOLEAN

\* What somebody who writes a port into a file may mean by it: a number without
\* a comment in front of it.
Meant(tree, c) ==
    LET value == Member(tree, Key(c))
    IN  IF value[<<>>].type = "int" /\ ~hasComment(value, Before) THEN value[<<>>].val ELSE <<>>

GoodPorts(tree) ==
    /\ tree # Unreadable /\ Askable(tree)
    /\ \A c \in {"c", "d"} : Meant(tree, c) # <<>> /\ Meant(tree, c)[1] \in 1 .. PortRange - 1
    /\ Meant(tree, "c") # Meant(tree, "d")

\* With the same two different, free ports in both files that a process may have, a client that is started
\* while the server is up gets its first connection to the command channel and its
\* second one to the data channel: set_values reads each number where the other
\* program does, and setupServer gets the ports it asks for, though neither it nor
\* connectServer looks whether it did.
ReachesServer ==
    [][ (/\ client = "down" /\ client' = "up" /\ server = "up"
         /\ GoodPorts(config) /\ GoodPorts(ports)
         /\ \A c \in {"c", "d"} : Meant(config, c) = Meant(ports, c)
                                 /\ Meant(config, c)[1] \notin taken \cup Barred)
        => reached' = <<"command", "data">> ]_setupVars

\* In all that an account downloads there is no more than config.json grants it, as
\* often as the server was started: the quota is lost with the process, and each
\* start grants it again (Client::Client, reduce_size).  A size with a fraction, a
\* negative one and one that is too large for an int grant less or nothing, never
\* more.  Left out are an account without a size, which is never written then, and a
\* file of more bytes than an int counts.
QuotaHolds ==
    ~tooLong =>
        \A i \in DOMAIN got :
            LET user == Items(Member(config, Key("u")))[i]
                granted == ReadFloat(TextOf(user, "s"))
            IN  HasSize(user) =>
                    \/ got[i] = 0
                    \/ ~RealLess(Real(starts * Kilobyte * granted[1], granted[2]), Real(got[i], 0))
=============================================================================
