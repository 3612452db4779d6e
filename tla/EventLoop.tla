------------------------------ MODULE EventLoop ------------------------------
(***************************************************************************)
(* The server's only thread: the select() loop of main(), the two accepts  *)
(* of a new client, the one receive buffer that all connections share, and *)
(* the dispatch of a request to its handler; with the clients around it,   *)
(* each one run of client.out, and the kernel's sockets between them.      *)
(*                                                                         *)
(* What the file commands do to the disk is not in this module: a request  *)
(* for one is served with the messages the handler may send.  The session  *)
(* commands are those of Sessions.                                         *)
(***************************************************************************)
EXTENDS Wire, Sockets

CONSTANTS
    Peers,       \* the clients, each a single run of client.out
    None,        \* no peer, no descriptor
    server_fd,   \* the listening command socket, the lowest descriptor watched
    Fds,         \* descriptors accept() may return
    Users, Garbage, Absent,  \* see Sessions
    Requests,    \* the lines the clients send, as texts of Wire
    MaxPending,  \* bound: lines of one client not yet received
    Faults       \* what the clients may do besides: see Abandon .. Overlap

\* A client ends between its two connects; before the server greets it; with
\* replies it has not read.  A client connects while another is connecting.
Abandon == "abandon"
Hasty   == "hasty"
Unread  == "unread"
Overlap == "overlap"

ASSUME EventLoopAssumption ==
    /\ None \notin Peers \cup Fds
    /\ server_fd \in Nat
    /\ Fds \subseteq Nat
    /\ \A f \in Fds : server_fd < f
    /\ Requests \subseteq Seq(Units) \ {<<>>}
    /\ \A line \in Requests : line[Len(line)].end = NL
    /\ Faults \subseteq {Abandon, Hasty, Unread, Overlap}

VARIABLES
    up,           \* the server process is alive
    master_set,   \* descriptors select() watches
    working_set,  \* descriptors of the current scan still to be served
    max_sd,       \* the last descriptor a scan looks at
    command_fd,   \* the client being accepted, None between two accepts
    sending,      \* the connection whose handler sends on the data channel, or None
    buffer,       \* the text in main's buffer, up to the first NUL
    fds_data,     \* [Fds -> Fds or None]
    command,      \* [Fds -> the peer whose command socket it is, or None]
    data,         \* [Fds -> the peer whose data socket it is, or None]
    backlog,      \* connections waiting for accept(server_fd)
    dataBacklog,  \* connections waiting for accept(server_data)
    phase,        \* [Peers -> how far the client's process is]
    inbox,        \* [Peers -> the text sent and not yet received]
    link,         \* [Peers -> state of the command connection]
    dataLink,     \* [Peers -> state of the data connection]
    unread,       \* peers with bytes on the command channel they have not read
    username_storage, fd_id, logedIn   \* see Sessions

loop    == <<master_set, working_set, max_sd, command_fd, fds_data, sending>>
kernel  == <<command, data, backlog, dataBacklog>>
clients == <<phase, inbox, link, dataLink, unread>>
session == <<username_storage, fd_id, logedIn>>
vars    == <<up, loop, buffer, kernel, clients, session>>

S == INSTANCE Sessions

Watched == {server_fd} \cup Fds

LoopTypeOK ==
    /\ up \in BOOLEAN
    /\ master_set \subseteq Watched
    /\ working_set \subseteq Watched
    /\ max_sd \in Watched
    /\ command_fd \in Fds \cup {None}
    /\ fds_data \in [Fds -> Fds \cup {None}]
    /\ sending \in Fds \cup {None}
    /\ command \in [Fds -> Peers \cup {None}]
    /\ data \in [Fds -> Peers \cup {None}]
    /\ backlog \in Seq(Peers)
    /\ dataBacklog \in Seq(Peers)
    /\ phase \in [Peers -> {"off", "command", "both", "gone"}]
    /\ inbox \in [Peers -> Seq(Units)]
    /\ link \in [Peers -> Links]
    /\ dataLink \in [Peers -> Links]
    /\ unread \subseteq Peers
    /\ S!SessionsTypeOK

Init ==
    /\ up = TRUE
    /\ master_set = {server_fd}
    /\ working_set = {}
    /\ max_sd = server_fd
    /\ command_fd = None
    /\ sending = None
    /\ buffer = <<>>
    /\ fds_data = [f \in Fds |-> None]
    /\ command = [f \in Fds |-> None]
    /\ data = [f \in Fds |-> None]
    /\ backlog = <<>>
    /\ dataBacklog = <<>>
    /\ phase = [p \in Peers |-> "off"]
    /\ inbox = [p \in Peers |-> <<>>]
    /\ link = [p \in Peers |-> "open"]
    /\ dataLink = [p \in Peers |-> "open"]
    /\ unread = {}
    /\ S!load_clients

-----------------------------------------------------------------------------
(***************************************************************************)
(* The clients (client.out): connect to the command port, then to the data *)
(* port; wait for the id the server sends; then read replies and send      *)
(* lines, until the process is ended.  Nothing they do after the server's  *)
(* process has died is of interest here.                                   *)
(***************************************************************************)

\* connectServer(command port): done as soon as the kernel queues it.
ConnectCommand(p) ==
    /\ up /\ phase[p] = "off"
    /\ Overlap \in Faults \/ \A q \in Peers : phase[q] # "command"
    /\ phase' = [phase EXCEPT ![p] = "command"]
    /\ backlog' = Append(backlog, p)
    /\ UNCHANGED <<up, loop, buffer, command, data, dataBacklog,
                   inbox, link, dataLink, unread, session>>

ConnectData(p) ==
    /\ up /\ phase[p] = "command"
    /\ phase' = [phase EXCEPT ![p] = "both"]
    /\ dataBacklog' = Append(dataBacklog, p)
    /\ UNCHANGED <<up, loop, buffer, command, data, backlog,
                   inbox, link, dataLink, unread, session>>

\* The server has accepted both connections of p and sent it its id.
Greeted(p) == \E f \in Fds : command[f] = p /\ f \in master_set

SendLine(p, line) ==
    /\ up /\ phase[p] = "both" /\ Greeted(p)
    /\ Lines(inbox[p]) < MaxPending
    /\ inbox' = [inbox EXCEPT ![p] = @ \o line]
    /\ UNCHANGED <<up, loop, buffer, kernel, phase, link, dataLink, unread, session>>

ReadReplies(p) ==
    /\ up /\ phase[p] = "both" /\ p \in unread
    /\ unread' = unread \ {p}
    /\ UNCHANGED <<up, loop, buffer, kernel, phase, inbox, link, dataLink, session>>

\* The client has no way out of its loop: it ends when its process is killed.
EndClient(p) ==
    /\ up
    /\ \/ phase[p] = "command" /\ Abandon \in Faults
       \/ phase[p] = "both" /\ (Greeted(p) \/ Hasty \in Faults)
    /\ p \in unread => Unread \in Faults
    /\ phase' = [phase EXCEPT ![p] = "gone"]
    /\ link' = [link EXCEPT ![p] = Closed(p \in unread)]
    /\ dataLink' = [dataLink EXCEPT ![p] = "fin"]
    /\ unread' = unread \ {p}
    /\ UNCHANGED <<up, loop, buffer, kernel, inbox, session>>

-----------------------------------------------------------------------------
(***************************************************************************)
(* The main loop.                                                          *)
(***************************************************************************)

\* What select() finds: a connection to accept, bytes, an end or an error.
Readable(f) ==
    IF f = server_fd
    THEN backlog # <<>>
    ELSE LET p == command[f]
         IN  p # None /\ (inbox[p] # <<>> \/ link[p] # "open")

\* Mutant: the scan looks at the descriptors that were put in, not at those
\* select() left.
Unselected == {f \in master_set : f <= max_sd}

\* Mutant: only the first descriptor select() found is served.
FirstSelected ==
    {f \in master_set : Readable(f) /\ \A g \in master_set : Readable(g) => f <= g}

\* Mutant: the scan ends before the last descriptor.
BeforeLast == {f \in master_set : f < max_sd /\ Readable(f)}

Selected == {f \in master_set : f <= max_sd /\ Readable(f)}

Select ==
    /\ up /\ command_fd = None /\ sending = None /\ working_set = {}
    /\ Selected # {}
    /\ working_set' = Selected
    /\ UNCHANGED <<up, master_set, max_sd, command_fd, fds_data, sending, buffer,
                   kernel, clients, session>>

\* The scan serves descriptors in ascending order, one at a time.
Turn(f) ==
    /\ up /\ command_fd = None /\ sending = None
    /\ f \in working_set
    /\ \A g \in working_set : f <= g

\* Mutant: a data descriptor is free again although its connection is open.
FreeOfCommands == {f \in Fds : command[f] = None}

Free == {f \in Fds : command[f] = None /\ data[f] = None}

\* The kernel returns the lowest descriptor that is not open.  Bound: a model
\* has as many as its clients need, so that accept() never fails (EMFILE).
NextFd(f) == f \in Free /\ \A g \in Free : f <= g

\* command_fd = acceptClient(server_fd)
AcceptCommand ==
    /\ Turn(server_fd)
    /\ \E f \in Fds :
           /\ NextFd(f)
           /\ command' = [command EXCEPT ![f] = Head(backlog)]
           /\ command_fd' = f
    /\ backlog' = Tail(backlog)
    /\ UNCHANGED <<up, master_set, working_set, max_sd, fds_data, sending, buffer,
                   data, dataBacklog, clients, session>>

\* Mutant: a client accepted on a high descriptor does not move the limit.
keep_max(f) == max_sd

\* if (command_fd > max_sd) max_sd = command_fd;
new_max(f) == IF f > max_sd THEN f ELSE max_sd

\* Mutant: an entry of fds_data is inserted and not overwritten.
insert_fds_data(f, d) ==
    [fds_data EXCEPT ![f] = IF @ = None THEN d ELSE @]

\* fds_data[command_fd] = data_fd;
set_fds_data(f, d) == [fds_data EXCEPT ![f] = d]

\* data_fd = acceptClient(server_data), which blocks the whole loop until
\* there is a connection; then the id, the greeting and the registration.
AcceptData ==
    /\ up /\ command_fd # None /\ dataBacklog # <<>>
    /\ \E d \in Fds :
           /\ NextFd(d)
           /\ data' = [data EXCEPT ![d] = Head(dataBacklog)]
           /\ fds_data' = set_fds_data(command_fd, d)
    /\ dataBacklog' = Tail(dataBacklog)
    /\ LET p == command[command_fd]
       IN  /\ up' = Survives(link[p], 2)
           /\ link' = [link EXCEPT ![p] = AfterSends(@, 2)]
           /\ unread' = IF link[p] = "open" THEN unread \cup {p} ELSE unread
    /\ buffer' = <<>>
    /\ master_set' = master_set \cup {command_fd}
    /\ max_sd' = new_max(command_fd)
    /\ working_set' = working_set \ {server_fd}
    /\ command_fd' = None
    /\ UNCHANGED <<command, backlog, phase, inbox, dataLink, sending, session>>

\* recv returned 0: the descriptor is closed and no longer watched.  The data
\* descriptor stays open, the session tables and the buffer as they are.
EndOfFile(f) ==
    /\ Turn(f) /\ f \in Fds
    /\ inbox[command[f]] = <<>> /\ EndOfStream(link[command[f]])
    /\ command' = [command EXCEPT ![f] = None]
    /\ master_set' = master_set \ {f}
    /\ working_set' = working_set \ {f}
    /\ UNCHANGED <<up, max_sd, command_fd, fds_data, sending, buffer,
                   data, backlog, dataBacklog, clients, session>>

-----------------------------------------------------------------------------
(***************************************************************************)
(* A request: what recv() leaves in the buffer, split into words.  When    *)
(* recv() failed that is what was in the buffer before.                    *)
(***************************************************************************)
Received(f) == recv(inbox[command[f]], buffer)

Command(f) == seperate_to_vector(Received(f))

Requested(f) ==
    /\ Turn(f) /\ f \in Fds
    /\ inbox[command[f]] # <<>> \/ ReceiveError(link[command[f]])

Has(words, verbs) == words[1] \in verbs

\* What a handler leaves outside the session tables: n messages sent to the
\* client, m to the data connection of its descriptor, the request consumed.
Replies(f, n, m) ==
    LET p  == command[f]
        q  == data[fds_data[f]]
        lp == IF inbox[p] = <<>> THEN AfterError(link[p]) ELSE link[p]
    IN  /\ up' = (Survives(lp, n) /\ Survives(dataLink[q], m))
        /\ link' = [link EXCEPT ![p] = AfterSends(lp, n)]
        /\ dataLink' = [dataLink EXCEPT ![q] = AfterSends(@, m)]
        /\ unread' = IF lp = "open" /\ n > 0 THEN unread \cup {p} ELSE unread
        /\ inbox' = [inbox EXCEPT ![p] = <<>>]
        /\ working_set' = working_set \ {f}
        /\ UNCHANGED <<master_set, max_sd, command_fd, fds_data, kernel, phase>>

\* memset(buffer, 0, BUFFER_SIZE) at the end of an iteration.
clear == buffer' = <<>> /\ sending' = None

\* The iteration ended by "continue", before the memset.
keep(f) == buffer' = Received(f) /\ sending' = None

\* The handler has sent a first text on the data channel and goes on.
goes_on(f) == buffer' = Received(f) /\ sending' = f

\* How many of the texts a handler hands to a data connection may count as sent:
\* an empty one breaks no connection that its client has closed.
Counted(link_) == IF link_ = "fin" THEN {0, 1} ELSE {1}

\* An empty vector: command[0] is read all the same, and the process dies.
NoWord(f) ==
    /\ Requested(f) /\ Command(f) = <<>>
    /\ up' = FALSE
    /\ UNCHANGED <<loop, buffer, kernel, clients, session>>

User(f, words) ==
    /\ Has(words, {"user"})
    /\ S!user_command(f, words)
    /\ Replies(f, 1, 0) /\ clear

Pass(f, words) ==
    /\ Has(words, {"pass"})
    /\ S!pass_command(f, words)
    /\ Replies(f, 1, 0) /\ clear

\* help is answered before the login check, which answers it again.
Help(f, words) ==
    /\ Has(words, {"help"})
    /\ \/ S!is_loged_in(f) /\ Replies(f, 1, 0) /\ clear
       \/ ~S!is_loged_in(f) /\ Replies(f, 2, 0) /\ keep(f)
    /\ UNCHANGED session

\* 332: Need account for login.
Refused(f, words) ==
    /\ ~Has(words, {"user", "pass", "help"}) /\ ~S!is_loged_in(f)
    /\ Replies(f, 1, 0) /\ keep(f)
    /\ UNCHANGED session

\* A bare cwd goes back home and says nothing.
Cwd(f, words) ==
    /\ Has(words, {"cwd"}) /\ S!is_loged_in(f)
    /\ Replies(f, IF Len(words) = 1 THEN 0 ELSE 1, 0) /\ clear
    /\ UNCHANGED session

\* The listing goes to the data connection, after 226 on the command one.
Ls(f, words) ==
    /\ Has(words, {"ls"}) /\ S!is_loged_in(f)
    /\ \/ Len(words) # 1 /\ Replies(f, 1, 0) /\ clear
       \/ /\ Len(words) = 1
          /\ \E m \in Counted(dataLink[data[fds_data[f]]]) : Replies(f, 1, m)
          /\ goes_on(f)
    /\ UNCHANGED session

\* A download is refused with one reply, or begins with a first piece of the file.
Retr(f, words) ==
    /\ Has(words, {"retr"}) /\ S!is_loged_in(f)
    /\ \/ Replies(f, 1, 0) /\ clear
       \/ /\ Len(words) = 2
          /\ \E m \in Counted(dataLink[data[fds_data[f]]]) : Replies(f, 0, m)
          /\ goes_on(f)
    /\ UNCHANGED session

\* The other file commands answer once, and so does an unknown word (501).
Other(f, words) ==
    /\ S!is_loged_in(f)
    /\ ~Has(words, {"user", "pass", "help", "cwd", "ls", "retr", "quit"})
    /\ Replies(f, 1, 0) /\ clear
    /\ UNCHANGED session

Quit(f, words) ==
    /\ Has(words, {"quit"}) /\ S!is_loged_in(f)
    /\ S!quit_command(f, words)
    /\ Replies(f, 1, 0) /\ clear

-----------------------------------------------------------------------------
(***************************************************************************)
(* The rest of a handler that sends on the data channel.  A send blocks    *)
(* while the client leaves the socket full, and of a directory there is    *)
(* always one more empty piece: in.eof() is never true.                    *)
(***************************************************************************)
\* The command being served, in the text that is still in the buffer.
Downloading == sending # None /\ seperate_to_vector(buffer)[1] = "retr"

SendPiece ==
    /\ up /\ Downloading
    /\ LET q == data[fds_data[sending]]
       IN  \E m \in Counted(dataLink[q]) :
              /\ up' = Survives(dataLink[q], m)
              /\ dataLink' = [dataLink EXCEPT ![q] = AfterSends(@, m)]
    /\ UNCHANGED <<loop, buffer, kernel, phase, inbox, link, unread, session>>

\* The listing is out, or the file is, after which the client is told.
EndSending ==
    /\ up /\ sending # None
    /\ LET p == command[sending]
           n == IF Downloading THEN 1 ELSE 0
       IN  /\ up' = Survives(link[p], n)
           /\ link' = [link EXCEPT ![p] = AfterSends(@, n)]
           /\ unread' = IF link[p] = "open" /\ n > 0 THEN unread \cup {p} ELSE unread
    /\ clear
    /\ UNCHANGED <<master_set, working_set, max_sd, command_fd, fds_data, kernel,
                   phase, inbox, dataLink, session>>

-----------------------------------------------------------------------------
Request(f) ==
    \/ NoWord(f)
    \/ /\ Requested(f)
       /\ \E words \in {Command(f)} \ {<<>>} :
              \/ Refused(f, words)
              \/ User(f, words) \/ Pass(f, words) \/ Help(f, words) \/ Quit(f, words)
              \/ Cwd(f, words) \/ Ls(f, words) \/ Retr(f, words) \/ Other(f, words)

Server ==
    \/ Select
    \/ AcceptCommand
    \/ AcceptData
    \/ \E f \in Fds : EndOfFile(f) \/ Request(f)
    \/ SendPiece
    \/ EndSending

Client(p) ==
    \/ ConnectCommand(p)
    \/ ConnectData(p)
    \/ \E line \in Requests : SendLine(p, line)
    \/ ReadReplies(p)
    \/ EndClient(p)

Next == Server \/ \E p \in Peers : Client(p)

Spec == Init /\ [][Next]_vars

(***************************************************************************)
(* The server takes a step whenever it is not blocked, and a client that   *)
(* has connected to the command port goes on to the data port.  A reply    *)
(* may block while its client has not read what it was sent before, and    *)
(* what is sent on the data channel may never be all of it: of those steps *)
(* nothing is assumed, nor of what a client sends, reads or when it ends.  *)
(***************************************************************************)
Unhindered ==
    \/ Select
    \/ AcceptCommand
    \/ AcceptData
    \/ \E f \in Fds :
          /\ working_set' = working_set \ {f}
          /\ EndOfFile(f) \/ (command[f] \notin unread /\ Request(f))

Fairness ==
    /\ WF_vars(Unhindered)
    /\ \A p \in Peers : WF_vars(ConnectData(p))

FairSpec == Spec /\ Fairness

-----------------------------------------------------------------------------
(***************************************************************************)
(* Safety.                                                                 *)
(***************************************************************************)

\* A scan never reaches a blocking call for nothing: every descriptor still
\* to be served has what select() saw on it, through the requests, accepts
\* and closes served since.  One blocking recv() would stop every client.
NoBlockingRead ==
    \A f \in working_set : Readable(f) \/ (f = server_fd /\ command_fd # None)

\* No client falls out of the loop: the descriptors watched are the listening
\* one and the connections accepted and not ended, all within max_sd, however
\* descriptors were closed and handed out again.
EveryClientWatched ==
    /\ master_set = {server_fd} \cup {f \in Fds : command[f] # None /\ f # command_fd}
    /\ \A f \in master_set : f <= max_sd

\* A connection's data descriptor is an open data connection, no connection
\* shares it, and no number is a command and a data descriptor at once.
DescriptorRoles ==
    /\ \A f \in Fds : command[f] # None => data[f] = None
    /\ \A f \in master_set \cap Fds :
           /\ fds_data[f] \in Fds
           /\ data[fds_data[f]] # None
           /\ \A g \in master_set \cap Fds : fds_data[f] = fds_data[g] => f = g

\* Listings and downloads go to the client that asked for them: the data
\* connection registered for a command descriptor is the same client's.
\* (Where clients connect one at a time, and both times.)
Paired ==
    \A f \in master_set \cap Fds : data[fds_data[f]] = command[f]

\* What is left of earlier requests in the shared buffer can spoil a request
\* but not replace it: each word the server acts on is the word sent in that
\* place or garbled, and a word too many follows a garbled one.  (For a request
\* that was sent; where recv() failed, old words are executed once more.)
NoWordReplaced ==
    \A f \in Fds :
        (Requested(f) /\ inbox[command[f]] # <<>>) =>
            LET sent == seperate_to_vector(inbox[command[f]])
            IN  \A i \in DOMAIN Command(f) :
                   IF i <= Len(sent)
                   THEN Command(f)[i] \in {sent[i], Garbled}
                   ELSE \E j \in 1 .. i : Command(f)[j] = Garbled

\* Whatever the clients ask for, in any order, three things end the process and
\* nothing else: a request that is one empty line with nothing of an older one
\* behind it, whose vector has no command[0]; a recv() that failed because a client
\* was killed, with nothing in the buffer; and a message to a client that has ended
\* and of which the server was told so by an earlier one.
EndsThreeWays ==
    ~up =>
        \/ \E f \in working_set \ {server_fd} :
              /\ \A g \in working_set : f <= g
              /\ \/ Received(f) # <<>> /\ ~HasWord(Received(f))
                 \/ Received(f) = <<>> /\ phase[command[f]] = "gone"
        \/ \E p \in Peers : phase[p] = "gone" /\ "pipe" \in {link[p], dataLink[p]}

\* Why the first three hold (with them, the inductive invariant of the
\* proofs): a scan is of watched descriptors, the client being accepted has a
\* socket, and a client has one command socket, or one place in the queue.
Scanning == working_set \subseteq master_set

Accepting == command_fd # None => command[command_fd] # None

OneSocketEach ==
    /\ \A f, g \in Fds : command[f] # None /\ command[f] = command[g] => f = g
    /\ \A f \in Fds, i \in 1 .. Len(backlog) : command[f] # backlog[i]
    /\ \A i, j \in 1 .. Len(backlog) : backlog[i] = backlog[j] => i = j
    /\ \A p \in Peers : phase[p] = "off" =>
           /\ \A f \in Fds : command[f] # p
           /\ \A i \in 1 .. Len(backlog) : backlog[i] # p

\* Why NoWordReplaced holds: a newline follows every request received.
WholeLines ==
    /\ buffer \in Seq(Units)
    /\ \A p \in Peers : inbox[p] # <<>> => inbox[p][Len(inbox[p])].end = NL

\* Why EndsThreeWays holds: only an end of a client breaks a connection.
Unbroken ==
    \A p \in Peers : phase[p] # "gone" => link[p] = "open" /\ dataLink[p] = "open"

\* And who is being sent to is there.
Serving == sending # None => sending \in master_set

\* Why Paired holds, where the clients connect one at a time: the clients whose
\* command connection has no partner yet, and those waiting on the data port,
\* are the same in the same order, but for one between its two connects.
OneAtATime == Faults \cap {Abandon, Overlap} = {}

Unpaired ==
    (IF command_fd = None THEN <<>> ELSE <<command[command_fd]>>) \o backlog

InOrder ==
    \/ Unpaired = dataBacklog /\ \A p \in Peers : phase[p] # "command"
    \/ \E p \in Peers :
           /\ Unpaired = Append(dataBacklog, p)
           /\ \A q \in Peers : phase[q] = "command" <=> q = p

LoopInv ==
    /\ LoopTypeOK
    /\ Scanning
    /\ Accepting
    /\ OneSocketEach
    /\ EveryClientWatched
    /\ DescriptorRoles
    /\ NoBlockingRead
    /\ WholeLines
    /\ Unbroken
    /\ Serving

(***************************************************************************)
(* Liveness.                                                               *)
(***************************************************************************)

\* No client leaves replies unread for ever, and nothing that a handler sends on the
\* data channel goes on for ever: a file it is, and a client that reads it.
NobodyBlocks ==
    /\ \A p \in Peers : []<>(p \notin unread)
    /\ []<>(sending = None)

\* Every request is received, whatever the other clients send meanwhile, log in and
\* download, unless one of them blocks the only thread.
RequestsServed ==
    NobodyBlocks => \A p \in Peers : (inbox[p] # <<>>) ~> (inbox[p] = <<>> \/ ~up)

\* So is every client that connects greeted, if it stays.
ClientsGreeted ==
    NobodyBlocks =>
        \A p \in Peers : (phase[p] = "command") ~> (Greeted(p) \/ phase[p] = "gone" \/ ~up)

-----------------------------------------------------------------------------
(***************************************************************************)
(* What a reply says and the loop does not do.                             *)
(***************************************************************************)

\* A connection needs a login of its own ("Need account for login."): a
\* descriptor the server has just been given is not logged in.
ConnectionsStartLoggedOut ==
    [][\A f \in Fds :
          (command[f] = None /\ command'[f] # None) => ~S!is_loged_in(f)]_vars
==============================================================================
