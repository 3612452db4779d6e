------------------------------ MODULE ClientLoop ------------------------------
(***************************************************************************)
(* The loop of the client program and the other end of its two channels:   *)
(* the replies, listings and downloads the server sends, through socket    *)
(* buffers that hold a bounded number of bytes, to a client that waits on  *)
(* the channels in turns, each time until an alarm.                        *)
(*                                                                         *)
(* Replies are opaque but for the two the client tells apart.  A byte on   *)
(* the data channel is one of a file, or known by what it belongs to.      *)
(***************************************************************************)
EXTENDS Integers, Sequences

CONSTANTS
    BUFFER_SIZE,  \* bytes the client takes, or the server reads, at a time
    Capacity,     \* bound: bytes the sockets of the data channel hold
    Listings,     \* lengths of the listings ls may have
    Contents,     \* the bytes files are made of, but NUL
    Files,        \* contents of the files retr may find
    Overrun,      \* bytes strlen() may count behind a piece without a NUL
    Prompt,       \* no alarm goes off while the server can go on
    Patient       \* the user types when nothing is under way

ASSUME ClientLoopAssumption ==
    /\ BUFFER_SIZE \in Nat \ {0} /\ Capacity \in Nat \ {0}
    /\ Listings \subseteq Nat /\ Overrun \subseteq Nat
    /\ Contents \cap {"listing", "NUL", "junk"} = {}
    /\ Files \subseteq Seq(Contents \cup {"NUL"})
    /\ Prompt \in BOOLEAN /\ Patient \in BOOLEAN

Lines == {"ls", "retr", "other"}
Replies == {"List", "Successful Download", "another"}
Bytes == Contents \cup {"listing", "NUL", "junk"}

VARIABLES
    lines,          \* what the server has not received yet
    todo,           \* what the server's handler has still to send
    replies,        \* the command channel, towards the client
    stream,         \* the data channel
    pc,             \* where the client is in its loop
    buffer,         \* replies received in one recv()
    buffer_data,    \* bytes received in one recv()
    data_transfer, file_transfer,
    file,           \* history: the file the last request asked for
    got,            \* history: what arrived on the data channel since
    waited,         \* history: the server had to wait for the client, and
    shownFile,      \* bytes of a file were printed, since the last request
    lostListing     \* history: bytes of a listing were thrown away

server == <<lines, todo>>
client == <<pc, buffer, buffer_data, data_transfer, file_transfer>>
history == <<file, got, waited, lostListing, shownFile>>
vars == <<server, replies, stream, client, history>>

Init ==
    /\ lines = <<>> /\ todo = <<>> /\ replies = <<>> /\ stream = <<>>
    /\ pc = "recv command" /\ buffer = <<>> /\ buffer_data = <<>>
    /\ data_transfer = FALSE /\ file_transfer = FALSE
    /\ file = <<>> /\ got = <<>>
    /\ waited = FALSE /\ lostListing = FALSE /\ shownFile = FALSE

-----------------------------------------------------------------------------
(***************************************************************************)
(* The server, as far as this client sees it.                              *)
(***************************************************************************)
Reply(text) == [channel |-> "command", text |-> text]

Data(text) == [channel |-> "data", text |-> text]

\* send_message on a piece of a file: the bytes before the first NUL, and when
\* there is none in a full piece, those strlen() finds behind the array.
CString(piece, over) ==
    LET nul == {i \in DOMAIN piece : piece[i] = "NUL"}
    IN  IF nul # {}
        THEN SubSeq(piece, 1, (CHOOSE i \in nul : \A j \in nul : i <= j) - 1)
        ELSE IF Len(piece) = BUFFER_SIZE
             THEN piece \o [i \in 1 .. over |-> "junk"]
             ELSE piece

\* Mutant: the loop ends at the first piece that is not full, unsent.
WholePieces(text, over) ==
    [n \in 1 .. Len(text) \div BUFFER_SIZE |->
        Data(CString(SubSeq(text, (n - 1) * BUFFER_SIZE + 1, n * BUFFER_SIZE), over))]

\* while(in_file.eof() == false): eof is seen by the read that is not filled,
\* so a file of whole pieces ends with an empty one.
Pieces(text, over) ==
    [n \in 1 .. (Len(text) \div BUFFER_SIZE) + 1 |->
        LET last == IF n * BUFFER_SIZE < Len(text) THEN n * BUFFER_SIZE ELSE Len(text)
        IN  Data(CString(SubSeq(text, (n - 1) * BUFFER_SIZE + 1, last), over))]

\* ls_command: the reply, then the listing.
Ls ==
    /\ Head(lines) = "ls"
    /\ \E n \in Listings :
           todo' = <<Reply("List"), Data([i \in 1 .. n |-> "listing"])>>
    /\ file' = <<>>

\* retr_command: the pieces of the file, then the reply.
Retr ==
    /\ Head(lines) = "retr"
    /\ \E text \in Files, over \in Overrun :
           /\ todo' = Append(Pieces(text, over), Reply("Successful Download"))
           /\ file' = text

\* Every other command, and a download or listing that is refused.
Other ==
    /\ todo' = <<Reply("another")>>
    /\ file' = <<>>

Serve ==
    /\ todo = <<>> /\ lines # <<>>
    /\ Ls \/ Retr \/ Other
    /\ lines' = Tail(lines)
    /\ got' = <<>> /\ waited' = FALSE /\ shownFile' = FALSE
    /\ UNCHANGED <<replies, stream, client, lostListing>>

SendReply ==
    /\ todo # <<>> /\ Head(todo).channel = "command"
    /\ replies' = Append(replies, Head(todo).text)
    /\ todo' = Tail(todo)
    /\ UNCHANGED <<lines, stream, client, history>>

\* send() copies what there is room for, and blocks until there is room for
\* the rest.
SendData ==
    /\ todo # <<>> /\ Head(todo).channel = "data"
    /\ LET text == Head(todo).text
           room == Capacity - Len(stream)
           n    == IF room < Len(text) THEN room ELSE Len(text)
       IN  /\ n > 0 \/ text = <<>>
           /\ stream' = stream \o SubSeq(text, 1, n)
           /\ todo' = IF n = Len(text)
                      THEN Tail(todo)
                      ELSE [todo EXCEPT ![1].text = SubSeq(text, n + 1, Len(text))]
    /\ UNCHANGED <<lines, replies, client, history>>

Server == Serve \/ SendReply \/ SendData

-----------------------------------------------------------------------------
(***************************************************************************)
(* The client's loop.                                                      *)
(***************************************************************************)

\* alarm(1) ends a recv() that finds nothing.  When the server is prompt, it
\* has nothing more to send then, or nowhere to put it.
Alarm ==
    Prompt => IF todo = <<>>
              THEN lines = <<>>
              ELSE Head(todo).channel = "data" /\ Len(stream) = Capacity

RecvCommand ==
    /\ pc = "recv command" /\ pc' = "recv data"
    /\ \/ replies # <<>> /\ buffer' = replies /\ UNCHANGED waited
       \/ replies = <<>> /\ Alarm /\ buffer' = <<>> /\ waited' = (waited \/ todo # <<>>)
    /\ replies' = <<>>
    /\ UNCHANGED <<server, stream, buffer_data, data_transfer, file_transfer,
                   file, got, lostListing, shownFile>>

\* Mutant: the data channel is read only while a transfer is announced.
TakenAnnounced ==
    IF data_transfer /\ stream # <<>> THEN <<Head(stream)>> ELSE <<>>

Taken == IF Len(stream) < BUFFER_SIZE THEN stream ELSE SubSeq(stream, 1, BUFFER_SIZE)

RecvData ==
    /\ pc = "recv data" /\ pc' = "show"
    /\ stream # <<>> \/ Alarm
    /\ buffer_data' = Taken
    /\ stream' = SubSeq(stream, Len(Taken) + 1, Len(stream))
    /\ got' = got \o Taken
    /\ UNCHANGED <<server, replies, buffer, data_transfer, file_transfer,
                   file, waited, lostListing, shownFile>>

\* Mutant: the kind of transfer is kept while other replies arrive.
Announced226 ==
    IF buffer = <<>> \/ Head(buffer) = "another"
    THEN <<data_transfer, file_transfer>>
    ELSE <<TRUE, TRUE>>

\* data_transfer and file_transfer after a reply; of several replies received
\* at once only the first is looked at.
Announced ==
    CASE buffer = <<>> -> <<data_transfer, file_transfer>>
      [] buffer # <<>> /\ Head(buffer) = "another" -> <<FALSE, file_transfer>>
      [] OTHER -> <<TRUE, Head(buffer) = "Successful Download">>

Has(text, S) == \E i \in DOMAIN text : text[i] \in S

\* Lines 29 to 48: the reply is printed, and the data if it was announced.
Show ==
    /\ pc = "show" /\ pc' = "read"
    /\ data_transfer' = Announced[1]
    /\ file_transfer' = Announced[2]
    /\ LET printed == Announced[1] /\ ~Announced[2]
       IN  /\ lostListing' = (lostListing \/ (Has(buffer_data, {"listing"}) /\ ~printed))
           /\ shownFile' = (shownFile \/ (Has(buffer_data, Contents) /\ printed))
    /\ buffer' = <<>> /\ buffer_data' = <<>>
    /\ UNCHANGED <<server, replies, stream, file, got, waited>>

\* read(0) for two seconds and send(): a line, or nothing.
Read ==
    /\ pc = "read" /\ pc' = "recv command"
    /\ \/ UNCHANGED lines
       \/ /\ lines = <<>>
          /\ Patient => todo = <<>> /\ replies = <<>> /\ stream = <<>>
          /\ \E line \in Lines : lines' = <<line>>
    /\ UNCHANGED <<todo, replies, stream, buffer, buffer_data, data_transfer,
                   file_transfer, history>>

Client == RecvCommand \/ RecvData \/ Show \/ Read

Next == Server \/ Client

(***************************************************************************)
(* The server goes on when it can, and the client does: its calls return   *)
(* by an alarm at the latest.  Nothing is assumed of what is typed.        *)
(***************************************************************************)
Spec == Init /\ [][Next]_vars /\ WF_vars(Server) /\ WF_vars(Client)

-----------------------------------------------------------------------------
\* A listing is printed whole ("if ... the command need this data, data will
\* printed"), although it arrives on another channel than the reply that
\* announces it, in any number of pieces: the flags the client keeps from reply
\* to reply are right for every byte.  And the bytes of a file are not printed,
\* unless the server had to wait for the client: then they are read before the
\* reply that announces them.  (For a prompt server and a patient user.)
ListingsPrinted == ~lostListing /\ (shownFile => waited)

IsText(text) == ~Has(text, {"NUL"})

\* Nothing of a download is under way.
Arrived ==
    /\ \A i \in DOMAIN todo : todo[i].channel = "command"
    /\ stream = <<>>

\* What is there of a file, without what came with it.
Own(text) ==
    LET next(own, byte) == IF byte \in Contents THEN Append(own, byte) ELSE own
        upto[i \in 0 .. Len(text)] == IF i = 0 THEN <<>> ELSE next(upto[i - 1], text[i])
    IN  upto[Len(text)]

\* A file without NULs arrives whole and in order, however it is cut into
\* pieces, however often the server had to wait, and whatever a piece drags
\* along; of any file, no more bytes of its own arrive than the quota is charged
\* for.
DownloadIsFile ==
    Arrived => /\ IsText(file) => Own(got) = file
               /\ Len(Own(got)) <= Len(file)

\* Whatever the server sends is sent in the end: it does not stay blocked in
\* send() (and with it every other client), because the client never waits
\* longer than an alarm for something else.
TransfersEnd == (todo # <<>>) ~> (todo = <<>>)
=============================================================================
