----------------------------- MODULE MCEventLoop -----------------------------
(***************************************************************************)
(* The accounts of config.json, the descriptors a server with one or two   *)
(* connections uses (3 and 4 listen, 5 is the log), and the lines the      *)
(* clients may send.                                                       *)
(***************************************************************************)
EXTENDS EventLoop, TLC

OneUser == <<[user |-> "Ali", password |-> "1234"]>>

MCGarbage == {0}

\* The length of each word in bytes.
MCWidth ==
    [w \in {"", "user", "pass", "help", "pwd", "cwd", "ls", "retr", "quit", "Ali", "1234", "1.txt"} |->
        CASE w = "" -> 0
          [] w = "ls" -> 2
          [] w \in {"pwd", "cwd", "Ali"} -> 3
          [] w \in {"user", "pass", "help", "retr", "quit", "1234"} -> 4
          [] w = "1.txt" -> 5]

FourFds == 6 .. 9

Login == {Line(<<"user", "Ali">>), Line(<<"pass", "1234">>)}

Bare(verbs) == {Line(<<verb>>) : verb \in verbs}

\* Lines that overlap in the buffer: longer and shorter, of one word and of two,
\* refused before a login and served after it.
BufferRequests == Login \cup Bare({"ls", "cwd"})

\* A login, a logout, a line that is answered twice before a login, and one that
\* is answered on the data channel after it.
LoginRequests == Login \cup Bare({"quit", "help"}) \cup {Line(<<"retr", "1.txt">>)}

\* The same with a line of nothing.
AnyRequests == LoginRequests \cup {Line(<<"">>)}

\* What is enough to download.
Downloads == Login \cup {Line(<<"retr", "1.txt">>)}

Symmetry == Permutations(Peers)
=============================================================================
