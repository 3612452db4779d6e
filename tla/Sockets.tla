------------------------------- MODULE Sockets -------------------------------
(***************************************************************************)
(* One TCP connection as the server's calls meet it (the kernel's side,    *)
(* modelled from what recv, send and select do for the server).            *)
(*                                                                         *)
(*   "open"   the client has the connection                                *)
(*   "fin"    the client closed it after reading everything it was sent    *)
(*   "rst"    the client closed it with bytes unread: it was reset         *)
(*   "pipe"   the client is gone and the server has been told so           *)
(*                                                                         *)
(* The first send to a closed connection succeeds ("fin", and the answer   *)
(* is a reset) or returns an error ("rst"); the next one raises SIGPIPE,   *)
(* which nothing in the server handles.  Both ends are on one machine: the *)
(* answer to a send is there before the next one.                          *)
(***************************************************************************)
EXTENDS Integers

Links == {"open", "fin", "rst", "pipe"}

\* The state of a connection after n sends.
AfterSends(link, n) == IF link = "open" \/ n = 0 THEN link ELSE "pipe"

\* Whether the process is alive after n sends.
Survives(link, n) == link = "open" \/ n = 0 \/ (n = 1 /\ link # "pipe")

\* recv with nothing pending: 0 after the end of the stream, -1 once after a
\* reset (which clears the error), and a blocking wait otherwise.
EndOfStream(link) == link \in {"fin", "pipe"}

ReceiveError(link) == link = "rst"

AfterError(link) == IF link = "rst" THEN "pipe" ELSE link

\* What the end of a client's process makes of its connection.
Closed(unread) == IF unread THEN "rst" ELSE "fin"
==============================================================================
