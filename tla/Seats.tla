-------------------------------- MODULE Seats --------------------------------
(***************************************************************************)
(* What the server's session tables promise, with no table in sight: an    *)
(* account sits at one descriptor at most; it takes a seat by a login at   *)
(* the descriptor where its name was given, leaving the seat it had; it    *)
(* loses it by a quit at that descriptor; and no step moves two accounts.  *)
(* Sessions implements it (SessionsH).                                     *)
(***************************************************************************)
CONSTANTS Accounts, Fds, NoSeat, Nobody

VARIABLES
    claim,   \* [Fds -> the accounts whose name was given last]
    seat     \* [Accounts -> Fds or NoSeat]

vars == <<claim, seat>>

Init ==
    /\ claim = [f \in Fds |-> Nobody]
    /\ seat = [k \in Accounts |-> NoSeat]

Claim(f, k) ==
    /\ claim' = [claim EXCEPT ![f] = k]
    /\ UNCHANGED seat

Take(f, k) ==
    /\ claim[f] = k
    /\ seat' = [seat EXCEPT ![k] = f]
    /\ UNCHANGED claim

\* A quit is for whoever sits at f: one of them leaves, or none does.
Leave(f) ==
    /\ \E k \in Accounts : seat[k] = f
    /\ \/ UNCHANGED seat
       \/ \E k \in Accounts : seat[k] = f /\ seat' = [seat EXCEPT ![k] = NoSeat]
    /\ claim' = [claim EXCEPT ![f] = Nobody]

Next ==
    \E f \in Fds :
        \/ \E k \in Accounts : Claim(f, k) \/ Take(f, k)
        \/ Leave(f)

Spec == Init /\ [][Next]_vars
==============================================================================
