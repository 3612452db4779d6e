------------------------------ MODULE SessionsH ------------------------------
(***************************************************************************)
(* The session tables on their own: any descriptor brings any command, in  *)
(* any order, and descriptors are never told apart from the connections    *)
(* that held them before, because the tables are not told either.          *)
(*                                                                         *)
(* Two history variables record what was presented on each descriptor, so  *)
(* that a login can be related to the requests that earned it.             *)
(***************************************************************************)
EXTENDS Sessions

CONSTANTS
    Commands   \* the command vectors the descriptors bring

VARIABLES
    named,     \* <<f, k>>: k was the last account named on f, and f has not quit
    proven     \* <<f, k>>: k's password was given on f while k was named there

vars == <<username_storage, fd_id, logedIn, named, proven>>

history == <<named, proven>>

ASSUME CommandsAssumption == \A command \in Commands : command \in Seq(STRING)

TypeOK ==
    /\ SessionsTypeOK
    /\ named \subseteq Fds \X Accounts
    /\ proven \subseteq Fds \X Accounts

Init ==
    /\ load_clients
    /\ named = {}
    /\ proven = {}

-----------------------------------------------------------------------------
\* The three commands of the main loop that change the tables.  The history
\* is written from the request alone, not from what the handler did with it.
User(f, command) ==
    /\ command[1] = "user"
    /\ user_command(f, command)
    /\ named' = IF Len(command) = 2 /\ command[2] \in Usernames
                THEN {n \in named : n[1] # f}
                     \cup ({f} \X {k \in Accounts : Users[k].user = command[2]})
                ELSE named
    /\ UNCHANGED proven

Pass(f, command) ==
    /\ command[1] = "pass"
    /\ pass_command(f, command)
    /\ proven' = IF Len(command) = 2
                 THEN proven \cup {n \in named : /\ n[1] = f
                                                 /\ Users[n[2]].password = command[2]}
                 ELSE proven
    /\ UNCHANGED named

Quit(f, command) ==
    /\ command[1] = "quit"
    /\ is_loged_in(f)
    /\ quit_command(f, command)
    /\ named' = IF Len(command) = 1 THEN {n \in named : n[1] # f} ELSE named
    /\ UNCHANGED proven

Next ==
    \E f \in Fds, command \in Commands :
        User(f, command) \/ Pass(f, command) \/ Quit(f, command)

Spec == Init /\ [][Next]_vars

-----------------------------------------------------------------------------
(***************************************************************************)
(* Safety.                                                                 *)
(***************************************************************************)

\* Nobody ever gave k's password: its fd_id is still uninitialised.
NeverProven(k) == \A f \in Fds : <<f, k>> \notin proven

\* Whoever the server takes a descriptor to be (get_Client) when it accepts
\* its commands (is_loged_in) gave its password on that descriptor, after
\* its name: no sequence of user, pass and quit on several descriptors lends
\* one account another account's rights.  The exception is an account that
\* never logged in anywhere: the number its constructor left in fd_id may be
\* the descriptor's, and who logs in there then acts as that account.
ActorProven ==
    \A f \in Fds, k \in Accounts :
        is_loged_in(f) /\ get_Client(f, k) => <<f, k>> \in proven \/ NeverProven(k)

\* A new login of k on f follows a user command on f that named k, with no
\* quit on f in between: pass never logs in the account of an earlier user.
LoginFollowsUser ==
    [][\A f \in Fds, k \in Accounts :
          (fd_id'[k] = f /\ logedIn'[k] /\ ~(fd_id[k] = f /\ logedIn[k]))
              => <<f, k>> \in named]_vars

\* Why it holds (the inductive invariant of the proofs): the name stored for a
\* descriptor is the one given on it; a descriptor stored for an account was earned
\* there, or was in the member before the first login; and an account that is
\* logged in earned the descriptor it holds.
Earned ==
    /\ \A f \in Fds, k \in Accounts :
           username_storage[f] = Users[k].user <=> <<f, k>> \in named
    /\ \A k \in Accounts :
           fd_id[k] \in Fds => <<fd_id[k], k>> \in proven \/ NeverProven(k)
    /\ \A k \in Accounts : logedIn[k] => fd_id[k] \in Fds /\ <<fd_id[k], k>> \in proven

(***************************************************************************)
(* Refinement: the tables implement Seats.  A seat is the descriptor of an *)
(* account that is logged in; the descriptor of one that is not is a       *)
(* leftover no promise is about.  The accounts of a configuration file     *)
(* have different names.                                                   *)
(***************************************************************************)
CONSTANTS NoSeat, Nobody

ASSUME NamesAssumption ==
    /\ \A j, k \in Accounts : Users[j].user = Users[k].user => j = k
    /\ NoSeat \notin Fds
    /\ Nobody \notin Accounts

Seat == [k \in Accounts |-> IF logedIn[k] THEN fd_id[k] ELSE NoSeat]

AccountOf(name) == CHOOSE k \in Accounts : Users[k].user = name

Claim ==
    [f \in Fds |-> IF username_storage[f] \in Usernames
                   THEN AccountOf(username_storage[f])
                   ELSE Nobody]

Abstract == INSTANCE Seats WITH seat <- Seat, claim <- Claim

SeatsSpec == Abstract!Spec

=============================================================================
