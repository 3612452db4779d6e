--------------------------- MODULE SessionsProofs ---------------------------
(***************************************************************************)
(* Proofs about the session tables, for every set of accounts, descriptors *)
(* and commands.                                                           *)
(***************************************************************************)
EXTENDS SessionsH, TLAPS

\* Type correctness of the tables and of the history.
LEMMA TypeInit == Init => TypeOK
  BY FdsAssumption
  DEF Init, load_clients, TypeOK, SessionsTypeOK

LEMMA TypeNext == TypeOK /\ [Next]_vars => TypeOK'
<1> SUFFICES ASSUME TypeOK, [Next]_vars PROVE TypeOK'
  OBVIOUS
<1> USE DEF TypeOK, SessionsTypeOK
<1>1. ASSUME NEW f \in Fds, NEW command \in Commands, User(f, command)
      PROVE  TypeOK'
  <2>1. username_storage' \in [Fds -> Usernames \cup {"", Absent}]
    BY <1>1 DEF User, user_command, check_username, session
  <2>2. named' \subseteq Fds \X Accounts
    BY <1>1 DEF User
  <2>3. UNCHANGED <<fd_id, logedIn, proven>>
    BY <1>1 DEF User, user_command, session
  <2> QED
    BY <2>1, <2>2, <2>3
<1>2. ASSUME NEW f \in Fds, NEW command \in Commands, Pass(f, command)
      PROVE  TypeOK'
  <2>1. /\ fd_id' \in [Accounts -> Fds \cup Garbage]
        /\ logedIn' \in [Accounts -> BOOLEAN]
    BY <1>2 DEF Pass, pass_command, log_in, session
  <2>2. proven' \subseteq Fds \X Accounts
    BY <1>2 DEF Pass
  <2>3. UNCHANGED <<username_storage, named>>
    BY <1>2 DEF Pass, pass_command, session
  <2> QED
    BY <2>1, <2>2, <2>3
<1>3. ASSUME NEW f \in Fds, NEW command \in Commands, Quit(f, command)
      PROVE  TypeOK'
  <2>1. /\ username_storage' \in [Fds -> Usernames \cup {"", Absent}]
        /\ logedIn' \in [Accounts -> BOOLEAN]
    BY <1>3 DEF Quit, quit_command, log_out, session
  <2>2. named' \subseteq Fds \X Accounts
    BY <1>3 DEF Quit
  <2>3. UNCHANGED <<fd_id, proven>>
    BY <1>3 DEF Quit, quit_command, log_out, session
  <2> QED
    BY <2>1, <2>2, <2>3
<1>4. CASE UNCHANGED vars
  BY <1>4 DEF vars
<1> QED
  BY <1>1, <1>2, <1>3, <1>4 DEF Next

\* Every reachable state of the session tables has its types.
THEOREM TypeCorrect == Spec => []TypeOK
  BY TypeInit, TypeNext, PTL DEF Spec

-----------------------------------------------------------------------------
(***************************************************************************)
(* The inductive invariant Earned.                                         *)
(***************************************************************************)

\* It holds before the first login: nothing is proven, and no name is stored.
LEMMA EarnedInit == Init => Earned
  BY UsersAssumption
  DEF Init, load_clients, Earned, NeverProven, Usernames

\* A known name is put in the history with the table, an unknown one in neither.
LEMMA EarnedUser ==
  ASSUME TypeOK, Earned,
         NEW f \in Fds, NEW command \in Commands, User(f, command)
  PROVE  Earned'
<1> USE DEF TypeOK, SessionsTypeOK
<1>1. UNCHANGED <<fd_id, logedIn, proven>>
  BY DEF User, user_command, session
<1>2. ASSUME NEW g \in Fds, NEW k \in Accounts
      PROVE  username_storage'[g] = Users[k].user <=> <<g, k>> \in named'
  <2>1. CASE g = f /\ Len(command) = 2 /\ command[2] \in Usernames
    <3>1. username_storage'[g] = command[2]
      BY <2>1 DEF User, user_command, check_username
    <3> QED
      BY <2>1, <3>1 DEF User
  <2>2. CASE ~(g = f /\ Len(command) = 2 /\ command[2] \in Usernames)
    <3>1. username_storage'[g] = username_storage[g]
      BY <2>2 DEF User, user_command, check_username, session
    <3>2. username_storage[g] = Users[k].user <=> <<g, k>> \in named
      BY DEF Earned
    <3> QED
      BY <2>2, <3>1, <3>2 DEF User
  <2> QED
    BY <2>1, <2>2
<1> QED
  BY <1>1, <1>2 DEF Earned, NeverProven

\* A pair is put together from its parts.
LEMMA PairOf ==
  ASSUME NEW A, NEW B, NEW n \in A \X B
  PROVE  \E a \in A, b \in B : n = <<a, b>>
  OBVIOUS

\* A login happens at a descriptor where the account was named, and with its
\* password: the pair enters the history in the same step.  No other pair
\* does: a name is one account's.
LEMMA EarnedPass ==
  ASSUME TypeOK, Earned,
         NEW f \in Fds, NEW command \in Commands, Pass(f, command)
  PROVE  Earned'
<1> USE DEF TypeOK, SessionsTypeOK
<1>1. UNCHANGED <<username_storage, named>>
  BY DEF Pass, pass_command, session
<1>2. proven \subseteq proven'
  BY DEF Pass
<1>3. ASSUME NEW g \in Fds, NEW j \in Accounts, <<g, j>> \in proven' \ proven
      PROVE  /\ g = f /\ Len(command) = 2
             /\ username_storage[f] = Users[j].user
             /\ Users[j].password = command[2]
  BY <1>3 DEF Pass, Earned
<1>4. CASE UNCHANGED session
  <2>1. proven' = proven
    <3>1. ASSUME NEW g \in Fds, NEW j \in Accounts, <<g, j>> \in proven' \ proven
          PROVE  FALSE
      <4>1. username_storage[f] # Absent
        BY <1>3, <3>1, UsersAssumption DEF Usernames
      <4>2. Matches(j, username_storage[f], command[2])
        BY <1>3, <3>1 DEF Matches
      <4>3. PICK k \in Accounts : log_in(f, k) /\ check_password(k, username_storage[f], command[2])
        BY <1>3, <3>1, <4>1, <4>2 DEF Pass, pass_command
      <4>4. k = j
        BY <1>3, <3>1, <4>3, NamesAssumption DEF check_password, Matches
      <4>5. fd_id[j] = f /\ logedIn[j]
        BY <1>4, <4>3, <4>4 DEF log_in, session
      <4> QED
        BY <1>3, <3>1, <4>5 DEF Earned
    <3>2. proven' \subseteq Fds \X Accounts
      BY DEF Pass
    <3>3. ASSUME NEW n \in proven' PROVE n \in proven
      <4>1. n \in Fds \X Accounts
        BY <3>2, <3>3
      <4>2. PICK g \in Fds, j \in Accounts : n = <<g, j>>
        BY ONLY <4>1, PairOf
      <4> QED
        BY <3>1, <3>3, <4>2
    <3> QED
      BY <1>2, <3>3
  <2> QED
    BY <1>1, <1>4, <2>1 DEF Earned, NeverProven, session
<1>5. CASE ~UNCHANGED session
  <2>1. Len(command) = 2
    BY <1>5 DEF Pass, pass_command
  <2>2. PICK k \in Accounts :
            check_password(k, username_storage[f], command[2]) /\ log_in(f, k)
    BY <1>5 DEF Pass, pass_command
  <2>3. <<f, k>> \in named /\ Users[k].password = command[2]
    BY <2>2 DEF check_password, Matches, Earned
  <2>4. <<f, k>> \in proven'
    BY <2>1, <2>3 DEF Pass
  <2>5. \A j \in Accounts \ {k} :
            /\ fd_id'[j] = fd_id[j] /\ logedIn'[j] = logedIn[j]
            /\ NeverProven(j) => NeverProven(j)'
    <3>1. \A j \in Accounts \ {k} :
              fd_id'[j] = fd_id[j] /\ logedIn'[j] = logedIn[j]
      BY <2>2 DEF log_in
    <3>2. \A g \in Fds, j \in Accounts \ {k} : <<g, j>> \notin proven' \ proven
      BY <1>3, <2>2, NamesAssumption DEF check_password, Matches
    <3> QED
      BY <3>1, <3>2 DEF NeverProven
  <2>6. fd_id'[k] = f /\ logedIn'[k]
    BY <2>2 DEF log_in
  <2> QED
    BY <1>1, <1>2, <2>4, <2>5, <2>6 DEF Earned
<1> QED
  BY <1>4, <1>5

\* A quit takes away a login and a name, and earns nothing.
LEMMA EarnedQuit ==
  ASSUME TypeOK, Earned,
         NEW f \in Fds, NEW command \in Commands, Quit(f, command)
  PROVE  Earned'
<1> USE DEF TypeOK, SessionsTypeOK
<1>1. UNCHANGED <<fd_id, proven>>
  BY DEF Quit, quit_command, log_out, session
<1>2. \A k \in Accounts : logedIn'[k] => logedIn[k]
  BY DEF Quit, quit_command, log_out, session
<1>3. ASSUME NEW g \in Fds, NEW k \in Accounts
      PROVE  username_storage'[g] = Users[k].user <=> <<g, k>> \in named'
  <2>1. CASE g = f /\ Len(command) = 1
    <3>1. username_storage'[g] = ""
      BY <2>1 DEF Quit, quit_command
    <3>2. <<g, k>> \notin named'
      BY <2>1 DEF Quit
    <3> QED
      BY <3>1, <3>2, UsersAssumption DEF Usernames
  <2>2. CASE ~(g = f /\ Len(command) = 1)
    <3>1. username_storage'[g] = username_storage[g]
      BY <2>2 DEF Quit, quit_command, session
    <3>2. username_storage[g] = Users[k].user <=> <<g, k>> \in named
      BY DEF Earned
    <3> QED
      BY <2>2, <3>1, <3>2 DEF Quit
  <2> QED
    BY <2>1, <2>2
<1> QED
  BY <1>1, <1>2, <1>3 DEF Earned, NeverProven

LEMMA EarnedNext == TypeOK /\ Earned /\ [Next]_vars => Earned'
<1> SUFFICES ASSUME TypeOK, Earned, [Next]_vars PROVE Earned'
  OBVIOUS
<1>1. CASE UNCHANGED vars
  BY <1>1 DEF vars, Earned, NeverProven
<1>2. CASE Next
  BY <1>2, EarnedUser, EarnedPass, EarnedQuit DEF Next
<1> QED
  BY <1>1, <1>2

\* Names, descriptors and logins are earned in every reachable state.
THEOREM EarnedCorrect == Spec => []Earned
  BY TypeInit, TypeNext, EarnedInit, EarnedNext, PTL DEF Spec

-----------------------------------------------------------------------------
(***************************************************************************)
(* The properties.                                                         *)
(***************************************************************************)

\* Whoever a descriptor's commands are executed for gave its password there,
\* or is an account that never logged in.
THEOREM ActorCorrect == Spec => []ActorProven
<1>1. Earned => ActorProven
  BY DEF Earned, ActorProven, get_Client
<1> QED
  BY <1>1, EarnedCorrect, PTL

\* A new login on a descriptor follows a user command that named the account.
THEOREM LoginCorrect == Spec => LoginFollowsUser
<1> DEFINE NewLogin(f, k) ==
        fd_id'[k] = f /\ logedIn'[k] /\ ~(fd_id[k] = f /\ logedIn[k])
<1>1. ASSUME TypeOK, Earned, Next,
             NEW f \in Fds, NEW k \in Accounts, NewLogin(f, k)
      PROVE  <<f, k>> \in named
  <2> USE DEF TypeOK, SessionsTypeOK
  <2>1. PICK g \in Fds, command \in Commands :
            User(g, command) \/ Pass(g, command) \/ Quit(g, command)
    BY <1>1 DEF Next
  <2>2. CASE User(g, command)
    BY <1>1, <2>2 DEF User, user_command, session
  <2>3. CASE Pass(g, command)
    <3>1. fd_id' # fd_id \/ logedIn' # logedIn
      BY <1>1
    <3>2. PICK j \in Accounts :
              check_password(j, username_storage[g], command[2]) /\ log_in(g, j)
      BY <2>3, <3>1 DEF Pass, pass_command, session
    <3>3. username_storage[g] = Users[j].user
      BY <3>2 DEF check_password, Matches
    <3>4. <<g, j>> \in named
      BY <1>1, <3>3 DEF Earned
    <3>5. j = k /\ g = f
      BY <1>1, <3>2 DEF log_in
    <3> QED
      BY <3>4, <3>5
  <2>4. CASE Quit(g, command)
    BY <1>1, <2>4 DEF Quit, quit_command, log_out, session
  <2> QED
    BY <2>1, <2>2, <2>3, <2>4
<1>2. TypeOK /\ Earned /\ [Next]_vars
        => [\A f \in Fds, k \in Accounts : NewLogin(f, k) => <<f, k>> \in named]_vars
  BY <1>1
<1> QED
  BY <1>2, TypeCorrect, EarnedCorrect, PTL DEF Spec, LoginFollowsUser

-----------------------------------------------------------------------------
(***************************************************************************)
(* The tables implement Seats.                                             *)
(***************************************************************************)

\* The name of an account stands for that account and no other.
LEMMA NameOf == \A k \in Accounts : AccountOf(Users[k].user) = k
  BY NamesAssumption DEF AccountOf

\* A user command is a claim of Seats, or a stutter when the name is unknown.
LEMMA UserRefines ==
  ASSUME TypeOK, NEW f \in Fds, NEW command \in Commands, User(f, command)
  PROVE  [Abstract!Next]_(Abstract!vars)
<1> USE DEF TypeOK, SessionsTypeOK
<1>1. CASE Len(command) = 2 /\ command[2] \in Usernames
  <2>1. PICK k \in Accounts : Users[k].user = command[2]
    BY <1>1 DEF Usernames
  <2>2. username_storage' = [username_storage EXCEPT ![f] = Users[k].user]
    BY <1>1, <2>1 DEF User, user_command, check_username
  <2>3. Claim' = [Claim EXCEPT ![f] = k]
    <3>1. Claim'[f] = k
      BY <2>2, NameOf DEF Claim, Usernames
    <3>2. \A g \in Fds : g # f => Claim'[g] = Claim[g]
      BY <2>2 DEF Claim
    <3> QED
      BY <3>1, <3>2 DEF Claim
  <2>4. UNCHANGED Seat
    BY DEF User, user_command, session, Seat
  <2> QED
    BY <2>3, <2>4 DEF Abstract!Next, Abstract!Claim
<1>2. CASE ~(Len(command) = 2 /\ command[2] \in Usernames)
  <2>1. UNCHANGED session
    BY <1>2 DEF User, user_command, check_username
  <2>2. UNCHANGED <<Claim, Seat>>
    BY <2>1 DEF session, Claim, Seat
  <2> QED
    BY <2>2 DEF Abstract!vars
<1> QED
  BY <1>1, <1>2

\* A pass command takes a seat, or stutters when it is refused.
LEMMA PassRefines ==
  ASSUME TypeOK, NEW f \in Fds, NEW command \in Commands, Pass(f, command)
  PROVE  [Abstract!Next]_(Abstract!vars)
<1> USE DEF TypeOK, SessionsTypeOK
<1>1. UNCHANGED Claim
  BY DEF Pass, pass_command, session, Claim
<1>2. CASE UNCHANGED session
  BY <1>1, <1>2 DEF session, Abstract!vars, Seat
<1>3. CASE ~UNCHANGED session
  <2>1. PICK k \in Accounts :
            check_password(k, username_storage[f], command[2]) /\ log_in(f, k)
    BY <1>3 DEF Pass, pass_command
  <2>2. Claim[f] = k
    BY <2>1, NameOf DEF check_password, Matches, Claim, Usernames
  <2>3. Seat' = [Seat EXCEPT ![k] = f]
    BY <2>1 DEF log_in, Seat
  <2> QED
    BY <1>1, <2>2, <2>3 DEF Abstract!Next, Abstract!Take
<1> QED
  BY <1>2, <1>3

\* A quit makes the client of the descriptor leave, if it had a seat there.
LEMMA QuitRefines ==
  ASSUME TypeOK, NEW f \in Fds, NEW command \in Commands, Quit(f, command)
  PROVE  [Abstract!Next]_(Abstract!vars)
<1> USE DEF TypeOK, SessionsTypeOK
<1>1. CASE Len(command) = 1
  <2>1. PICK k \in Accounts : get_Client(f, k) /\ log_out(k)
    BY <1>1 DEF Quit, quit_command
  <2>2. username_storage' = [username_storage EXCEPT ![f] = ""]
    BY <1>1 DEF Quit, quit_command
  <2>3. Claim' = [Claim EXCEPT ![f] = Nobody]
    BY <2>2, UsersAssumption DEF Claim
  <2>4. \E j \in Accounts : Seat[j] = f
    BY DEF Quit, is_loged_in, Seat
  <2>5. CASE logedIn[k]
    <3>1. Seat[k] = f
      BY <2>1, <2>5 DEF get_Client, Seat
    <3>2. Seat' = [Seat EXCEPT ![k] = NoSeat]
      BY <2>1 DEF log_out, Seat
    <3> QED
      BY <2>3, <2>4, <3>1, <3>2 DEF Abstract!Next, Abstract!Leave
  <2>6. CASE ~logedIn[k]
    <3>1. UNCHANGED Seat
      BY <2>1, <2>6 DEF log_out, Seat
    <3> QED
      BY <2>3, <2>4, <3>1 DEF Abstract!Next, Abstract!Leave
  <2> QED
    BY <2>5, <2>6
<1>2. CASE Len(command) # 1
  BY <1>2 DEF Quit, quit_command, session, Abstract!vars, Seat, Claim
<1> QED
  BY <1>1, <1>2

\* The session tables implement Seats: an account sits at one descriptor, and
\* only its own login or a quit at its descriptor moves it.
THEOREM SeatsCorrect == Spec => SeatsSpec
<1>1. Init => Abstract!Init
  BY UsersAssumption DEF Init, load_clients, Abstract!Init, Seat, Claim
<1>2. TypeOK /\ [Next]_vars => [Abstract!Next]_(Abstract!vars)
  <2> SUFFICES ASSUME TypeOK, [Next]_vars
               PROVE  [Abstract!Next]_(Abstract!vars)
    OBVIOUS
  <2>1. CASE UNCHANGED vars
    BY <2>1 DEF vars, Abstract!vars, Seat, Claim
  <2>2. CASE Next
    BY <2>2, UserRefines, PassRefines, QuitRefines DEF Next
  <2> QED
    BY <2>1, <2>2
<1> QED
  BY <1>1, <1>2, TypeCorrect, PTL DEF Spec, SeatsSpec, Abstract!Spec
=============================================================================
