------------------------------ MODULE Sessions ------------------------------
(***************************************************************************)
(* Who is logged in where.  The server keeps no session object: it keeps,  *)
(* for every account of config.json, the descriptor the account last       *)
(* logged in on (fd_id) and whether it is logged in (logedIn), and, for    *)
(* every descriptor, the last user name accepted on it (username_storage). *)
(* Nothing in it is touched when a connection ends.                        *)
(*                                                                         *)
(* The handlers are actions with the descriptor and the command vector as  *)
(* parameters; SessionsH runs them alone, EventLoop from its main loop.    *)
(***************************************************************************)
EXTENDS Integers, Sequences

CONSTANTS
    Users,     \* the "users" of config.json, in the order of the file
    Fds,       \* descriptors a connection may get
    Garbage,   \* what an uninitialised Client::fd_id may hold
    Absent     \* username_storage.count(fd) = 0

VARIABLES
    username_storage,  \* [Fds -> user names, "", Absent]
    fd_id,             \* [Accounts -> Fds or Garbage]
    logedIn            \* [Accounts -> BOOLEAN]

session == <<username_storage, fd_id, logedIn>>

Accounts == DOMAIN Users

Usernames == {Users[k].user : k \in Accounts}

(***************************************************************************)
(* Every account has a name that is not the empty string.  Client's        *)
(* constructor leaves fd_id uninitialised: it may hold any number, that of *)
(* a connection included.                                                  *)
(***************************************************************************)
ASSUME UsersAssumption ==
    /\ Users \in Seq([user : STRING, password : STRING])
    /\ "" \notin Usernames
    /\ Absent \notin Usernames \cup {""}

ASSUME FdsAssumption ==
    /\ Fds \subseteq Nat
    /\ Garbage # {}

SessionsTypeOK ==
    /\ username_storage \in [Fds -> Usernames \cup {"", Absent}]
    /\ fd_id \in [Accounts -> Fds \cup Garbage]
    /\ logedIn \in [Accounts -> BOOLEAN]

-----------------------------------------------------------------------------
\* load_clients: one Client for each account, none logged in.
load_clients ==
    /\ username_storage = [f \in Fds |-> Absent]
    /\ fd_id \in [Accounts -> Garbage]
    /\ logedIn = [k \in Accounts |-> FALSE]

\* get_Client(f) returns &Clients[k]: the first account with that descriptor,
\* whether it is logged in or not.
get_Client(f, k) ==
    /\ fd_id[k] = f
    /\ \A j \in Accounts : j < k => fd_id[j] # f

is_loged_in(f) == \E k \in Accounts : fd_id[k] = f /\ logedIn[k]

\* Mutant: only the password is compared.
MatchesPassword(k, name, password) ==
    Users[k].password = password

\* check_password compares both the name and the password of an account.
Matches(k, name, password) ==
    Users[k].user = name /\ Users[k].password = password

\* The account it logs in is the first that matches.
check_password(k, name, password) ==
    /\ Matches(k, name, password)
    /\ \A j \in Accounts : j < k => ~Matches(j, name, password)

\* check_username, when an account has the name: remember it for the descriptor.
check_username(f, name) ==
    /\ name \in Usernames
    /\ username_storage' = [username_storage EXCEPT ![f] = name]

-----------------------------------------------------------------------------

\* Client::set_fd and Client::log_in on the account that matched.
log_in(f, k) ==
    /\ fd_id' = [fd_id EXCEPT ![k] = f]
    /\ logedIn' = [logedIn EXCEPT ![k] = TRUE]

\* Mutant: everyone at the descriptor is logged out.
log_out_all(k) ==
    /\ logedIn' = [j \in Accounts |-> logedIn[j] /\ fd_id[j] # fd_id[k]]
    /\ UNCHANGED fd_id

\* Client::log_out on the client of the descriptor; fd_id keeps its value.
log_out(k) ==
    /\ logedIn' = [logedIn EXCEPT ![k] = FALSE]
    /\ UNCHANGED fd_id

\* 331 when the name is known; 501 and 430 change nothing.
user_command(f, command) ==
    \/ /\ Len(command) = 2
       /\ check_username(f, command[2])
       /\ UNCHANGED <<fd_id, logedIn>>
    \/ /\ ~(Len(command) = 2 /\ command[2] \in Usernames)
       /\ UNCHANGED session

\* 230 when the descriptor has a name and the password is that account's;
\* 501 (not two words), 503 (no name yet) and 430 (no match) change nothing.
pass_command(f, command) ==
    \/ /\ Len(command) = 2
       /\ username_storage[f] # Absent
       /\ \E k \in Accounts :
              /\ check_password(k, username_storage[f], command[2])
              /\ log_in(f, k)
       /\ UNCHANGED username_storage
    \/ /\ ~(/\ Len(command) = 2
            /\ username_storage[f] # Absent
            /\ \E k \in Accounts : Matches(k, username_storage[f], command[2]))
       /\ UNCHANGED session

\* Mutant: quit forgets to erase the user name.
quit_command_keep_name(f, command) ==
    \/ /\ Len(command) = 1
       /\ \E k \in Accounts : get_Client(f, k) /\ log_out(k)
       /\ UNCHANGED username_storage
    \/ /\ Len(command) # 1
       /\ UNCHANGED session

\* 221 to a bare quit: the client of the descriptor is logged out, also when
\* it already was; 501 changes nothing.  Called only when is_loged_in(f).
quit_command(f, command) ==
    \/ /\ Len(command) = 1
       /\ \E k \in Accounts : get_Client(f, k) /\ log_out(k)
       /\ username_storage' = [username_storage EXCEPT ![f] = ""]
    \/ /\ Len(command) # 1
       /\ UNCHANGED session
=============================================================================
