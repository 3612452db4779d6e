------------------------------- MODULE Storage -------------------------------
(***************************************************************************)
(* The file commands: what pwd, cwd, mkd, dele, rename, ls and retr do to  *)
(* the directory tree all accounts share, to the position each account has *)
(* in it, and to what each account may still download.                     *)
(*                                                                         *)
(* An account keeps its position and its quota for the life of the server, *)
(* through logins, quits and connections.  The position is a text: nothing *)
(* ties it to the tree once cwd has accepted it.                           *)
(***************************************************************************)
EXTENDS FileTree, FiniteSets
LOCAL INSTANCE SequencesExt

CONSTANTS
    Accounts,    \* the accounts of config.json
    Admins,      \* those with "admin": "true"
    Files,       \* the "files" of config.json, as arguments
    Quota,       \* [Accounts -> bytes]: "size" cut to an int, times 1024
    MaxInt,      \* the largest int
    InitTree,    \* the tree when the server is started
    Home,        \* the directory it is started in
    ShellHome,   \* $HOME: where a bare "cd" goes
    Arguments,   \* the paths the clients type, split at '/'
    MaxPosition, \* bound: the components of a position
    MaxDepth,    \* bound: the depth of the tree
    MaxNodes     \* bound: its directories and files

ASSUME StorageAssumption ==
    /\ Admins \subseteq Accounts
    /\ MaxInt \in Nat
    /\ Quota \in [Accounts -> 0 .. MaxInt]
    /\ Arguments \subseteq Seq(STRING) \ {<<>>}
    /\ \A p \in DOMAIN InitTree : InitTree[p] = Dir \/ InitTree[p] \in Nat
    /\ Dir \notin Int

\* Typed paths are relative or absolute, with any ".." in them; no slash is typed
\* twice or last, and names hold no character the shell treats specially.
ASSUME PathAssumption ==
    /\ \A arg \in Arguments : \A i \in DOMAIN arg : arg[i] = "" => i = 1 /\ Len(arg) > 1
    /\ DOMAIN InitTree \subseteq Seq(STRING)
    /\ Home \in Seq(STRING) /\ ShellHome \in Seq(STRING)
    /\ NoPath \notin Seq(STRING)

VARIABLES
    tree,           \* see FileTree
    curr_position,  \* [Accounts -> the components after "cd ", <<>> for ""]
    size,           \* [Accounts -> int]: Client::size
    hung,           \* a handler is in a loop that never ends
    delivered       \* history: [Accounts -> bytes of the files downloaded]

disk == <<tree, curr_position, size, hung>>
vars == <<disk, delivered>>

\* A value as an int holds it.
int(n) == ((n + MaxInt + 1) % (2 * (MaxInt + 1))) - (MaxInt + 1)

Ints == -(MaxInt + 1) .. MaxInt

TypeOK ==
    /\ \A p \in DOMAIN tree : tree[p] = Dir \/ tree[p] \in Nat
    /\ curr_position \in [Accounts -> Seq(STRING)]
    /\ size \in [Accounts -> Ints]
    /\ hung \in BOOLEAN
    /\ delivered \in [Accounts -> Nat]

Init ==
    /\ tree = InitTree
    /\ curr_position = [k \in Accounts |-> <<>>]
    /\ size = Quota
    /\ hung = FALSE
    /\ delivered = [k \in Accounts |-> 0]

-----------------------------------------------------------------------------
\* is_permissionFiles: a file of the configuration is not for this client.
\* The name is compared as typed.
is_permissionFiles(k, arg) == k \notin Admins /\ arg \in Files

\* Mutant: the argument alone.
TargetAtHome(k, arg) == Walk(tree, From(Home, arg), arg)

\* The text of the position, a slash and the argument, as stat() resolves it.
Target(k, arg) ==
    LET path == curr_position[k] \o arg
    IN  Walk(tree, From(Home, path), path)

exists_file(k, arg) == Target(k, arg) # NoPath

\* Where the shell is after "cd <position>": its next command runs only if
\* that succeeds.  Of the position "/" the slash is cut off: a bare "cd" is left.
Where(k) ==
    LET position == curr_position[k]
    IN  IF position = <<"">>
        THEN ShellHome
        ELSE Walk(tree, From(Home, position), position)

InPlace(k) == IsDir(tree, Where(k))

\* Where the argument of a shell command leads from.
Start(k, arg) == From(Where(k), arg)

\* Mutant: ".." goes home, as back_to_home does.
update_position_home(position, arg) ==
    IF arg = <<"..">> THEN <<>> ELSE position \o arg

\* Client::update_position on a position that is not empty, or on "cd ".
update_position(position, arg) ==
    IF arg = <<"..">> THEN Front(position) ELSE position \o arg

-----------------------------------------------------------------------------
\* 257 and the directory, or nothing after it when cd fails; ls answers 226
\* and lists.  Neither changes anything.
pwd_command(k) == UNCHANGED vars

ls_command(k) == UNCHANGED vars

\* Mutant: the shell goes on when cd fails.
CreatedAnywhere(k, arg) ==
    /\ tree' = mkdir(tree, IF InPlace(k) THEN Start(k, arg) ELSE Home, arg)
    /\ UNCHANGED <<curr_position, size, hung, delivered>>

\* mkd: 257 in every case.
Created(k, arg) ==
    /\ tree' = IF InPlace(k) THEN mkdir(tree, Start(k, arg), arg) ELSE tree
    /\ UNCHANGED <<curr_position, size, hung, delivered>>

mkd_command(k, arg) == Created(k, arg)

\* What rm leaves.
Remains(k, recursive, arg) ==
    IF InPlace(k) THEN rm(tree, Start(k, arg), recursive, arg) ELSE tree

\* dele -d and dele -f: 250 when the file may be touched and is there; 550
\* and 500 change nothing.
Deletes(k, arg) == ~is_permissionFiles(k, arg) /\ exists_file(k, arg)

Deleted(k, recursive, arg) ==
    /\ Deletes(k, arg)
    /\ tree' = Remains(k, recursive, arg)
    /\ UNCHANGED <<curr_position, size, hung, delivered>>

dele_command(k, recursive, arg) ==
    \/ Deleted(k, recursive, arg)
    \/ ~Deletes(k, arg) /\ UNCHANGED vars

\* cwd without an argument: home, and no reply.
back_to_home(k) ==
    /\ curr_position' = [curr_position EXCEPT ![k] = <<>>]
    /\ UNCHANGED <<tree, size, hung, delivered>>

\* cwd: 250 when stat() finds the path, a file's too; 550 for ".." at home
\* and 500 change nothing.
Changed(k, arg) ==
    /\ ~(curr_position[k] = <<>> /\ arg = <<"..">>)
    /\ exists_file(k, arg)
    /\ curr_position' = [curr_position EXCEPT ![k] = update_position(@, arg)]
    /\ UNCHANGED <<tree, size, hung, delivered>>

cwd_command(k, arg) ==
    \/ Changed(k, arg)
    \/ /\ (curr_position[k] = <<>> /\ arg = <<"..">>) \/ ~exists_file(k, arg)
       /\ UNCHANGED vars

\* rename: 250 when the file may be touched and is there, whatever mv does.
Renamed(k, arg, new) ==
    /\ ~is_permissionFiles(k, arg) /\ exists_file(k, arg)
    /\ tree' = IF InPlace(k) THEN mv(tree, Start(k, arg), arg, Start(k, new), new) ELSE tree
    /\ UNCHANGED <<curr_position, size, hung, delivered>>

rename_command(k, arg, new) ==
    \/ Renamed(k, arg, new)
    \/ (is_permissionFiles(k, arg) \/ ~exists_file(k, arg)) /\ UNCHANGED vars

\* int file_size_in_bytes = in_file.tellg();
file_size_in_bytes(k, arg) == int(tree[Target(k, arg)])

\* Mutant: the unit of the configuration.
reduce_size_kbytes(k, n) == size' = [size EXCEPT ![k] = int(@ - (n \div 1024))]

reduce_size(k, n) == size' = [size EXCEPT ![k] = int(@ - n)]

\* retr of a file: 226 after its bytes, 425 (nothing changes) when it is
\* larger than what is left.
Downloaded(k, arg) ==
    /\ ~is_permissionFiles(k, arg) /\ IsFile(tree, Target(k, arg))
    /\ size[k] >= file_size_in_bytes(k, arg)
    /\ reduce_size(k, file_size_in_bytes(k, arg))
    /\ delivered' = [delivered EXCEPT ![k] = @ + tree[Target(k, arg)]]
    /\ UNCHANGED <<tree, curr_position, hung>>

\* retr of a directory: it opens, reading it fails, and eof() stays false.
Looped(k, arg) ==
    /\ ~is_permissionFiles(k, arg) /\ exists_file(k, arg)
    /\ ~IsFile(tree, Target(k, arg))
    /\ hung' = TRUE
    /\ UNCHANGED <<tree, curr_position, size, delivered>>

retr_command(k, arg) ==
    \/ Downloaded(k, arg)
    \/ Looped(k, arg)
    \/ /\ \/ is_permissionFiles(k, arg)
          \/ ~exists_file(k, arg)
          \/ /\ IsFile(tree, Target(k, arg))
             /\ size[k] < file_size_in_bytes(k, arg)
       /\ UNCHANGED vars

-----------------------------------------------------------------------------
\* Bound: commands that would make the tree larger are not given.
Small ==
    /\ \A p \in DOMAIN tree' : Len(p) <= MaxDepth
    /\ Cardinality(DOMAIN tree') <= MaxNodes

\* Bound: nobody takes away the directory the server runs in.
HomeStays == IsDir(tree', Home)

\* Bound: a ".." is not typed behind a name when it becomes part of a position.
\* Once that name is gone, where cd goes is up to the shell.
Settled(position) ==
    \A i \in 2 .. Len(position) : position[i] = ".." => position[i - 1] = ".."

Command(k) ==
    /\ ~hung
    /\ \/ pwd_command(k)
       \/ ls_command(k)
       \/ back_to_home(k)
       \/ \E arg \in Arguments :
             \/ mkd_command(k, arg) /\ Small
             \/ /\ cwd_command(k, arg)
                /\ Len(curr_position'[k]) <= MaxPosition /\ Settled(curr_position'[k])
             \/ retr_command(k, arg)
             \/ \E recursive \in BOOLEAN : dele_command(k, recursive, arg) /\ HomeStays
             \/ \E new \in Arguments :
                   /\ rename_command(k, arg, new) /\ Small /\ HomeStays
                   /\ Destination(tree, arg, Start(k, new), new) # Home

Next == \E k \in Accounts : Command(k)

Spec == Init /\ [][Next]_vars

-----------------------------------------------------------------------------
(***************************************************************************)
(* Safety.                                                                 *)
(***************************************************************************)

\* The paths a step adds, removes or gives another node.
Touched ==
    {p \in DOMAIN tree \cup DOMAIN tree' :
        ~(p \in DOMAIN tree \cap DOMAIN tree' /\ tree'[p] = tree[p])}

\* An account downloads no more than its quota, in any number of downloads,
\* sessions and renamings of what it downloads: what it got and what it has
\* left are the quota.  (Where no file is larger than an int can say.)
QuotaConserved ==
    \A k \in Accounts :
        size[k] + delivered[k] = Quota[k] /\ size[k] >= 0

\* A path that leads down: relative, without "..".
Down(arg) == \A i \in DOMAIN arg : arg[i] \notin {"", ".."}

DownArguments == {arg \in Arguments : Down(arg)}

\* A path that leads down acts below the directory its account is in, and does
\* nothing when that directory is gone: whatever the others delete or rename
\* around it, no command runs in a directory its account did not choose.
ActsBelowPosition ==
    [][\A k \in Accounts, arg \in DownArguments :
          (\/ mkd_command(k, arg)
           \/ \E recursive \in BOOLEAN : dele_command(k, recursive, arg)
           \/ \E new \in DownArguments : rename_command(k, arg, new))
          => \A p \in Touched : InPlace(k) /\ p \in Below(tree, Where(k))
                                                    \cup Below(tree', Where(k))]_tree

\* A relative path that ends with a name: "." and ".." are refused by rm, and
\* of an absolute one stat() sees what is behind the position.
Named(arg) == ~Absolute(arg) /\ Last(arg) \notin {".", ".."}

\* Whenever dele -d would answer 250, it removes what stat() found with all that
\* is below it, and nothing else: the text that was tested and the command the
\* shell runs mean the same node, which can be removed.
\* (Where the path ends with a name and the position is not "/", from which cd
\* goes elsewhere.)
DeletedIsGone ==
    \A k \in Accounts, arg \in {a \in Arguments : Named(a)} :
        (Deletes(k, arg) /\ curr_position[k] # <<"">>) =>
            DOMAIN Remains(k, TRUE, arg) = DOMAIN tree \ Below(tree, Target(k, arg))

\* A path of names: no component is empty, stays where it is or leads up.
Plain(names) == \A i \in DOMAIN names : names[i] \notin {"", ".", ".."}

\* After "250: Successful change." to "cwd ..", the account is in the directory
\* above the one it was in, however deep it went and in however many steps.
\* (From a position of names.  The text loses its last component, and "../" and
\* "a/./" and "/a/" without theirs are other places.)
UpIsUp ==
    [][\A k \in Accounts :
          (Changed(k, <<"..">>) /\ Plain(curr_position[k])) =>
              Where(k)' = Front(Where(k))]_curr_position
=============================================================================
