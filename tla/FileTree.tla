------------------------------ MODULE FileTree ------------------------------
(***************************************************************************)
(* The file system, as stat() and the shell commands that the server       *)
(* executes (cd, mkdir, rm, mv) see it.  A tree maps the path of each      *)
(* node, the sequence of names from the root, to Dir or to the size of a   *)
(* file in bytes.  There are no symbolic links.                            *)
(***************************************************************************)
EXTENDS Integers, Sequences
LOCAL INSTANCE SequencesExt

CONSTANTS
    Dir,      \* a node that is a directory
    NoPath    \* a path that leads nowhere

Root == <<>>

IsDir(tree, path) == path \in DOMAIN tree /\ tree[path] = Dir

IsFile(tree, path) == path \in DOMAIN tree /\ tree[path] # Dir

Below(tree, path) == {p \in DOMAIN tree : IsPrefix(path, p)}

\* One component of a path, from a node that has to be a directory.
Enter(tree, at, name) ==
    CASE ~IsDir(tree, at) -> NoPath
      [] IsDir(tree, at) /\ name \in {"", "."} -> at
      [] IsDir(tree, at) /\ name = ".." -> IF at = Root THEN Root ELSE Front(at)
      [] OTHER -> LET to == Append(at, name)
                  IN  IF to \in DOMAIN tree THEN to ELSE NoPath

\* The node a text of components leads to, from the directory "at".
Walk(tree, at, names) ==
    LET node[i \in 0 .. Len(names)] ==
            IF i = 0 THEN at ELSE Enter(tree, node[i - 1], names[i])
    IN  node[Len(names)]

\* A text that begins with a slash: its first component is empty.
Absolute(names) == names # <<>> /\ names[1] = ""

\* Where a text leads from: the root, or the directory it is relative to.
From(at, names) == IF Absolute(names) THEN Root ELSE at

\* The path a new entry gets: its parent is there, and it has a name.
Entry(tree, at, names) ==
    LET parent == Walk(tree, at, Front(names))
    IN  IF IsDir(tree, parent) /\ Last(names) \notin {"", ".", ".."}
        THEN Append(parent, Last(names))
        ELSE NoPath

-----------------------------------------------------------------------------
Without(tree, path) ==
    [p \in DOMAIN tree \ Below(tree, path) |-> tree[p]]

\* mkdir: the tree is unchanged when there is no parent or the name is taken.
mkdir(tree, at, names) ==
    LET new == Entry(tree, at, names)
    IN  IF new = NoPath \/ new \in DOMAIN tree
        THEN tree
        ELSE [p \in DOMAIN tree \cup {new} |-> IF p = new THEN Dir ELSE tree[p]]

\* rm, with -r if recursive: a directory needs -r, and "." and ".." are refused.
rm(tree, at, recursive, names) ==
    LET node == Walk(tree, at, names)
    IN  IF /\ node \in DOMAIN tree
           /\ Last(names) \notin {".", ".."}
           /\ recursive \/ IsFile(tree, node)
        THEN Without(tree, node)
        ELSE tree

\* Whether rename(2) accepts the target.
Accepts(tree, node, target) ==
    \/ target \notin DOMAIN tree
    \/ IsFile(tree, node) /\ IsFile(tree, target)
    \/ IsDir(tree, node) /\ Below(tree, target) = {target} /\ IsDir(tree, target)

\* The tree with what is at and below "node" at and below "target" instead.
Moved(tree, node, target) ==
    LET rest  == Without(Without(tree, node), target)
        to(p) == target \o SubSeq(p, Len(node) + 1, Len(p))
        new   == {to(p) : p \in Below(tree, node)}
    IN  [q \in DOMAIN rest \cup new |->
            IF q \in new
            THEN tree[CHOOSE p \in Below(tree, node) : to(p) = q]
            ELSE tree[q]]

\* Where mv puts a node: into the second argument when that is a directory, else
\* at that name.
Destination(tree, names, newAt, newNames) ==
    LET where == Walk(tree, newAt, newNames)
    IN  IF IsDir(tree, where)
        THEN Append(where, Last(names))
        ELSE Entry(tree, newAt, newNames)

mv(tree, at, names, newAt, newNames) ==
    LET node   == Walk(tree, at, names)
        target == Destination(tree, names, newAt, newNames)
    IN  IF \/ node \notin DOMAIN tree
           \/ Last(names) \in {"", ".", ".."}
           \/ target = NoPath
           \/ IsPrefix(node, target)
           \/ ~Accepts(tree, node, target)
        THEN tree
        ELSE Moved(tree, node, target)
=============================================================================
