------------------------------- MODULE JsonTree -------------------------------
(***************************************************************************)
(* A Json::Value with everything below it, as a function from paths to     *)
(* nodes: the root has the path <<>>, and what the map of an array or an   *)
(* object holds under a key is at the path of the container with that key  *)
(* appended.  A C++ reference to a Value is a path.                        *)
(*                                                                         *)
(* A payload is a sequence of numbers, which its type gives a meaning:     *)
(* the number of an int or uint, <<0>> or <<1>> for a bool, the bytes of a *)
(* string, <<m, e>> for the real m * 10^e.                                 *)
(***************************************************************************)
EXTENDS JsonText, FiniteSets
LOCAL INSTANCE SequencesExt
LOCAL INSTANCE FiniteSetsExt

\* In the order of ValueType.
Types == <<"null", "int", "uint", "real", "string", "boolean", "array", "object">>

Containers == {"array", "object"}

\* CommentPlacement
Before == 1
AfterOnSameLine == 2
After == 3

NoComments == [slot \in {Before, AfterOnSameLine, After} |-> <<>>]

\* The payload of Value(type).
EmptyPayload(type) ==
    CASE type \in {"int", "uint", "boolean"} -> <<0>>
      [] type = "real" -> <<0, 0>>
      [] OTHER -> <<>>

\* initBasic
Node(type, val) ==
    [type |-> type, val |-> val, comments |-> NoComments, start |-> 0, limit |-> 0]

Null == Node("null", <<>>)

Leaf(type, val) == [p \in {<<>>} |-> Node(type, val)]

\* A payload of each type.
IsPayload(type, val) ==
    /\ \E i \in DOMAIN Types : type = Types[i]
    /\ val \in Seq(Int)
    /\ type \in {"int", "uint", "boolean"} => Len(val) = 1
    /\ type = "real" => Len(val) \in {0, 2}

\* A Value that a program can hold: what its paths and nodes are.
IsTree(tree) ==
    /\ <<>> \in DOMAIN tree /\ IsFiniteSet(DOMAIN tree)
    /\ \A p \in DOMAIN tree : p \in Seq(Seq(Int)) /\ IsPayload(tree[p].type, tree[p].val)

-----------------------------------------------------------------------------
\* CZString: an index of an array, or the bytes of the name of a member.
Index(i) == <<-1, i>>

IsIndex(key) == key # <<>> /\ key[1] = -1

Below(path, p) == IsStrictPrefix(path, p)

\* What releasePayload frees, and dupPayload copies.
Children(tree, path) ==
    {p[Len(p)] : p \in {q \in DOMAIN tree : Len(q) = Len(path) + 1 /\ Below(path, q)}}

Subtree(tree, path) ==
    [p \in {SubSeq(q, Len(path) + 1, Len(q)) : q \in {r \in DOMAIN tree : IsPrefix(path, r)}}
        |-> tree[path \o p]]

\* A copy of a Value put in the place of another, or at a new key.
Put(tree, path, value) ==
    [p \in {q \in DOMAIN tree : ~IsPrefix(path, q)} \cup {path \o q : q \in DOMAIN value} |->
        IF IsPrefix(path, p) THEN value[SubSeq(p, Len(path) + 1, Len(p))] ELSE tree[p]]

\* swapPayload with a Value that is dropped then: what was below is freed, but
\* the comments and the offsets stay.
swapPayload(tree, path, type, val) ==
    [p \in {q \in DOMAIN tree : ~Below(path, q)} |->
        IF p = path THEN [tree[p] EXCEPT !.type = type, !.val = val] ELSE tree[p]]

setOffsets(tree, path, start, limit) ==
    [tree EXCEPT ![path].start = start, ![path].limit = limit]

\* setComment drops one newline at the end of the text.
setComment(tree, path, comment, placement) ==
    [tree EXCEPT ![path].comments[placement] =
        IF comment # <<>> /\ Last(comment) = LF THEN Front(comment) ELSE comment]

hasComment(value, slot) == value[<<>>].comments[slot] # <<>>

\* The Value at a key: the one that is there, or a new null.
resolveReference(tree, path, key) ==
    LET at == Append(path, key)
    IN  [p \in DOMAIN tree \cup {at} |-> IF p \in DOMAIN tree THEN tree[p] ELSE Null]

\* Mutant: the lengths are compared with <=.
KeyLessOrSame(a, b) ==
    \E n \in 0 .. Len(a) :
        /\ n <= Len(b)
        /\ SubSeq(a, 1, n) = SubSeq(b, 1, n)
        /\ n = Len(a) \/ (n < Len(b) /\ a[n + 1] < b[n + 1])

\* CZString::operator<: indices by number, names by byte and then by length.
KeyLess(a, b) ==
    \E n \in 0 .. Len(a) :
        /\ n < Len(b)
        /\ SubSeq(a, 1, n) = SubSeq(b, 1, n)
        /\ n = Len(a) \/ a[n + 1] < b[n + 1]

\* The order in which the map is walked: each key comes after those less than it.
Members(tree, path) ==
    LET keys == Children(tree, path)
        before(k) == {l \in keys \ {k} : KeyLess(l, k)}
    IN  [i \in 1 .. Cardinality(keys) |-> CHOOSE k \in keys : Cardinality(before(k)) = i - 1]

\* size(): of an array, its highest index + 1, however many indices it holds.
size(tree, path) ==
    LET keys == Children(tree, path)
    IN  CASE tree[path].type = "array" /\ keys # {} -> 1 + Max({k[2] : k \in keys})
          [] tree[path].type = "object" -> Cardinality(keys)
          [] OTHER -> 0
=============================================================================
