------------------------------- MODULE JsonPath -------------------------------
(***************************************************************************)
(* Json::Path: the arguments that a text stands for, and the Value that    *)
(* they lead to.  An argument is a key of JsonTree.  A text with a NUL is  *)
(* left out: the loop of makePath does not end at it.                      *)
(***************************************************************************)
EXTENDS JsonQueries
LOCAL INSTANCE SequencesExt

\* Behind "[" and an index: one character is skipped, which should be a "]".
BehindIndex(path, at) == IF at = Len(path) THEN at ELSE at + 1

\* makePath: "in" are the arguments that a "%" stands for, each with its kind; one
\* of the other kind is not used up.
makePath(path, in) ==
    LET n == Len(path)
        fits(k, kind) == k <= Len(in) /\ in[k].kind = kind
        from[at \in 0 .. n] ==
            [k \in 1 .. Len(in) + 1 |->
                LET argument(kind, next) ==
                        IF fits(k, kind) THEN <<in[k].key>> \o from[next][k + 1] ELSE from[next][k]
                    digits == Span(path, at + 1, Digits)
                    name   == Span(path, at, Byte \ {C("["), C("."), 0})
                IN  CASE at = n -> <<>>
                      [] HasAt(path, at, C("[")) /\ HasAt(path, at + 1, C("%")) ->
                             argument("index", BehindIndex(path, at + 1))
                      [] HasAt(path, at, C("[")) /\ ~HasAt(path, at + 1, C("%")) ->
                             <<Index(Number(Slice(path, at + 1, digits)))>> \o from[BehindIndex(path, digits)][k]
                      [] HasAt(path, at, C("%")) -> argument("key", at + 1)
                      [] HasAt(path, at, C(".")) \/ HasAt(path, at, C("]")) -> from[at + 1][k]
                      [] OTHER -> <<Slice(path, at, name)>> \o from[name][k]]
    IN  from[0][1]

ContainerFor(key) == IF IsIndex(key) THEN "array" ELSE "object"

\* resolve: where the arguments lead, if they lead anywhere.  In an array they
\* may lead to a hole, and there to a null.
Found(v, key) ==
    LET inside == IF IsIndex(key) THEN isValidIndex(v, key[2]) ELSE <<key>> \in DOMAIN v
    IN  CASE v[<<>>].type # ContainerFor(key) \/ ~inside -> {}
          [] <<key>> \in DOMAIN v -> {Child(v, key)}
          [] OTHER -> {Leaf("null", <<>>)}

Resolved(root, args) ==
    LET reached[i \in 0 .. Len(args)] ==
            IF i = 0 THEN {root} ELSE UNION {Found(v, args[i]) : v \in reached[i - 1]}
    IN  reached[Len(args)]

resolve(root, args, default) ==
    LET found == Resolved(root, args) IN IF found = {} THEN default ELSE CHOOSE v \in found : TRUE

\* operator[] of the Value at a path, for a key that its type allows.
Subscripted(root, path, key) ==
    LET v == Subtree(root, path)
        container == IF v[<<>>].type = "null" THEN Leaf(ContainerFor(key), <<>>) ELSE v
    IN  Put(root, path, resolveReference(container, <<>>, key))

\* make: operator[] for one argument after the other, until one of them throws.
make(root, args) ==
    LET made[i \in 0 .. Len(args)] ==
            LET x   == made[i - 1]
                key == args[i]
            IN  CASE i = 0 -> [ok |-> TRUE, root |-> root, at |-> <<>>]
                  [] i > 0 /\ (~x.ok \/ ~May(Subtree(x.root, x.at), ContainerFor(key))) ->
                         [x EXCEPT !.ok = FALSE]
                  [] OTHER -> [x EXCEPT !.root = Subscripted(x.root, x.at, key), !.at = Append(@, key)]
    IN  made[Len(args)]
=============================================================================
