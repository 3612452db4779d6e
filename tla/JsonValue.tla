------------------------------- MODULE JsonValue -------------------------------
(***************************************************************************)
(* A Json::Value that an application changes, and a second one that it     *)
(* puts into the first, takes from it and exchanges with it.  Every call   *)
(* is made through a reference, to the first Value or to one below it.     *)
(***************************************************************************)
EXTENDS JsonPath
LOCAL INSTANCE SequencesExt
LOCAL INSTANCE FiniteSetsExt

CONSTANTS
    Starts,     \* what the two Values may be in the beginning
    Elements,   \* what may be the second one in a call that changes the first
    Names,      \* the names of members
    Paths,      \* the texts of paths
    Comments,   \* what is given to setComment
    MaxIndex,   \* bound: the greatest index
    MaxNodes    \* bound: the Values that the two consist of, if they are not from Starts

\* What a container has for a key: an index or a name, by its type.
IsKey(type, key) ==
    \/ type = "array" /\ key \in {-1} \X Nat
    \/ type = "object" /\ key \in Seq(Nat)

\* A Value that a program can hold: what contains something is a container, and
\* has a key of its kind for it.
IsValue(tree) ==
    /\ IsTree(tree) /\ tree = [p \in DOMAIN tree |-> tree[p]]
    /\ \A p \in DOMAIN tree : tree[p] = [field \in DOMAIN Null |-> tree[p][field]]
    /\ \A p \in DOMAIN tree \ {<<>>} :
           Front(p) \in DOMAIN tree /\ IsKey(tree[Front(p)].type, Last(p))

\* Names are made of bytes, and no text of a path has a NUL.
ASSUME JsonValueAssumption ==
    /\ \A tree \in Starts \cup Elements : IsValue(tree)
    /\ Names \subseteq Seq(Nat) /\ Paths \subseteq Seq(Byte \ {0})
    /\ MaxIndex \in Nat /\ MaxNodes \in Nat

VARIABLES
    value,      \* the first Value
    other,      \* the second one
    call        \* the last call: what, where, with what, and what came of it

vars == <<value, other, call>>

-----------------------------------------------------------------------------
(***************************************************************************)
(* What the calls make of a Value.                                         *)
(***************************************************************************)

\* A null becomes a container, and loses its comments.
As(v, type) == IF v[<<>>].type = "null" THEN Leaf(type, <<>>) ELSE v

\* operator[] of a container.
Subscript(v, key) == resolveReference(v, <<>>, key)

Replace(v, key, x) == Put(v, <<key>>, x)

Erase(v, keys) == [p \in {q \in DOMAIN v : q = <<>> \/ q[1] \notin keys} |-> v[p]]

\* Move-assignment: what was there is what the other one has then.
Swapped(v, k, l) ==
    LET both == Subscript(Subscript(v, k), l)
    IN  Replace(Replace(both, k, Child(both, l)), l, Child(both, k))

append(v, x) ==
    LET array == As(v, "array") IN Replace(array, Index(size(array, <<>>)), x)

\* Mutant: the shift begins one too low, and the last element is lost.
InsertShort(v, index, x) ==
    LET n == size(v, <<>>)
        moved[j \in 0 .. n - index] ==
            IF j <= 1 THEN As(v, "array") ELSE Swapped(moved[j - 1], Index(n + 1 - j), Index(n - j))
    IN  Replace(moved[n - index], Index(index), x)

\* insert: from the end, each element is moved up by one.
insert(v, index, x) ==
    LET n == size(v, <<>>)
        moved[j \in 0 .. n - index] ==
            IF j = 0 THEN As(v, "array") ELSE Swapped(moved[j - 1], Index(n + 1 - j), Index(n - j))
    IN  Replace(moved[n - index], Index(index), x)

\* removeIndex: each element behind it is copied down by one, where a hole is
\* becomes a null, and the last one is erased.
removeIndex(v, index) ==
    LET last == size(v, <<>>) - 1
        Down(w, i) ==
            LET next == Subscript(w, Index(i + 1)) IN Replace(next, Index(i), Child(next, Index(i + 1)))
        moved[j \in 0 .. last - index] == IF j = 0 THEN v ELSE Down(moved[j - 1], index + j - 1)
    IN  Erase(moved[last - index], {Index(last)})

clear(v) ==
    [p \in {<<>>} |-> [v[<<>>] EXCEPT !.start = 0, !.limit = 0]]

\* resize: from the old end on, each index is asked for.
resize(v, n) ==
    LET array == As(v, "array")
        old == size(array, <<>>)
        grown[j \in 0 .. n - old] ==
            IF j = 0 THEN array ELSE Subscript(grown[j - 1], Index(old + j - 1))
    IN  CASE n = 0 -> clear(array)
          [] n > old -> grown[n - old]
          [] OTHER -> Erase(array, {Index(i) : i \in n .. old - 1})

\* copyPayload: the comments and the offsets stay.
WithPayload(v, x) ==
    [x EXCEPT ![<<>>] = [v[<<>>] EXCEPT !.type = x[<<>>].type, !.val = x[<<>>].val]]

-----------------------------------------------------------------------------
(***************************************************************************)
(* The calls.  JSON_ASSERT throws, before anything is changed but in       *)
(* resize.                                                                 *)
(***************************************************************************)
At(p) == Subtree(value, p)

Size(p) == size(value, p)

Called(op, p, index, name, ok, result) ==
    call' = [op |-> op, at |-> p, index |-> index, name |-> name, arg |-> other,
             ok |-> ok, result |-> result]

\* Mutant: the assertion comes behind the change.
AttemptLate(op, p, index, name, may, v, result) ==
    /\ value' = Put(value, p, v)
    /\ Called(op, p, index, name, may, IF may THEN result ELSE {})

Attempt(op, p, index, name, may, v, result) ==
    /\ value' = IF may THEN Put(value, p, v) ELSE value
    /\ Called(op, p, index, name, may, IF may THEN result ELSE {})

CallAppend(p) ==
    /\ Attempt("append", p, 0, <<>>, May(At(p), "array"), append(At(p), other), {})
    /\ UNCHANGED other

CallInsert(p, i) ==
    LET fits == i <= Size(p)
    IN  /\ Attempt("insert", p, i, <<>>, May(At(p), "array"),
                   IF fits THEN insert(At(p), i, other) ELSE At(p), IF fits THEN {other} ELSE {})
        /\ UNCHANGED other

\* The element that is removed is copied into the second Value.
CallRemoveIndex(p, i) ==
    LET at == Append(p, Index(i))
        there == value[p].type = "array" /\ at \in DOMAIN value
    IN  /\ Attempt("removeIndex", p, i, <<>>, TRUE,
                   IF there THEN removeIndex(At(p), i) ELSE At(p), IF there THEN {At(at)} ELSE {})
        /\ other' = IF there THEN At(at) ELSE other

\* JSON_ASSERT(size() == newSize) comes behind the erasing.
CallResize(p, n) ==
    LET v == resize(At(p), n)
        may == May(At(p), "array")
    IN  /\ value' = IF may THEN Put(value, p, v) ELSE value
        /\ Called("resize", p, n, <<>>, may /\ (n = 0 \/ size(v, <<>>) = n), {})
        /\ UNCHANGED other

CallClear(p) ==
    /\ Attempt("clear", p, 0, <<>>, value[p].type \in Containers \cup {"null"}, clear(At(p)), {})
    /\ UNCHANGED other

\* operator[](ArrayIndex)
CallIndex(p, i) ==
    /\ Attempt("index", p, i, <<>>, May(At(p), "array"), Subscript(As(At(p), "array"), Index(i)), {})
    /\ UNCHANGED other

\* operator[](String), demand
CallName(p, n) ==
    /\ Attempt("name", p, 0, n, May(At(p), "object"), Subscript(As(At(p), "object"), n), {})
    /\ UNCHANGED other

\* removeMember(begin, end, removed): the member is moved into the second Value.
CallRemoveMember(p, n) ==
    LET at == Append(p, n)
        there == value[p].type = "object" /\ at \in DOMAIN value
    IN  /\ Attempt("removeMember", p, 0, n, TRUE,
                   IF there THEN Erase(At(p), {n}) ELSE At(p), IF there THEN {At(at)} ELSE {})
        /\ other' = IF there THEN At(at) ELSE other

\* removeMember(key), which returns nothing.
CallEraseMember(p, n) ==
    /\ Attempt("eraseMember", p, 0, n, May(At(p), "object"), Erase(At(p), {n}), {})
    /\ UNCHANGED other

\* operator=, copy
CallAssign(p) == Attempt("replace", p, 0, <<>>, TRUE, other, {}) /\ UNCHANGED other

CallSwap(p) == Attempt("replace", p, 0, <<>>, TRUE, other, {}) /\ other' = At(p)

CallCopyPayload(p) ==
    Attempt("replace", p, 0, <<>>, TRUE, WithPayload(At(p), other), {}) /\ UNCHANGED other

CallSwapPayload(p) ==
    /\ Attempt("replace", p, 0, <<>>, TRUE, WithPayload(At(p), other), {})
    /\ other' = WithPayload(other, At(p))

CallSetComment(p, comment, slot) ==
    LET kept == IF comment # <<>> /\ Last(comment) = LF THEN Front(comment) ELSE comment
    IN  /\ Attempt("note", p, 0, <<>>, kept # <<>> /\ kept[1] \in {0, C("/")},
                   setComment(At(p), <<>>, comment, slot), {})
        /\ UNCHANGED other

\* The second Value is made another one.
CallOther(x) ==
    other' = x /\ Attempt("note", <<>>, 0, <<>>, TRUE, value, {})

\* Path(path).make(value)
CallMake(path) ==
    LET made == make(value, makePath(path, <<>>))
    IN  /\ value' = made.root
        /\ Called("make", <<>>, 0, path, made.ok, {Subtree(made.root, made.at)})
        /\ UNCHANGED other

-----------------------------------------------------------------------------
Init ==
    /\ value \in Starts /\ other \in Starts
    /\ call = [op |-> "none", at |-> <<>>, index |-> 0, name |-> <<>>, arg |-> other,
               ok |-> TRUE, result |-> {}]

Indices == 0 .. MaxIndex

Change ==
    /\ other \in Elements
    /\ value \in Starts \/ Cardinality(DOMAIN value) + Cardinality(DOMAIN other) <= MaxNodes
    /\ \E p \in DOMAIN value :
           \/ CallAppend(p) \/ CallClear(p) \/ CallAssign(p) \/ CallSwap(p)
           \/ CallCopyPayload(p) \/ CallSwapPayload(p)
           \/ \E i \in Indices : \/ CallInsert(p, i) \/ CallRemoveIndex(p, i)
                                 \/ CallResize(p, i) \/ CallIndex(p, i)
           \/ \E n \in Names : \/ CallName(p, n) \/ CallRemoveMember(p, n) \/ CallEraseMember(p, n)
           \/ \E comment \in Comments : CallSetComment(p, comment, Before)
           \/ \E path \in Paths : CallMake(path)

Next == Change \/ (other \notin Elements /\ \E x \in Elements : CallOther(x))

Spec == Init /\ [][Next]_vars

-----------------------------------------------------------------------------
\* No array has a hole.
Dense == \A p \in DOMAIN value :
             value[p].type = "array" => Cardinality(Children(value, p)) = size(value, p)

\* The members of an object as a walk with an iterator collects them: so a builder
\* collects the settings that it does not know.
Collected(v) ==
    LET keys == ToSet(Members(v, <<>>))
    IN  [n \in {iteratorName(key) : key \in keys} |-> Child(v, CHOOSE key \in keys : iteratorName(key) = n)]

\* The content of a Value, as a container has it.
Content(v) ==
    CASE v[<<>>].type = "array" ->
             [kind |-> "array",
              of   |-> [i \in 1 .. size(v, <<>>) |->
                           IF <<Index(i - 1)>> \in DOMAIN v THEN Child(v, Index(i - 1))
                                                           ELSE Leaf("null", <<>>)]]
      [] v[<<>>].type = "object" ->
             [kind |-> "object", of |-> Collected(v)]
      [] v[<<>>].type = "null" -> [kind |-> "null", of |-> <<>>]
      [] OTHER -> [kind |-> "scalar", of |-> <<>>]

\* A call on an element is a call inside, with the place of the element.
Place == LET key == call.at[1] IN IF IsIndex(key) THEN key[2] + 1 ELSE key

Abstracted ==
    IF call.at = <<>> THEN call ELSE [call EXCEPT !.op = "inside", !.index = Place]

Contents == INSTANCE JsonContainer WITH
        content <- Content(value), call <- Abstracted, Empty <- Leaf("null", <<>>)

\* An array is a sequence and an object a function: what the loops of insert,
\* removeIndex and resize do, element by element and with comments and offsets,
\* is done to the sequence at once, and a walk with an iterator finds the members
\* that the calls have made.  In an array with holes removeIndex and resize do
\* something else.
ContainerSpec ==
    /\ Contents!Init
    /\ [][Contents!Next \/ (call'.op \in {"removeIndex", "resize"} /\ ~Dense)]_vars

\* A call that throws leaves both Values as they were; not so resize, when it
\* finds a hole where the array should end.  Path::make throws before it has made
\* anything: what it makes is null, and a null takes every key.
ThrowsCleanly ==
    [][~call'.ok => \/ UNCHANGED <<value, other>>
                    \/ call'.op = "resize" /\ ~Dense]_vars

\* operator<, operator> and operator== are a total order of all Values without a
\* NaN, equal are those that hold the same, and compare() tells the same.
HasNaN(tree) == \E p \in DOMAIN tree : tree[p].type = "real" /\ tree[p].val = NaN

ComparesTotally ==
    ~HasNaN(value) /\ ~HasNaN(other) =>
        /\ Less(value, other) => ~Less(other, value)
        /\ Equal(value, other) <=> ~Less(value, other) /\ ~Less(other, value)
        /\ compare(value, other) = -compare(other, value)
        /\ value \in Starts /\ other \in Starts =>
               \A x \in Starts : Less(value, other) /\ Less(other, x) /\ ~HasNaN(x) => Less(value, x)

\* isConvertibleTo tells whether the conversion throws, and a conversion yields
\* a number of its type; the two that test with InRange a limit that no double
\* has take the number beyond it for one as well.
ConvertsAsTold ==
    LET v == value[<<>>]
        Within(answer, range) == answer.ok => answer.val \in range
    IN  /\ isConvertibleTo(value, "int") <=> asInt(v).ok
        /\ isConvertibleTo(value, "uint") <=> asUInt(v).ok
        /\ isConvertibleTo(value, "real") <=> asDouble(v).ok
        /\ isConvertibleTo(value, "boolean") <=> asBool(v).ok
        /\ isConvertibleTo(value, "string") <=> asText(v).ok
        /\ isConvertibleTo(value, "null") /\ asBool(v).ok => ~asBool(v).val
        /\ Within(asInt(v), minInt .. maxInt) /\ Within(asUInt(v), 0 .. maxUInt)
        /\ isInt64(v) => asInt64(v).ok /\ asInt64(v).val \in minLargestInt .. maxLargestInt
        /\ isUInt64(v) => asUInt64(v).ok /\ asUInt64(v).val \in 0 .. maxLargestUInt
        /\ isIntegral(v) <=> isInt64(v) \/ isUInt64(v)
        /\ isInt(v) => isInt64(v) /\ asInt64(v) = asInt(v)
        /\ isUInt(v) => isUInt64(v) /\ asUInt64(v) = asUInt(v)

\* What a path has made, the path finds, and nothing else.
PathFindsWhatItMade ==
    [][call'.op = "make" /\ call'.ok => Resolved(value', makePath(call'.name, <<>>)) = call'.result]_vars
=============================================================================
