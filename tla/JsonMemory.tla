------------------------------ MODULE JsonMemory ------------------------------
(***************************************************************************)
(* The memory of Json::Values: the texts and the maps that they allocate,  *)
(* the keys of maps, which are copies of a name or point to a text of the  *)
(* application, and what copying, moving, swapping and destroying do with  *)
(* them.  Allocation fails when all blocks are taken.  The type of a Value *)
(* is null (or a number, which has no memory either), string or object.    *)
(* The nodes of the std::map and the comments are left out.                *)
(***************************************************************************)
EXTENDS Integers, Sequences, FiniteSets
LOCAL INSTANCE SequencesExt
LOCAL INSTANCE FiniteSetsExt

CONSTANTS
    Vars,       \* the application's Values
    Texts,      \* texts: names of members, and payloads
    Blocks,     \* the addresses of the heap
    MaxDepth    \* bound: of references, the variable included

ASSUME JsonMemoryAssumption == Texts \subseteq Nat \ {0} /\ Blocks \subseteq Nat \ {0} /\ MaxDepth \in Nat

VARIABLES
    heap,       \* what is at each address
    var,        \* the application's Values
    call        \* the last operation

vars == <<heap, var, call>>

\* The application has each text at an address of its own, for StaticString; an
\* argument of a call is at address 0, until the call returns.
Static(text) == -text
Argument == 0

Free == [kind |-> "free", text |-> 0, of |-> <<>>]
Twice == [Free EXCEPT !.kind = "freed twice"]
TextBlock(text) == [Free EXCEPT !.kind = "text", !.text = text]
MapBlock(members) == [Free EXCEPT !.kind = "map", !.of = members]

\* A Value: bits_ and value_.
Value(type, at, allocated) == [type |-> type, at |-> at, allocated |-> allocated]
NullValue == Value("null", 0, FALSE)

\* CZString and the Value that the map has for it.
Member(key, policy, value) == [key |-> key, policy |-> policy, value |-> value]

-----------------------------------------------------------------------------
(***************************************************************************)
(* Operations on the heap.  What may fail yields a heap, a result and      *)
(* whether it came to be.                                                  *)
(***************************************************************************)
Unused(h) == {b \in Blocks : h[b].kind = "free"}

Fail(h) == [ok |-> FALSE, heap |-> h, is |-> 0]
Have(h, is) == [ok |-> TRUE, heap |-> h, is |-> is]

\* malloc, new
allocate(h, block) ==
    IF Unused(h) = {} THEN Fail(h)
    ELSE LET b == Min(Unused(h)) IN Have([h EXCEPT ![b] = block], b)

\* free, delete
release(h, b) == [h EXCEPT ![b] = IF @.kind = "free" THEN Twice ELSE Free]

\* The text that decodePrefixedString or data() finds.
TextAt(h, p) ==
    CASE p < 0 -> -p
      [] p \in Blocks -> h[p].text
      [] OTHER -> 0

\* Mutant: a copy has the same pointer, and says that it owns it.
CopiedKeyShared(h, key, policy, text) ==
    [Have(h, key) EXCEPT !.is = [key |-> key, policy |-> "duplicate"]]

\* CZString(const CZString&): duplicateOnCopy becomes duplicate.  A name that is
\* an argument is given with the key.
CopiedKey(h, key, policy, text) ==
    IF policy = "noDuplication"
    THEN [Have(h, key) EXCEPT !.is = [key |-> key, policy |-> policy]]
    ELSE LET copy == allocate(h, TextBlock(text))
         IN  [copy EXCEPT !.is = [key |-> copy.is, policy |-> "duplicate"]]

\* Mutant: the copy of a text is the text.
DupPayloadShallow(h, v) == Have(h, v)

RECURSIVE dupPayload(_, _)

\* Value(const Value&).  When it fails, what it had allocated is freed again.
dupPayload(h, v) ==
    LET MemberCopied(done, name) ==
            LET member == h[v.at].of[name]
                key    == CopiedKey(done.heap, member.key, member.policy, TextAt(h, member.key))
                value  == dupPayload(key.heap, member.value)
            IN  CASE ~done.ok -> done
                  [] done.ok /\ key.ok /\ value.ok ->
                         Have(value.heap,
                              [n \in DOMAIN done.is \cup {name} |->
                                  IF n = name THEN Member(key.is.key, key.is.policy, value.is)
                                              ELSE done.is[n]])
                  [] OTHER -> Fail(h)
        text    == allocate(h, TextBlock(TextAt(h, v.at)))
        map     == allocate(h, MapBlock(<<>>))
        members == FoldSet(LAMBDA name, done : MemberCopied(done, name),
                           [map EXCEPT !.is = <<>>], DOMAIN h[v.at].of)
    IN  CASE v.type = "string" /\ v.allocated -> [text EXCEPT !.is = Value("string", text.is, TRUE)]
          [] v.type = "object" /\ members.ok ->
                 Have([members.heap EXCEPT ![map.is] = MapBlock(members.is)],
                      Value("object", map.is, FALSE))
          [] v.type = "object" /\ ~members.ok -> Fail(h)
          [] OTHER -> Have(h, [v EXCEPT !.allocated = FALSE])

RECURSIVE releasePayload(_, _)

\* ~Value(), ~CZString()
releasePayload(h, v) ==
    LET KeyReleased(g, member) ==
            IF member.policy = "duplicate" THEN release(g, member.key) ELSE g
        MemberReleased(name, g) ==
            LET member == h[v.at].of[name]
            IN  KeyReleased(releasePayload(g, member.value), member)
    IN  CASE v.type = "string" /\ v.allocated -> release(h, v.at)
          [] v.type = "object" -> release(FoldSet(MemberReleased, h, DOMAIN h[v.at].of), v.at)
          [] OTHER -> h

-----------------------------------------------------------------------------
(***************************************************************************)
(* References: a variable and the names that lead to a Value below it.     *)
(***************************************************************************)
State == [heap |-> heap, var |-> var]

RECURSIVE At(_, _)

At(s, r) ==
    IF Len(r) = 1 THEN s.var[r[1]] ELSE s.heap[At(s, Front(r)).at].of[Last(r)].value

PutAt(s, r, v) ==
    IF Len(r) = 1 THEN [s EXCEPT !.var[r[1]] = v]
    ELSE [s EXCEPT !.heap[At(s, Front(r)).at].of[Last(r)].value = v]

RECURSIVE From(_, _, _)

From(s, r, depth) ==
    {r} \cup IF At(s, r).type = "object" /\ depth > 1
             THEN UNION {From(s, Append(r, name), depth - 1) : name \in DOMAIN s.heap[At(s, r).at].of}
             ELSE {}

References(s, depth) == UNION {From(s, <<x>>, depth) : x \in Vars}

\* Neither is below the other.
Apart(r, q) == ~IsPrefix(r, q) /\ ~IsPrefix(q, r)

-----------------------------------------------------------------------------
(***************************************************************************)
(* Operations.  "to" is changed, "from" is what is copied or moved.        *)
(***************************************************************************)
Becomes(s, op, to, from, ok) ==
    /\ heap' = s.heap /\ var' = s.var
    /\ call' = [op |-> op, to |-> to, from |-> from, ok |-> ok]

Throw(op, to, from) == Becomes(State, op, to, from, FALSE)

\* operator=(Value&&) with a temporary Value: it takes what was there with it.
Assigned(s, r, v) ==
    LET put == PutAt(s, r, v) IN [put EXCEPT !.heap = releasePayload(@, At(s, r))]

\* r = Value(text), of a copy or of a StaticString
AssignText(r, text) ==
    LET copy == allocate(heap, TextBlock(text))
    IN  IF copy.ok
        THEN Becomes(Assigned([State EXCEPT !.heap = copy.heap], r, Value("string", copy.is, TRUE)),
                     "text", r, r, TRUE)
        ELSE Throw("text", r, r)

AssignStatic(r, text) ==
    Becomes(Assigned(State, r, Value("string", Static(text), FALSE)), "text", r, r, TRUE)

\* operator=(const Value&): copied first, so that it may be below r, or above it.
AssignCopy(r, q) ==
    LET copy == dupPayload(heap, At(State, q))
    IN  IF copy.ok THEN Becomes(Assigned([State EXCEPT !.heap = copy.heap], r, copy.is), "copy", r, q, TRUE)
        ELSE Throw("copy", r, q)

\* operator=(Value&&) with r and q of the application's: the same as swap.
Swap(r, q) ==
    /\ Apart(r, q)
    /\ Becomes(PutAt(PutAt(State, r, At(State, q)), q, At(State, r)), "swap", r, q, TRUE)

\* Mutant: what was there is not released.
CopyPayloadOver(r, q) ==
    LET copy == dupPayload(heap, At(State, q))
    IN  /\ Apart(r, q)
        /\ IF copy.ok THEN Becomes(PutAt([State EXCEPT !.heap = copy.heap], r, copy.is), "copy", r, q, TRUE)
           ELSE Throw("copy", r, q)

\* copyPayload, copy: released first.  When the copy fails, the Value has its type
\* already and still the old pointer.
CopyPayload(r, q) ==
    LET v == At(State, q)
        copy == dupPayload(releasePayload(heap, At(State, r)), v)
        torn == Value(v.type, At(State, r).at, FALSE)
    IN  /\ Apart(r, q)
        /\ Becomes(PutAt([State EXCEPT !.heap = copy.heap], r, IF copy.ok THEN copy.is ELSE torn),
                   IF copy.ok THEN "copy" ELSE "torn", r, q, copy.ok)

\* resolveReference: the key is copied into a pair, and that into the map.
Subscript(r, text, key, policy) ==
    LET v      == At(State, r)
        map    == allocate(heap, MapBlock(<<>>))
        object == IF v.type # "null" THEN Have(State, 0)
                  ELSE [map EXCEPT !.heap = PutAt([State EXCEPT !.heap = map.heap], r,
                                                  Value("object", map.is, FALSE))]
        s      == object.heap
        b      == At(s, r).at
        pair   == CopiedKey(s.heap, key, policy, text)
        copy   == CopiedKey(pair.heap, pair.is.key, pair.is.policy, text)
        rest   == IF pair.is.policy = "duplicate" THEN release(copy.heap, pair.is.key) ELSE copy.heap
        member == Member(copy.is.key, copy.is.policy, NullValue)
    IN  /\ v.type \in {"null", "object"}
        /\ CASE ~object.ok -> Throw("subscript", r, r)
             [] object.ok /\ text \in DOMAIN s.heap[b].of -> Becomes(s, "subscript", r, r, TRUE)
             [] object.ok /\ text \notin DOMAIN s.heap[b].of /\ pair.ok /\ copy.ok ->
                    Becomes([s EXCEPT !.heap = [rest EXCEPT ![b].of =
                                [n \in DOMAIN @ \cup {text} |-> IF n = text THEN member ELSE @[n]]]],
                            "subscript", r, r, TRUE)
             [] OTHER -> Becomes(s, "subscript", r, r, FALSE)

SubscriptText(r, text) == Subscript(r, text, Argument, "duplicateOnCopy")
SubscriptStatic(r, text) == Subscript(r, text, Static(text), "noDuplication")

\* What erasing members of the map b destroys.
Erased(s, b, names) ==
    LET gone == Value("object", b, FALSE)
        kept == s.heap[b].of
        only == [s.heap EXCEPT ![b].of = [n \in names |-> kept[n]]]
        rest == releasePayload(only, gone)
    IN  [s EXCEPT !.heap = [rest EXCEPT ![b] = MapBlock([n \in DOMAIN kept \ names |-> kept[n]])]]

\* removeMember(key, removed): *removed = std::move, then it is erased.
RemoveMember(r, text, q) ==
    LET b     == At(State, r).at
        at    == Append(r, text)
        moved == PutAt(PutAt(State, q, At(State, at)), at, At(State, q))
    IN  /\ At(State, r).type = "object" /\ text \in DOMAIN heap[b].of /\ Apart(r, q)
        /\ Becomes(Erased(moved, b, {text}), "remove", r, q, TRUE)

\* clear
Clear(r) ==
    LET b == At(State, r).at
    IN  /\ At(State, r).type = "object"
        /\ Becomes(Erased(State, b, DOMAIN heap[b].of), "clear", r, r, TRUE)

\* A variable goes out of scope, and another one is there then.
End(x) ==
    Becomes([heap |-> releasePayload(heap, var[x]), var |-> [var EXCEPT ![x] = NullValue]],
            "end", <<x>>, <<x>>, TRUE)

-----------------------------------------------------------------------------
Init ==
    /\ heap = [b \in Blocks |-> Free]
    /\ var = [x \in Vars |-> NullValue]
    /\ call = [op |-> "none", to |-> <<>>, from |-> <<>>, ok |-> TRUE]

Operation(r) ==
    \/ \E text \in Texts : \/ AssignText(r, text) \/ AssignStatic(r, text)
                           \/ SubscriptText(r, text) \/ SubscriptStatic(r, text)
    \/ \E q \in References(State, MaxDepth) :
           \/ AssignCopy(r, q) \/ Swap(r, q) \/ CopyPayload(r, q)
           \/ \E text \in Texts : RemoveMember(r, text, q)
    \/ Clear(r)

Next ==
    /\ call.op # "torn"
    /\ \/ \E r \in References(State, MaxDepth) : Operation(r)
       \/ \E x \in Vars : End(x)

Spec == Init /\ [][Next]_vars

-----------------------------------------------------------------------------
\* Until a copyPayload has failed.
Sound == call.op # "torn"

Deep == Cardinality(Blocks) + 1

Owns(v, b) == (v.type = "object" \/ v.allocated) /\ v.at = b

KeyOf(r) == heap[At(State, Front(r)).at].of[Last(r)]

Owners(b) ==
    LET all == References(State, Deep)
    IN  Cardinality({r \in all : Owns(At(State, r), b)})
        + Cardinality({r \in all : Len(r) > 1 /\ KeyOf(r).policy = "duplicate" /\ KeyOf(r).key = b})

\* Whatever is copied, moved, swapped, removed and destroyed, and whichever
\* allocation fails, each block of the heap that is taken is owned by one live
\* Value or key, and no other block by any: nothing is lost, freed twice or owned
\* after it was freed.  The Value that a copyPayload leaves when its allocation
\* fails is the exception.
OwnedOnce ==
    Sound => \A b \in Blocks : /\ heap[b].kind # "freed twice"
                               /\ Owners(b) = IF heap[b].kind = "free" THEN 0 ELSE 1

\* What a live Value or a key points to can be read: a text of the application's
\* that stays, or a block with a text; and a key has the text that its place in
\* the order of the map is for.
Readable ==
    Sound => \A r \in References(State, Deep) :
        /\ At(State, r).type = "string" => TextAt(heap, At(State, r).at) # 0
        /\ Len(r) > 1 => TextAt(heap, KeyOf(r).key) = Last(r)

\* What an application sees below a reference.
Seen(s, r) ==
    {[at |-> SubSeq(q, Len(r) + 1, Len(q)), type |-> At(s, q).type,
      text |-> IF At(s, q).type = "string" THEN TextAt(s.heap, At(s, q).at) ELSE 0] :
        q \in From(s, r, Deep)}

NextState == [heap |-> heap', var |-> var']

\* A copy is seen as what it was copied from was, also when that was below it or
\* above it; and an operation on one variable changes nothing that is seen
\* through another, but for what is swapped with it or removed into it.
CopiesApart ==
    [][Sound' => /\ call'.op = "copy" /\ call'.ok => Seen(NextState, call'.to) = Seen(State, call'.from)
                 /\ \A x \in Vars :
                        \/ x = call'.to[1] \/ (call'.op \in {"swap", "remove"} /\ x = call'.from[1])
                        \/ Seen(NextState, <<x>>) = Seen(State, <<x>>)]_vars
=============================================================================
