----------------------------- MODULE JsonContainer -----------------------------
(***************************************************************************)
(* What a container of jsoncpp promises: an array is a sequence, an object *)
(* a function of names, a null is either of them before its first element.  *)
(* A call says what is done, where and with what; "inside" is a call on an *)
(* element; "replace" and "make" may give the container another content.   *)
(***************************************************************************)
EXTENDS Integers, Sequences

CONSTANT Empty      \* the null element

VARIABLES content, call

List(items) == [kind |-> "array", of |-> items]
Fields(members) == [kind |-> "object", of |-> members]

Items == IF content.kind = "array" THEN content.of ELSE <<>>
Field == IF content.kind = "object" THEN content.of ELSE <<>>

Inserted(items, i, x) ==
    [j \in 1 .. Len(items) + 1 |-> IF j < i THEN items[j] ELSE IF j = i THEN x ELSE items[j - 1]]

Removed(items, i) == [j \in 1 .. Len(items) - 1 |-> items[IF j < i THEN j ELSE j + 1]]

Without(members, name) == [n \in DOMAIN members \ {name} |-> members[n]]

Padded(items, n) == [i \in 1 .. n |-> IF i <= Len(items) THEN items[i] ELSE Empty]

\* What a call returns: nothing, or a Value.
Result(r) == call'.result = r

Init == content.kind \in {"null", "array", "object", "scalar"}

-----------------------------------------------------------------------------
\* What a call does that does not throw.
Effect ==
    \/ /\ call'.op = "append"
       /\ content' = List(Append(Items, call'.arg))
    \/ /\ call'.op = "insert"
       /\ Result(IF call'.index <= Len(Items) THEN {call'.arg} ELSE {})
       /\ content' = IF call'.index <= Len(Items)
                     THEN List(Inserted(Items, call'.index + 1, call'.arg)) ELSE content
    \/ /\ call'.op = "removeIndex"
       /\ IF call'.index < Len(Items)
          THEN content' = List(Removed(Items, call'.index + 1)) /\ Result({Items[call'.index + 1]})
          ELSE content' = content /\ Result({})
    \/ /\ call'.op = "resize"
       /\ content' = List(Padded(Items, call'.index))
    \/ /\ call'.op = "index"
       /\ content' = List(IF call'.index < Len(Items) THEN Items ELSE Padded(Items, call'.index + 1))
    \/ /\ call'.op = "name"
       /\ content' = Fields([n \in DOMAIN Field \cup {call'.name} |->
                                IF n \in DOMAIN Field THEN Field[n] ELSE Empty])
    \/ /\ call'.op = "removeMember"
       /\ IF call'.name \in DOMAIN Field
          THEN content' = Fields(Without(Field, call'.name)) /\ Result({Field[call'.name]})
          ELSE content' = content /\ Result({})
    \/ /\ call'.op = "eraseMember"
       /\ content' = IF call'.name \in DOMAIN Field
                     THEN Fields(Without(Field, call'.name)) ELSE content
    \/ /\ call'.op = "note"
       /\ content' = content
    \/ /\ call'.op = "clear"
       /\ content' = [content EXCEPT !.of = <<>>]
    \/ /\ call'.op = "inside"
       /\ content'.kind = content.kind /\ DOMAIN content'.of = DOMAIN content.of
       /\ \A k \in DOMAIN content.of : k # call'.index => content'.of[k] = content.of[k]
    \/ call'.op \in {"replace", "make"}

\* A call that throws changes nothing.
Next == IF call'.ok THEN Effect ELSE content' = content
=============================================================================
