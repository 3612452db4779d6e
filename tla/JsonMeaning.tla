------------------------------ MODULE JsonMeaning ------------------------------
(***************************************************************************)
(* JSON as RFC 8259 defines it, and not as jsoncpp reads it: the texts of  *)
(* up to a number of lexemes, each with the data that it denotes, built    *)
(* from short texts up.  The readers are checked against it.               *)
(*                                                                         *)
(* A lexeme is a sequence of bytes.  Data is a function from the paths of  *)
(* JsonTree to a type and a payload.                                       *)
(***************************************************************************)
EXTENDS JsonTree
LOCAL INSTANCE SequencesExt
LOCAL INSTANCE TLC

Lexeme(c) == <<C(c)>>

Flat(lexemes) == FlattenSeq(lexemes)

\* A function that TLC computes once, and not each time it is applied.
Computed(f) == f @@ <<>>

\* What a tree holds, whatever was noted with it.
Data(tree) == [p \in DOMAIN tree |-> <<tree[p].type, tree[p].val>>]

ScalarData(type, val) == (<<>> :> <<type, val>>)

ArrayData(items) ==
    LET paths == UNION {{<<Index(i - 1)>> \o q : q \in DOMAIN items[i]} : i \in DOMAIN items}
    IN  Computed([p \in {<<>>} \cup paths |->
                     IF p = <<>> THEN <<"array", <<>>>> ELSE items[p[1][2] + 1][Tail(p)]])

\* Of members with one name the last one counts.
ObjectData(members) ==
    LET Shown(i) == \A j \in DOMAIN members : j > i => members[j].name # members[i].name
        shown == {i \in DOMAIN members : Shown(i)}
        Of(name) == CHOOSE i \in shown : members[i].name = name
        paths == UNION {{<<members[i].name>> \o q : q \in DOMAIN members[i].data} : i \in shown}
    IN  Computed([p \in {<<>>} \cup paths |->
                     IF p = <<>> THEN <<"object", <<>>>> ELSE members[Of(p[1])].data[Tail(p)]])

\* The texts that the rules make of no more than so many lexemes.  scalars
\* gives the scalar lexemes their data, names gives the name lexemes their
\* bytes; with trailing a comma may end a list, and with dropped an empty
\* place in one denotes null.
Json(rules, longest) ==
    LET item(text, data) == [text |-> text, data |-> data]
        list(text, items) == [text |-> text, items |-> items]
        comma == <<Lexeme(",")>>
        bracketed(open, text, close) == <<Lexeme(open)>> \o text \o <<Lexeme(close)>>
        member(name, data) == <<[name |-> rules.names[name], data |-> data]>>
        Filled(lists) == {l \in lists : l.items # <<>>}
        Ended(lists) == {list(l.text \o comma, l.items) : l \in Filled(lists)}
        \* the values of n lexemes, and what may stand between two brackets
        Values(n, inner) ==
            CASE n = 0 -> IF rules.dropped THEN {item(<<>>, ScalarData("null", <<>>))} ELSE {}
              [] n = 1 -> {item(<<s>>, rules.scalars[s]) : s \in DOMAIN rules.scalars}
              [] OTHER ->
                     {item(bracketed("[", l.text, "]"), ArrayData(l.items)) :
                         l \in {x \in inner.arrays : n > 2 \/ x.items = <<>>}}
                     \cup {item(bracketed("{", l.text, "}"), ObjectData(l.items)) : l \in inner.objects}
        upto[n \in 0 .. longest] ==
            LET values == Values(n, upto[n - 2])
                none == IF n = 0 THEN {list(<<>>, <<>>)} ELSE {}
                lists ==
                    none \cup {list(v.text, <<v.data>>) : v \in values}
                    \cup UNION {{list(l.text \o comma \o v.text, Append(l.items, v.data)) :
                                     l \in Filled(upto[k].lists), v \in upto[n - 1 - k].values} :
                                k \in 0 .. n - 1}
                single ==
                    IF n < 2 THEN {}
                    ELSE {list(<<name, Lexeme(":")>> \o v.text, member(name, v.data)) :
                             name \in DOMAIN rules.names, v \in upto[n - 2].values}
                members ==
                    none \cup single
                    \cup UNION {{list(l.text \o comma \o m.text, l.items \o m.items) :
                                     l \in Filled(upto[k].members), m \in upto[n - 1 - k].single} :
                                k \in 0 .. n - 1}
            IN  [values |-> values, lists |-> lists, single |-> single, members |-> members,
                 arrays |-> lists \cup
                     IF n > 0 /\ rules.trailing /\ ~rules.dropped
                     THEN Ended(upto[n - 1].lists) ELSE {},
                 objects |-> members \cup
                     IF n > 0 /\ rules.trailing
                     THEN Ended(upto[n - 1].members) ELSE {}]
    IN  UNION {Values(n, upto[n - 2]) : n \in 1 .. longest}

\* The data of each text, by its bytes.
Meaning(items) ==
    LET pairs == {<<Flat(i.text), i.data>> : i \in items}
    IN  Computed([text \in {p[1] : p \in pairs} |-> (CHOOSE p \in pairs : p[1] = text)[2]])
=============================================================================
