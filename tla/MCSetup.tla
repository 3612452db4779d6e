-------------------------------- MODULE MCSetup --------------------------------
\* Files for the server and the client: plain ones, and each thing that may be
\* wrong with one of them.
EXTENDS Setup, JsonWriter
LOCAL INSTANCE SequencesExt
LOCAL INSTANCE TLC

Array(items) ==
    LET paths == UNION {{<<Index(i - 1)>> \o q : q \in DOMAIN items[i]} : i \in DOMAIN items}
    IN  [p \in {<<>>} \cup paths |->
            IF p = <<>> THEN Node("array", <<>>) ELSE items[p[1][2] + 1][Tail(p)]]

Object(members) ==
    LET below == UNION {{<<Key(c)>> \o q : q \in DOMAIN members[c]} : c \in DOMAIN members}
    IN  [p \in {<<>>} \cup below |->
            IF p = <<>> THEN Node("object", <<>>)
            ELSE members[CHOOSE c \in DOMAIN members : Key(c) = p[1]][Tail(p)]]

Whole(n) == Leaf("int", <<n>>)
Str(s) == Leaf("string", Text(s))
Line == Text(<<"/", "/", "z">>)
Commented(slot, tree) == setComment(tree, <<>>, Line, slot)

User(admin, quota) == Object("u" :> Str(<<"n">>) @@ "p" :> Str(<<"w">>) @@ "a" :> admin @@ "s" :> quota)

Yes == Str(<<"t", "r", "u", "e">>)
One == User(Yes, Str(<<"2">>))

File(command, data, users, files) ==
    Object("c" :> command @@ "d" :> data @@ "u" :> users @@ "f" :> files)

Files == Array(<<Str(<<"x">>)>>)

Sizes == {Str(<<"2">>), Str(<<"1", ".", "5">>), Str(<<"-", "1">>), Str(<<"4", "0">>), Str(<<"3", "0", "0">>),
          Str(<<"1", "e", "1">>), Str(<<"k">>), Str(<<>>), Str(<<" ">>), Whole(3), NullTree,
          Leaf("real", Real(25, -1)), Leaf("boolean", <<1>>)}

PortValues == {Whole(0), Whole(5), Whole(6), Whole(9), Whole(12), Whole(21), Whole(-11), Leaf("uint", <<5>>),
               Leaf("real", Real(5, 0)), Str(<<"5">>), NullTree, Array(<<Whole(5)>>),
               Commented(Before, Whole(5)), Commented(AfterOnSameLine, Whole(5))}

\* What PortOf says of a Value is what the writer's text has for operator>>.
ASSUME PortsThroughText ==
    \A value \in PortValues \cup {Str(<<"-", "1">>), Files, One, Whole(-127), Whole(-128), Leaf("uint", <<255>>),
                                  Leaf("boolean", <<1>>), Leaf("real", <<-25, -1>>), Leaf("real", <<75, 6>>),
                                  Leaf("real", NaN), Leaf("real", Infinity(1)), Leaf("real", Infinity(-1)),
                                  Commented(Before, Files), Commented(After, Whole(7)), Array(<<>>)} :
        PortOf(value) = ReadInt(Written(newStreamWriter(WriterDefaults), value))

MCConfigs ==
    {File(c, Whole(6), Array(<<One>>), Files) : c \in PortValues}
    \cup {File(Whole(5), d, Array(<<One>>), Files) : d \in {Whole(0), Whole(5), Whole(12), NullTree}}
    \cup {File(Whole(5), Whole(6), Array(<<User(a, s)>>), Files) : a \in {Yes, NullTree}, s \in Sizes}
    \cup {File(Whole(5), Whole(6), users, Files) : users \in
            {NullTree, Whole(1), Array(<<>>), Array(<<One, User(NullTree, Str(<<"1">>))>>),
             Object("u" :> One), Array(<<NullTree>>), Array(<<Whole(1)>>), Array(<<User(Files, Whole(1))>>)}}
    \cup {File(Whole(5), Whole(6), Array(<<One>>), files) : files \in
            {NullTree, Array(<<Files>>), Object("u" :> One)}}
    \cup {Unreadable, NullTree, Whole(1), Array(<<One>>), Object("u" :> Array(<<>>))}

MCPortFiles ==
    {Object("c" :> Whole(5) @@ "d" :> Whole(6)), Object("c" :> Whole(6) @@ "d" :> Whole(5)),
     Object("c" :> Whole(12) @@ "d" :> Whole(6)), Object("c" :> Whole(9) @@ "d" :> Whole(6)),
     Object("c" :> Whole(21) @@ "d" :> Whole(-10)),
     Object("c" :> Commented(Before, Whole(5)) @@ "d" :> Whole(6)), Unreadable, NullTree, Whole(1)}


MCGarbage == {-128, 0, 2}
=============================================================================
