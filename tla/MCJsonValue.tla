------------------------------ MODULE MCJsonValue ------------------------------
\* Bounded Values and arguments for the calls.
EXTENDS JsonValue
LOCAL INSTANCE TLC

A == <<C("a")>>
B == <<C("b")>>
ANul == <<C("a"), 0>>
One == Leaf("int", <<1>>)
Noted == setComment(One, <<>>, <<C("/")>>, Before)

Array(keys, item) ==
    [p \in {<<>>} \cup {<<Index(i)>> : i \in keys} |->
        IF p = <<>> THEN Node("array", <<>>) ELSE item[<<>>]]

\* With different elements.
Sparse(keys) ==
    [p \in {<<>>} \cup {<<Index(i)>> : i \in keys} |->
        IF p = <<>> THEN Node("array", <<>>) ELSE [Node("int", <<p[1][2]>>) EXCEPT !.start = p[1][2]]]

Object(names, item) ==
    [p \in {<<>>} \cup {<<n>> : n \in names} |->
        IF p = <<>> THEN Node("object", <<>>) ELSE item[<<>>]]

Numbers == {-128, -9, -8, -1, 0, 1, 7, 8, 15, 16, 127}
Reals == {<<0, 0>>, <<5, -1>>, <<-85, -1>>, <<75, -1>>, <<155, -1>>, <<1, 1>>, <<128, 0>>, <<-128, 0>>, <<-144, 0>>,
          <<12, 1>>, <<24, 1>>, <<256, 0>>, <<272, 0>>, <<-1, 0>>, NaN, Infinity(1), Infinity(-1)}

Scalars1 ==
    {Leaf("null", <<>>)} \cup
    {Leaf("int", <<n>>) : n \in Numbers} \cup {Leaf("uint", <<n>>) : n \in {0, 7, 8, 15, 16, 127, 128, 255}}
    \cup {Leaf("real", r) : r \in Reals} \cup {Leaf("boolean", <<b>>) : b \in {0, 1}}
    \cup {Leaf("string", s) : s \in {<<>>, A, A \o B, B, <<0>>}}

Elements1 == {Noted, Array({0}, One)}

Containers1 ==
    {Array(keys, One) : keys \in SUBSET {0, 1}} \cup {Object(names, One) : names \in SUBSET {A, B, ANul}}
    \cup {Array({0}, Leaf("int", <<2>>)), Object({A}, Leaf("real", NaN)),
      Sparse(0 .. 3), Sparse({0, 2}), Sparse({1, 3})}

AllStarts == {v : v \in Scalars1 \cup Elements1 \cup Containers1}
MCStarts == AllStarts
MCElements == Elements1
MCNames == {A, B}

\* ".a", "a[1]", "[0].b", "[1][0]", "a.a", "%", "[2", "a]b"
MCPaths == {Text(s) : s \in {<<".", "a">>, <<"a", "[", "1", "]">>, <<"[", "0", "]", ".", "b">>,
    <<"[", "1", "]", "[", "0", "]">>, <<"a", ".", "b">>, <<"%">>, <<"[", "2">>, <<"a", "]", "b">>}}

\* What the next call may do does not depend on the last one.
Values == <<value, other>>

MCComments == {<<C("/"), LF>>, <<LF>>, A}
=============================================================================
