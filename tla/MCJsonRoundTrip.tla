--------------------------- MODULE MCJsonRoundTrip ---------------------------
\* Bounded trees and settings for the round trip.
EXTENDS JsonRoundTrip
LOCAL INSTANCE SequencesExt
LOCAL INSTANCE FiniteSetsExt
LOCAL INSTANCE TLC

Array(items) ==
    LET paths == UNION {{<<Index(i - 1)>> \o q : q \in DOMAIN items[i]} : i \in DOMAIN items}
    IN  [p \in {<<>>} \cup paths |->
            IF p = <<>> THEN Node("array", <<>>) ELSE items[p[1][2] + 1][Tail(p)]]

Object(members) ==
    LET paths == UNION {{<<name>> \o q : q \in DOMAIN members[name]} : name \in DOMAIN members}
    IN  [p \in {<<>>} \cup paths |->
            IF p = <<>> THEN Node("object", <<>>) ELSE members[p[1]][Tail(p)]]

A == <<C("a")>>
One == Leaf("int", <<1>>)
NullValue == Leaf("null", <<>>)
Str(bytes) == Leaf("string", bytes)

Strings == {<<>>, A, <<C("\""), C("\\"), C("/")>>, <<LF, Tab, 1, 31, 127>>, <<0, C("a")>>,
            <<195, 169>>, <<226, 130, 172, C("a")>>, <<240, 159, 152, 128>>, <<195>>, <<128, C("a")>>,
            <<237, 160, 128>>, <<192, 128>>}

Reals == {<<0, 0>>, <<15, -1>>, <<-25, -6>>, <<1, 2>>, <<1, 7>>, <<123, 5>>, NaN, Infinity(1), Infinity(-1)}

Scalars1 ==
    {Str(s) : s \in Strings} \cup {Leaf("real", r) : r \in Reals}
    \cup {Leaf("int", <<n>>) : n \in {-128, -1, 0, 1, 127}} \cup {Leaf("uint", <<n>>) : n \in {0, 127, 128, 255}}
    \cup {Leaf("boolean", <<b>>) : b \in {0, 1}} \cup {NullValue}

Small == {NullValue, One, Str(A), Array(<<>>), Object(<<>>)}
Smaller == {NullValue, One, Array(<<>>)}

Pairs == {Object(A :> x @@ <<C("b")>> :> y) : x \in Smaller, y \in Smaller}
Lists == UNION {{Array(s) : s \in [1 .. n -> Small]} : n \in 1 .. 2}
         \cup {Array(s) : s \in [1 .. 3 -> Smaller]}
Wide == {Array([i \in 1 .. n |-> x]) : n \in 3 .. 5, x \in {One, Str(A)}}
Named == {Object(name :> One) : name \in Strings}
Nested == {Array(<<x, y>>) : x \in {Array(<<One>>), Object(A :> One)}, y \in {One, Array(<<NullValue>>)}}
          \cup {Object(A :> x @@ <<C("b")>> :> One) : x \in {Array(<<One, One>>), Object(A :> Array(<<>>))}}
          \cup {Array(<<Wide1, One>>) : Wide1 \in Wide}
Sparse == {[p \in {<<>>, <<Index(2)>>} |-> IF p = <<>> THEN Node("array", <<>>) ELSE Node("int", <<1>>)]}

Line == Text(<<"/", "/", "z">>)
Block == Text(<<"/", "*", "q", "*", "/">>)
TwoLines == Line \o <<LF>> \o Line
Broad == Text(<<"/", "*", "q">>) \o <<LF>> \o Text(<<" ", "q", "*", "/">>)

Commented1(trees) ==
    UNION {{setComment(t, p, c, slot) : p \in DOMAIN t, slot \in {Before, AfterOnSameLine}, c \in {Line, Block}}
            \cup {setComment(t, p, c, Before) : p \in DOMAIN t, c \in {TwoLines, Broad}}
            \cup {setComment(t, <<>>, c, After) : c \in {Line, Broad}} : t \in trees}

Plain == {Array(<<One, One>>), Object(A :> One @@ <<C("b")>> :> Array(<<One>>)), One, Array(<<Array(<<>>)>>)}

AllTrees == {t : t \in
    Scalars1 \cup {Array(<<s>>) : s \in Scalars1} \cup {Object(A :> s) : s \in Scalars1}
    \cup Pairs \cup Lists \cup Wide \cup Named \cup Nested \cup Sparse
    \cup Commented1(Plain) \cup Commented1(Commented1({Array(<<One, One>>), Object(A :> Object(A :> One))}))}

MCTrees == AllTrees

With(settings, on) == [key \in DOMAIN settings |-> IF key \in DOMAIN on THEN on[key] ELSE settings[key]]

AllStyles ==
    {StyledWriter, StyledStreamWriter(<<Tab>>), FastWriter(FALSE, FALSE, FALSE), FastWriter(TRUE, TRUE, TRUE)}
    \cup {newStreamWriter(With(WriterDefaults, on)) : on \in
            {<<>>, "indentation" :> <<>>, ("indentation" :> <<>>) @@ ("commentStyle" :> "None"),
             ("commentStyle" :> "None") @@ ("emitUTF8" :> TRUE) @@ ("enableYAMLCompatibility" :> TRUE),
             ("useSpecialFloats" :> TRUE) @@ ("dropNullPlaceholders" :> TRUE) @@ ("precisionType" :> "decimal")
             @@ ("precision" :> 6)}}

MCStyles == AllStyles

AllFeatures ==
    {newCharReader(ReaderDefaults), newCharReader(StrictMode),
     newCharReader(With(ReaderDefaults, ("allowDroppedNullPlaceholders" :> TRUE) @@ ("allowSpecialFloats" :> TRUE)))}

MCFeatures == {f @@ ("copy" :> TRUE) : f \in AllFeatures}
MCDocuments == <<{}, {}>>
=============================================================================
