---------------------------- MODULE MCJsonReaders -----------------------------
\* Bounded texts and settings for the readers.
EXTENDS JsonReaders
LOCAL INSTANCE SequencesExt
LOCAL INSTANCE FiniteSetsExt
LOCAL INSTANCE TLC

Settings(copy, on) ==
    [copy |-> copy] @@
    [name \in {"allowComments", "strictRoot", "allowDroppedNullPlaceholders", "allowNumericKeys",
               "allowTrailingCommas", "allowSingleQuotes", "failIfExtra", "rejectDupKeys",
               "allowSpecialFloats", "skipBom"} |-> name \in on]

\* Features::all, strictMode, and what they leave out; CharReaderBuilder's
\* defaults, strictMode, and the rest.
MCFeatures ==
    {Settings(FALSE, {"allowComments"}), Settings(FALSE, {"strictRoot"}),
     Settings(FALSE, {"allowComments", "allowDroppedNullPlaceholders", "allowNumericKeys"}),
     Settings(TRUE, {"allowComments", "allowTrailingCommas", "skipBom"}),
     Settings(TRUE, {"strictRoot", "failIfExtra", "rejectDupKeys", "skipBom"}),
     Settings(TRUE, {"allowComments", "allowDroppedNullPlaceholders", "allowNumericKeys",
                     "allowSingleQuotes", "allowSpecialFloats", "allowTrailingCommas"})}

\* Integers of each type around their limits, reals, words and strings.
Integer(n, copy) ==
    CASE n \in minLargestInt .. -1 -> ScalarData("int", <<n>>)
      [] n \in 0 .. (IF copy THEN maxLargestInt ELSE maxInt) -> ScalarData("int", <<n>>)
      [] n \in 0 .. maxLargestUInt -> ScalarData("uint", <<n>>)
      [] OTHER -> ScalarData("real", Real(n, 0))

Integers1 == -131 .. -125 \cup -2 .. 9 \cup {100, 126, 127, 128, 129} \cup 250 .. 261

Reals ==
    Text(<<"1", ".", "5">>) :> <<15, -1>> @@ Text(<<"-", "0", ".", "2", "5", "0">>) :> <<-25, -2>>
    @@ Text(<<"1", "2", "e", "3">>) :> <<12, 3>> @@ Text(<<"2", "5", "E", "-", "2">>) :> <<25, -2>>
    @@ Text(<<"1", ".", "0", "e", "+", "2">>) :> <<1, 2>> @@ Text(<<"-", "1", "e", "9", "9">>) :> Infinity(-1)

Constants ==
    Text(<<"t", "r", "u", "e">>) :> ScalarData("boolean", <<1>>)
    @@ Text(<<"f", "a", "l", "s", "e">>) :> ScalarData("boolean", <<0>>)
    @@ Text(<<"n", "u", "l", "l">>) :> ScalarData("null", <<>>)

Specials ==
    Text(<<"N", "a", "N">>) :> ScalarData("real", NaN)
    @@ Text(<<"-", "I", "n", "f", "i", "n", "i", "t", "y">>) :> ScalarData("real", Infinity(-1))
    @@ Text(<<"I", "n", "f", "i", "n", "i", "t", "y">>) :> ScalarData("real", Infinity(1))

\* What may stand between quotes, and the bytes it denotes.
Units ==
    <<C("a")>> :> <<C("a")>> @@ <<195, 169>> :> <<195, 169>>
    @@ Text(<<"\\", "\"">>) :> <<C("\"")>> @@ Text(<<"\\", "\\">>) :> <<C("\\")>>
    @@ Text(<<"\\", "n">>) :> <<LF>> @@ Text(<<"\\", "u", "0", "0", "4", "1">>) :> <<C("A")>>
    @@ Text(<<"\\", "u", "0", "0", "e", "9">>) :> <<195, 169>>
    @@ Text(<<"\\", "u", "2", "0", "A", "C">>) :> <<226, 130, 172>>
    @@ Text(<<"\\", "u", "D", "8", "3", "D", "\\", "u", "D", "E", "0", "0">>) :> <<240, 159, 152, 128>>

Strings == UNION {[1 .. n -> DOMAIN Units] : n \in 0 .. 2}
Quoted(q, text) == <<C(q)>> \o text \o <<C(q)>>
StringOf ==
    Meaning({[text |-> <<Lexeme("\"")>> \o s \o <<Lexeme("\"")>>,
              data |-> ScalarData("string", Flat([i \in DOMAIN s |-> Units[s[i]]]))] : s \in Strings})

Numbers(copy) ==
    [text \in {integerToString(n) : n \in Integers1} \cup DOMAIN Reals |->
        IF text \in DOMAIN Reals
        THEN ScalarData("real", Reals[text])
        ELSE Integer(CHOOSE n \in Integers1 : integerToString(n) = text, copy)]

-----------------------------------------------------------------------------
A == Quoted("\"", <<C("a")>>)
One == <<C("1")>>
Block == Text(<<"/", "*", "q", "*", "/">>)
Line == Text(<<"/", "/", "z">>) \o <<CR, LF>>

Small == One :> ScalarData("int", <<1>>) @@ A :> ScalarData("string", <<C("a")>>)

Lexemes == {Lexeme(c) : c \in {"{", "}", "[", "]", ",", ":"}} \cup {One, A, Block, Line, <<LF>>}

\* One lexeme added to a text, taken from it or put in the place of another.
Near(text) ==
    {InsertAt(text, i, l) : i \in 1 .. Len(text) + 1, l \in Lexemes}
    \cup {RemoveAt(text, i) : i \in DOMAIN text}
    \cup {[text EXCEPT ![i] = l] : i \in DOMAIN text, l \in Lexemes}

\* Two numbers in a row would be read as one.
Apart(text) ==
    LET solid == SelectSeq(text, LAMBDA l : l \notin {Block, Line, <<LF>>})
    IN  \A i \in 1 .. Len(solid) - 1 : ~(solid[i] = One /\ solid[i + 1] = One)

CONSTANTS Longest, Shortest

Rules == Computed([f \in MCFeatures |->
    [scalars |-> Small,
     names   |-> A :> <<C("a")>> @@ (IF f.allowNumericKeys THEN One :> <<C("1")>> ELSE <<>>),
     dropped |-> f.allowDroppedNullPlaceholders,
     trailing |-> f.copy /\ f.allowTrailingCommas]])

ScalarRules == Computed([f \in MCFeatures |->
    [Rules[f] EXCEPT !.scalars =
        Numbers(f.copy) @@ Constants @@ StringOf
        @@ (IF f.copy /\ f.allowSpecialFloats THEN Specials ELSE <<>>)
        @@ (IF f.copy /\ f.allowSingleQuotes
            THEN Quoted("'", <<C("a")>>) :> ScalarData("string", <<C("a")>>) ELSE <<>>)]])

Bracketed(text) == <<Lexeme("[")>> \o text \o <<Lexeme("]")>>
Member(value) == <<A, Lexeme(":")>> \o value
Braced(text) == <<Lexeme("{")>> \o text \o <<Lexeme("}")>>
List(a, b) == a \o <<Lexeme(",")>> \o b

\* A name that is repeated: the first value counts for nothing.
RepeatedNames ==
    LET values == {[text |-> <<One>>, data |-> Small[One]], [text |-> Bracketed(<<>>), data |-> ArrayData(<<>>)]}
    IN  {[text |-> Braced(List(Member(first), Member(value.text))),
          data |-> ObjectData(<<[name |-> <<C("a")>>, data |-> value.data]>>)] :
            first \in {<<One>>, Bracketed(<<One>>)}, value \in values}

\* A name may be empty.
Unnamed(value) == <<Quoted("\"", <<>>), Lexeme(":")>> \o value
EmptyName == [text |-> Braced(Unnamed(<<One>>)), data |-> ObjectData(<<[name |-> <<>>, data |-> Small[One]]>>)]

Meanings ==
    Computed([f \in MCFeatures |->
                 Meaning(Json(Rules[f], Longest + 1) \cup Json(ScalarRules[f], 3) \cup {EmptyName}
                         \cup (IF f.rejectDupKeys THEN {} ELSE RepeatedNames))])

Texts ==
    UNION {[1 .. n -> Lexemes] : n \in 0 .. Shortest}
    \cup UNION {Near(i.text) : i \in UNION {Json(Rules[f], Longest) : f \in MCFeatures}}

Scalars1 == DOMAIN Numbers(TRUE) \cup DOMAIN Constants \cup DOMAIN StringOf \cup DOMAIN Specials
            \cup {Quoted("'", <<C("a")>>)}

Prefixes1 ==
    UNION {{SubSeq(s, 1, n) : n \in 1 .. Len(s) - 1} : s \in DOMAIN StringOf \cup DOMAIN Constants}

\* Numbers that JSON does not have.
Loose == {Text(<<"0", "1">>), Text(<<"-", "0", "1">>), Text(<<"1", ".">>), Text(<<"-", ".", "5">>),
          Text(<<".", "5">>), Text(<<"1", ".", "e", "2">>), Text(<<"1", "e">>), Text(<<"1", "e", "+">>),
          Text(<<"-">>), Text(<<"-", "-", "1">>)}

\* Deep nesting, and two comments or line ends in texts without any.
Deepest == {Bracketed(Bracketed(Bracketed(Bracketed(<<One>>)))),
            Braced(Member(Braced(Member(Braced(Member(Braced(<<>>)))))))}
Plain == {Bracketed(List(<<One>>, <<One>>)), Braced(Member(<<One>>)), Bracketed(Bracketed(<<One>>))}
Noted(text) == {InsertAt(text, i, l) : i \in 1 .. Len(text) + 1, l \in {Block, Line, <<LF>>}}
\* Something, or nothing, between two members or behind the last, with a comment.
Joined == {Braced(Member(<<One, note>>) \o l \o rest) :
              note \in {Block, Line}, l \in {<<>>} \cup {<<m>> : m \in Lexemes}, rest \in {<<>>, Member(<<One>>)}}
Longer ==
    Deepest \cup UNION {Noted(i.text) : i \in RepeatedNames} \cup Joined
    \cup {EmptyName.text, Braced(List(Unnamed(<<One>>), <<>>)), Braced(List(Member(<<One>>), <<>>))}
    \cup UNION {Noted(t) : t \in UNION {Noted(u) : u \in Plain}}

\* TLC computes these definitions once, and not those that a .cfg names.
MCMeaningOf == Meanings

Whole == {Flat(t) : t \in {u \in Texts \cup Longer : Apart(u)}}

AllDocuments ==
    <<{Mark \o One, Mark, Quoted("\"", <<C("\\"), CR, LF>>)} \cup Whole \cup Scalars1 \cup Prefixes1 \cup Loose
        \cup {Lexeme("[") \o s \o Lexeme("]") : s \in Scalars1 \cup Loose},
      {Lexeme("[") \o One \o Block \o Lexeme("]")}>>

MCDocuments == AllDocuments
=============================================================================
