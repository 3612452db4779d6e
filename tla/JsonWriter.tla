------------------------------ MODULE JsonWriter ------------------------------
(***************************************************************************)
(* The writers of jsoncpp.  StyledWriter, StyledStreamWriter and the       *)
(* BuiltStyledStreamWriter of a StreamWriterBuilder are three copies of    *)
(* one algorithm: here it is one, and a style says which copy it is and    *)
(* how it is set.  FastWriter is an algorithm of its own.                  *)
(*                                                                         *)
(* A writer is a record: the text so far, how often indent() was called,   *)
(* and indented_.  A Value is a tree of its own, its root at <<>>.         *)
(***************************************************************************)
EXTENDS JsonTree, JsonNumbers
LOCAL INSTANCE SequencesExt
LOCAL INSTANCE FiniteSetsExt

CONSTANT rightMargin    \* 74 in the code

ASSUME JsonWriterAssumption == rightMargin \in Nat

-----------------------------------------------------------------------------
(***************************************************************************)
(* Strings.                                                                *)
(***************************************************************************)
REPLACEMENT_CHARACTER == 65533

\* utf8ToCodepoint: the number, and how many bytes it takes.  The first byte
\* tells how many there are; that the others are continuations is not checked.
utf8ToCodepoint(s, at) ==
    LET first == s[at]
        n     == CASE first < 128 -> 1 [] first \in 128 .. 223 -> 2
                   [] first \in 224 .. 239 -> 3 [] first \in 240 .. 247 -> 4 [] OTHER -> 5
        low(i) == s[at + i] % 64
        calculated ==
            CASE n = 1 -> first
              [] n = 2 -> (first % 32) * 64 + low(1)
              [] n = 3 -> (first % 16) * 4096 + low(1) * 64 + low(2)
              [] n = 4 -> (first % 8) * 262144 + low(1) * 4096 + low(2) * 64 + low(3)
        least == <<0, 128, 2048, 65536>>
    IN  CASE n = 5 \/ Len(s) - at + 1 < n -> <<REPLACEMENT_CHARACTER, 1>>
          [] OTHER -> <<IF calculated < least[n] \/ (n = 3 /\ calculated \in 55296 .. 57343)
                        THEN REPLACEMENT_CHARACTER ELSE calculated, n>>

toHex16Bit(x) ==
    [i \in 1 .. 4 |-> LET digit == (x \div 16 ^ (4 - i)) % 16
                      IN  IF digit < 10 THEN C("0") + digit ELSE C("a") + digit - 10]

appendHex(x) == <<C("\\"), C("u")>> \o toHex16Bit(x)

\* The characters with an escape of their own.
EscapedAs == [c \in {C("\""), C("\\"), 8, 12, LF, CR, Tab} |->
    CASE c = 8 -> C("b") [] c = 12 -> C("f") [] c = LF -> C("n") [] c = CR -> C("r")
      [] c = Tab -> C("t") [] OTHER -> c]

\* Mutant: the first half of a surrogate pair keeps the bit above the plane.
AsciiUnshifted(cp) ==
    CASE cp < 128 -> <<cp>>
      [] cp \in 128 .. 65535 -> appendHex(cp)
      [] OTHER -> appendHex(55296 + ((cp \div 1024) % 1024)) \o appendHex(56320 + (cp % 1024))

\* A code point outside the control characters, in ASCII.
Ascii7(cp) ==
    CASE cp < 128 -> <<cp>>
      [] cp \in 128 .. 65535 -> appendHex(cp)
      [] OTHER -> appendHex(55296 + (((cp - 65536) \div 1024) % 1024))
                  \o appendHex(56320 + ((cp - 65536) % 1024))

\* valueToQuotedStringN
valueToQuotedStringN(bytes, emitUTF8) ==
    LET from[at \in 1 .. Len(bytes) + 1] ==
            LET c == bytes[at]
                point == utf8ToCodepoint(bytes, at)
            IN  CASE at > Len(bytes) -> <<>>
                  [] at <= Len(bytes) /\ c \in DOMAIN EscapedAs ->
                         <<C("\\"), EscapedAs[c]>> \o from[at + 1]
                  [] at <= Len(bytes) /\ c < 32 /\ c \notin DOMAIN EscapedAs ->
                         appendHex(c) \o from[at + 1]
                  [] OTHER -> IF emitUTF8
                              THEN <<c>> \o from[at + 1]
                              ELSE Ascii7(point[1]) \o from[at + point[2]]
    IN  <<C("\"")>> \o from[1] \o <<C("\"")>>

\* valueToQuotedString(name.c_str()): to the first NUL.
CString(bytes) == Slice(bytes, 0, Span(bytes, 0, Byte \ {0}))

-----------------------------------------------------------------------------
(***************************************************************************)
(* What is written on one line.                                            *)
(***************************************************************************)
\* The text of a scalar, or of an empty container, that is given to pushValue.
ValueText(style, v) ==
    CASE v.type = "null" -> style.nullSymbol
      [] v.type = "real" ->
             doubleToString(v.val, style.useSpecialFloats, style.precision, style.significant)
      [] v.type = "string" -> valueToQuotedStringN(v.val, style.emitUTF8)
      [] v.type = "array" -> Text(<<"[", "]">>)
      [] v.type = "object" -> Text(<<"{", "}">>)
      [] OTHER -> asString(v.type, v.val)

\* value[0] to value[size - 1]: where nothing is, a null.
Elements(value) ==
    [i \in 1 .. size(value, <<>>) |->
        IF <<Index(i - 1)>> \in DOMAIN value THEN Subtree(value, <<Index(i - 1)>>)
                                             ELSE Leaf("null", <<>>)]

NotEmpty(value) == size(value, <<>>) > 0

hasCommentForValue(value) == \E slot \in {Before, AfterOnSameLine, After} : hasComment(value, slot)

\* isMultilineArray, up to the texts in childValues_: whether there are any.
MayFitOnLine(elements) ==
    /\ Len(elements) * 3 < rightMargin
    /\ \A i \in DOMAIN elements : ~NotEmpty(elements[i])

\* childValues_: the texts of elements that fit on one line.
childValues(style, elements) == [i \in DOMAIN elements |-> ValueText(style, elements[i][<<>>])]

lineLength(texts) == 4 + (Len(texts) - 1) * 2 + FoldLeft(LAMBDA n, text : n + Len(text), 0, texts)

isMultilineArray(elements, texts) ==
    \/ ~MayFitOnLine(elements)
    \/ \E i \in DOMAIN elements : hasCommentForValue(elements[i])
    \/ lineLength(texts) >= rightMargin

-----------------------------------------------------------------------------
(***************************************************************************)
(* Lines and comments.                                                     *)
(***************************************************************************)
Emit(w, text) == [w EXCEPT !.text = @ \o text]

indentString(w, style) == FlattenSeq([i \in 1 .. w.depth |-> style.indentation])

\* writeIndent: StyledWriter looks at the last character, and takes a space for
\* an indentation; without an indentation a built writer writes no new lines.
writeIndent(w, style) ==
    LET last == IF w.text = <<>> THEN LF ELSE Last(w.text)
        line == <<LF>> \o indentString(w, style)
    IN  CASE style.kind = "styled" ->
                 IF last = C(" ") THEN w ELSE Emit(w, IF last = LF THEN Tail(line) ELSE line)
          [] style.kind = "built" /\ style.indentation = <<>> -> w
          [] OTHER -> Emit(w, line)

Indented(w, style) ==
    IF style.kind # "styled" /\ w.indented THEN w ELSE writeIndent(w, style)

writeWithIndent(w, style, text) ==
    [Emit(Indented(w, style), text) EXCEPT !.indented = FALSE]

\* A line of a comment that begins with a '/' is indented, others are not.
CommentLines(comment, indent) ==
    FlattenSeq([i \in DOMAIN comment |->
        IF comment[i] = LF /\ HasAt(comment, i, C("/")) THEN <<LF>> \o indent ELSE <<comment[i]>>])

writeCommentBeforeValue(w, style, value) ==
    LET styled == style.kind = "styled"
        begun  == IF styled THEN writeIndent(Emit(w, <<LF>>), style) ELSE Indented(w, style)
        lines  == CommentLines(value[<<>>].comments[Before], indentString(w, style))
    IN  IF style.comments /\ hasComment(value, Before)
        THEN [Emit(begun, lines \o (IF styled THEN <<LF>> ELSE <<>>)) EXCEPT !.indented = FALSE]
        ELSE w

writeCommentAfterValueOnSameLine(w, style, value) ==
    LET slots == value[<<>>].comments
        same  == IF hasComment(value, AfterOnSameLine)
                 THEN Emit(w, <<C(" ")>> \o slots[AfterOnSameLine]) ELSE w
        after == CASE ~hasComment(value, After) -> same
                   [] hasComment(value, After) /\ style.kind = "styled" ->
                          Emit(same, <<LF>> \o slots[After] \o <<LF>>)
                   [] OTHER -> Emit(writeIndent(same, style), slots[After])
    IN  CASE ~style.comments -> w
          [] style.comments /\ style.kind = "stream" -> [after EXCEPT !.indented = FALSE]
          [] OTHER -> after

-----------------------------------------------------------------------------
RECURSIVE writeValue(_, _, _)

\* Mutant: the comma is written behind the comments.
EndedLate(w, style, child, last) ==
    LET commented == writeCommentAfterValueOnSameLine(w, style, child)
    IN  IF last THEN commented ELSE Emit(commented, <<C(",")>>)

\* What follows a child: a comma unless it is the last, and its comments.
Ended(w, style, child, last) ==
    writeCommentAfterValueOnSameLine(IF last THEN w ELSE Emit(w, <<C(",")>>), style, child)

OpenBracket(w, style, open) == [writeWithIndent(w, style, <<C(open)>>) EXCEPT !.depth = @ + 1]

CloseBracket(w, style, close) == writeWithIndent([w EXCEPT !.depth = @ - 1], style, <<C(close)>>)

\* Between two brackets, each on a line of its own: Child writes one child.
Lines(w, style, open, close, children, Child(_, _)) ==
    LET OneMore(x, i) == Ended(Child(writeCommentBeforeValue(x, style, children[i]), i), style,
                               children[i], i = Len(children))
    IN  CloseBracket(FoldLeftDomain(OneMore, OpenBracket(w, style, open), children), style, close)

Separated(texts, separator) == FoldLeft(LAMBDA all, text : all \o separator \o text, Head(texts), Tail(texts))

OnOneLine(w, style, texts) ==
    LET space == IF style.kind = "built" /\ style.indentation = <<>> THEN <<>> ELSE <<C(" ")>>
    IN  Emit(w, <<C("[")>> \o space \o Separated(texts, <<C(",")>> \o space) \o space \o <<C("]")>>)

\* writeArrayValue of an array that is not empty.
writeArrayValue(w, style, elements, texts) ==
    LET commented == style.kind = "built" /\ style.comments
        Child(x, i) ==
            IF ~commented /\ MayFitOnLine(elements)
            THEN writeWithIndent(x, style, texts[i])
            ELSE [writeValue([Indented(x, style) EXCEPT !.indented = TRUE], style, elements[i])
                      EXCEPT !.indented = FALSE]
    IN  IF commented \/ isMultilineArray(elements, texts)
        THEN Lines(w, style, "[", "]", elements, Child)
        ELSE OnOneLine(w, style, texts)

\* The name of a member: for the older writers a C string.
MemberName(style, name) ==
    valueToQuotedStringN(IF style.kind = "built" THEN name ELSE CString(name), style.emitUTF8)

writeValue(w, style, value) ==
    LET names == Members(value, <<>>)
        children == [i \in DOMAIN names |-> Subtree(value, <<names[i]>>)]
        Member(x, i) ==
            writeValue(Emit(writeWithIndent(x, style, MemberName(style, names[i])), style.colonSymbol),
                       style, children[i])
    IN  CASE ~NotEmpty(value) -> Emit(w, ValueText(style, value[<<>>]))
          [] NotEmpty(value) /\ value[<<>>].type = "array" ->
                 writeArrayValue(w, style, Elements(value), childValues(style, Elements(value)))
          [] OTHER -> Lines(w, style, "{", "}", children, Member)

\* write
Written(style, root) ==
    LET new    == [text |-> <<>>, depth |-> 0, indented |-> TRUE]
        before == writeCommentBeforeValue(new, style, root)
        begun  == IF style.kind = "styled"
                  THEN before
                  ELSE [Indented(before, style) EXCEPT !.indented = TRUE]
    IN  writeCommentAfterValueOnSameLine(writeValue(begun, style, root), style, root).text
        \o style.ending

-----------------------------------------------------------------------------
(***************************************************************************)
(* FastWriter: on one line, without comments.                              *)
(***************************************************************************)
RECURSIVE FastText(_, _)

FastText(style, value) ==
    LET names    == Members(value, <<>>)
        elements == Elements(value)
    IN  CASE ~NotEmpty(value) -> ValueText(style, value[<<>>])
          [] NotEmpty(value) /\ value[<<>>].type = "array" ->
                 <<C("[")>>
                 \o Separated([i \in DOMAIN elements |-> FastText(style, elements[i])], <<C(",")>>)
                 \o <<C("]")>>
          [] OTHER ->
                 <<C("{")>>
                 \o Separated([i \in DOMAIN names |->
                                   valueToQuotedStringN(names[i], FALSE) \o style.colonSymbol
                                   \o FastText(style, Subtree(value, <<names[i]>>))], <<C(",")>>)
                 \o <<C("}")>>

FastWritten(style, root) == FastText(style, root) \o style.ending

-----------------------------------------------------------------------------
(***************************************************************************)
(* The styles.                                                             *)
(***************************************************************************)
ColonSymbol == Text(<<" ", ":", " ">>)
NullSymbol == Text(<<"n", "u", "l", "l">>)

Style(kind, indentation) ==
    [kind |-> kind, indentation |-> indentation, comments |-> TRUE,
     colonSymbol |-> ColonSymbol, nullSymbol |-> NullSymbol, ending |-> <<LF>>,
     useSpecialFloats |-> FALSE, emitUTF8 |-> FALSE, precision |-> 17, significant |-> TRUE]

StyledWriter == Style("styled", Text(<<" ", " ", " ">>))

StyledStreamWriter(indentation) == Style("stream", indentation)

FastWriter(yamlCompatibilityEnabled, dropNullPlaceholders, omitEndingLineFeed) ==
    [Style("fast", <<>>) EXCEPT
        !.colonSymbol = IF yamlCompatibilityEnabled THEN Text(<<":", " ">>) ELSE Text(<<":">>),
        !.nullSymbol  = IF dropNullPlaceholders THEN <<>> ELSE @,
        !.ending      = IF omitEndingLineFeed THEN <<>> ELSE @]

\* The members of StreamWriterBuilder::settings_ that are there; what is not is
\* a null: an empty string, a FALSE, a zero.
WriterKeys == {"indentation", "commentStyle", "enableYAMLCompatibility", "dropNullPlaceholders",
               "useSpecialFloats", "emitUTF8", "precision", "precisionType"}

Setting(settings, key, ifNull) == IF key \in DOMAIN settings THEN settings[key] ELSE ifNull

\* StreamWriterBuilder::newStreamWriter throws for a style it does not know.
MakesWriter(settings) ==
    /\ Setting(settings, "commentStyle", "") \in {"All", "None"}
    /\ Setting(settings, "precisionType", "") \in {"significant", "decimal"}

newStreamWriter(settings) ==
    LET indentation == Setting(settings, "indentation", <<>>)
        precision   == Setting(settings, "precision", 0)
    IN  [kind |-> "built", indentation |-> indentation,
         comments |-> settings["commentStyle"] = "All",
         colonSymbol |-> CASE Setting(settings, "enableYAMLCompatibility", FALSE) -> Tail(ColonSymbol)
                           [] ~Setting(settings, "enableYAMLCompatibility", FALSE) /\ indentation = <<>> ->
                                  <<C(":")>>
                           [] OTHER -> ColonSymbol,
         nullSymbol |-> IF Setting(settings, "dropNullPlaceholders", FALSE) THEN <<>> ELSE NullSymbol,
         ending |-> <<>>,
         useSpecialFloats |-> Setting(settings, "useSpecialFloats", FALSE),
         emitUTF8 |-> Setting(settings, "emitUTF8", FALSE),
         precision |-> IF precision > 17 THEN 17 ELSE precision,
         significant |-> settings["precisionType"] = "significant"]

\* StreamWriterBuilder::setDefaults
WriterDefaults ==
    [indentation |-> <<Tab>>, commentStyle |-> "All", enableYAMLCompatibility |-> FALSE,
     dropNullPlaceholders |-> FALSE, useSpecialFloats |-> FALSE, emitUTF8 |-> FALSE,
     precision |-> 17, precisionType |-> "significant"]

\* StreamWriterBuilder::validate: the keys it does not know.
InvalidWriterKeys(settings) == DOMAIN settings \ WriterKeys
=============================================================================
