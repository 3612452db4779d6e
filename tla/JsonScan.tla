------------------------------- MODULE JsonScan -------------------------------
(***************************************************************************)
(* What Json::Reader makes of the characters at a location: the next       *)
(* token, the text of a string, the value of a number.  Json::OurReader    *)
(* holds copies of these methods; where a copy differs, its module defines *)
(* it anew.                                                                *)
(***************************************************************************)
EXTENDS JsonNumbers
LOCAL INSTANCE FiniteSetsExt

TokenTypes == {"EndOfStream", "ObjectBegin", "ObjectEnd", "ArrayBegin", "ArrayEnd",
               "String", "Number", "True", "False", "Null", "NaN", "PosInf", "NegInf",
               "ArraySeparator", "MemberSeparator", "Comment", "Error"}

Token(type, start, end) == [type |-> type, start |-> start, end |-> end]

-----------------------------------------------------------------------------
skipSpaces(text, from) == Span(text, from, {C(" "), Tab, CR, LF})

\* The location behind a pattern, or where the pattern would begin.
match(text, from, pattern) ==
    LET to == from + Len(pattern)
    IN  IF to <= Len(text) /\ Slice(text, from, to) = pattern THEN to ELSE from

\* readString: whether the string is closed, and where reading stops.  The
\* character behind a backslash is skipped, whatever it is.
readString(text, from, quote) ==
    LET n == Len(text)
        scan[p \in from .. n] ==
            CASE p = n -> [ok |-> FALSE, end |-> n]
              [] HasAt(text, p, quote) -> [ok |-> TRUE, end |-> p + 1]
              [] HasAt(text, p, C("\\")) -> scan[IF p + 2 > n THEN n ELSE p + 2]
              [] OTHER -> scan[p + 1]
    IN  scan[from]

\* readCStyleComment: to the first "*/".  Without one, to the end of the text,
\* and the comment passes for closed if the last character is a '/'.
readCStyleComment(text, from) ==
    LET closed == {p \in from .. Len(text) - 2 :
                       HasAt(text, p, C("*")) /\ HasAt(text, p + 1, C("/"))}
        last == Len(text) - 1
    IN  IF closed # {}
        THEN [ok |-> TRUE, end |-> Min(closed) + 2]
        ELSE [ok |-> from <= last /\ HasAt(text, last, C("/")), end |-> Len(text)]

\* readCppStyleComment: to the end of the line, "\n", "\r\n" or "\r".
readCppStyleComment(text, from) ==
    LET eol == Span(text, from, Byte \ {LF, CR})
    IN  CASE eol = Len(text) -> eol
          [] HasAt(text, eol, CR) /\ HasAt(text, eol + 1, LF) -> eol + 2
          [] OTHER -> eol + 1

readComment(text, from) ==
    CASE HasAt(text, from, C("*")) -> readCStyleComment(text, from + 1)
      [] HasAt(text, from, C("/")) -> [ok |-> TRUE, end |-> readCppStyleComment(text, from + 1)]
      [] OTHER -> [ok |-> FALSE, end |-> IF from = Len(text) THEN from ELSE from + 1]

\* readNumber, behind the first character: digits, a fraction, an exponent, of
\* which each may have no digit at all.
readNumber(text, from) ==
    LET whole    == Span(text, from, Digits)
        fraction == IF HasAt(text, whole, C(".")) THEN Span(text, whole + 1, Digits) ELSE whole
        sign     == fraction + 1
    IN  IF ~(HasAt(text, fraction, C("e")) \/ HasAt(text, fraction, C("E")))
        THEN fraction
        ELSE IF HasAt(text, sign, C("+")) \/ HasAt(text, sign, C("-"))
             THEN Span(text, sign + 1, Digits)
             ELSE Span(text, sign, Digits)

Punctuation ==
    [c \in {C("{"), C("}"), C("["), C("]"), C(","), C(":")} |->
        CASE c = C("{") -> "ObjectBegin" [] c = C("}") -> "ObjectEnd"
          [] c = C("[") -> "ArrayBegin"  [] c = C("]") -> "ArrayEnd"
          [] c = C(",") -> "ArraySeparator" [] c = C(":") -> "MemberSeparator"]

\* The token of a part that may fail to be one.
Checked(type, start, part) == Token(IF part.ok THEN type ELSE "Error", start, part.end)

\* The token of a word, whose first letter has been read.
Word(type, text, start, rest) ==
    LET end == match(text, start + 1, rest)
    IN  Token(IF end = start + 1 THEN "Error" ELSE type, start, end)

\* readToken.  The end of the text, and a NUL in it, end the stream.
readToken(text, current) ==
    LET start == skipSpaces(text, current)
        at    == start + 1
        c     == IF start = Len(text) THEN 0 ELSE text[at]
    IN  CASE c = 0 -> Token("EndOfStream", start, IF start = Len(text) THEN start ELSE at)
          [] c \in DOMAIN Punctuation -> Token(Punctuation[c], start, at)
          [] c = C("\"") -> Checked("String", start, readString(text, at, c))
          [] c = C("/") -> Checked("Comment", start, readComment(text, at))
          [] c \in Digits \cup {C("-")} -> Token("Number", start, readNumber(text, at))
          [] c = C("t") -> Word("True", text, start, Text(<<"r", "u", "e">>))
          [] c = C("f") -> Word("False", text, start, Text(<<"a", "l", "s", "e">>))
          [] c = C("n") -> Word("Null", text, start, Text(<<"u", "l", "l">>))
          [] OTHER -> Token("Error", start, at)

-----------------------------------------------------------------------------
\* What decoding a token yields: a payload, or a message and a location.
Decoded(type, val) == [ok |-> TRUE, type |-> type, val |-> val, message |-> "", extra |-> NoLocation]

Failed(message, extra) ==
    [ok |-> FALSE, type |-> "null", val |-> <<>>, message |-> message, extra |-> extra]

Escapes ==
    [c \in {C("\""), C("/"), C("\\"), C("b"), C("f"), C("n"), C("r"), C("t")} |->
        CASE c = C("b") -> 8 [] c = C("f") -> 12 [] c = C("n") -> LF
          [] c = C("r") -> CR [] c = C("t") -> Tab [] OTHER -> c]

HexDigit(c) ==
    CASE c \in Digits -> c - C("0")
      [] c \in C("a") .. C("f") -> c - C("a") + 10
      [] c \in C("A") .. C("F") -> c - C("A") + 10
      [] OTHER -> -1

\* The parts of a string: a number, the location behind it, and why there is
\* none.
Part(number, end) == [ok |-> TRUE, number |-> number, end |-> end, message |-> ""]

NoPart(message, end) == [ok |-> FALSE, number |-> 0, end |-> end, message |-> message]

decodeUnicodeEscapeSequence(text, current, end) ==
    LET digit(i) == HexDigit(text[current + i])
        bad      == {i \in 1 .. 4 : digit(i) = -1}
    IN  CASE end - current < 4 -> NoPart("four digits expected", current)
          [] end - current >= 4 /\ bad # {} ->
                 NoPart("hexadecimal digit expected", current + Min(bad))
          [] OTHER -> Part(4096 * digit(1) + 256 * digit(2) + 16 * digit(3) + digit(4),
                           current + 4)

\* The second half of a surrogate pair is not looked at, but for its low bits.
Pair(first, second) ==
    IF second.ok
    THEN Part(65536 + 1024 * (first.number % 1024) + (second.number % 1024), second.end)
    ELSE second

\* What follows the first half.
SecondHalf(text, first, next, end) ==
    CASE end - next < 6 -> NoPart("six characters expected", next)
      [] end - next >= 6 /\ ~HasAt(text, next, C("\\")) -> NoPart("expecting \\u", next + 1)
      [] end - next >= 6 /\ HasAt(text, next, C("\\")) /\ ~HasAt(text, next + 1, C("u")) ->
             NoPart("expecting \\u", next + 2)
      [] OTHER -> Pair(first, decodeUnicodeEscapeSequence(text, next + 2, end))

CodePoint(text, first, end) ==
    IF ~first.ok \/ first.number \notin 55296 .. 56319 THEN first ELSE SecondHalf(text, first, first.end, end)

decodeUnicodeCodePoint(text, current, end) ==
    CodePoint(text, decodeUnicodeEscapeSequence(text, current, end), end)

\* decodeString, between the quotes of a token.  A '"' ends it: in the text of
\* a string in double quotes there is none.
decodeString(text, token) ==
    LET end == token.end - 1
        from[p \in 0 .. Len(text)] ==
            LET then(bytes, next) ==
                    IF from[next].ok
                    THEN Decoded("string", bytes \o from[next].val)
                    ELSE from[next]
                escape == text[p + 2]
                unicode(point) ==
                    IF point.ok
                    THEN then(codePointToUTF8(point.number), point.end)
                    ELSE Failed(point.message, point.end)
            IN  IF p >= end \/ HasAt(text, p, C("\""))
                THEN Decoded("string", <<>>)
                ELSE IF ~HasAt(text, p, C("\\"))
                THEN then(<<text[p + 1]>>, p + 1)
                ELSE CASE p + 1 = end -> Failed("Empty escape sequence in string", p + 1)
                       [] p + 1 < end /\ escape \in DOMAIN Escapes -> then(<<Escapes[escape]>>, p + 2)
                       [] p + 1 < end /\ escape = C("u") ->
                              unicode(decodeUnicodeCodePoint(text, p + 2, end))
                       [] OTHER -> Failed("Bad escape sequence in string", p + 2)
    IN  from[token.start + 1]

Sign(text) == IF text # <<>> /\ text[1] = C("-") THEN -1 ELSE 1

\* istream >> double, on the text of a number: as far as it goes, which must
\* be a number with an exponent that has digits, if it has one.
StreamedDouble(text) ==
    LET first    == IF text[1] \in {C("-"), C("+")} THEN 1 ELSE 0
        whole    == Span(text, first, Digits)
        point    == HasAt(text, whole, C("."))
        fraction == IF point THEN Span(text, whole + 1, Digits) ELSE whole
        digits   == Slice(text, first, whole)
                    \o (IF point THEN Slice(text, whole + 1, fraction) ELSE <<>>)
        scale    == IF point THEN fraction - whole - 1 ELSE 0
        exponent == Slice(text, fraction + 1, Len(text))
        signed   == exponent # <<>> /\ exponent[1] \in {C("-"), C("+")}
        power    == IF signed THEN Tail(exponent) ELSE exponent
        e        == Sign(exponent) * Number(power) - scale
    IN  CASE digits = <<>> \/ (fraction < Len(text) /\ power = <<>>) ->
                 Failed("is not a number", NoLocation)
          [] digits # <<>> /\ Number(digits) # 0 /\ Len(digits) + e > MaxExponent ->
                 Decoded("real", Infinity(Sign(text)))
          [] OTHER -> Decoded("real", Real(Sign(text) * Number(digits), e))

decodeDouble(text, token) == StreamedDouble(Slice(text, token.start, token.end))

\* Mutant: the last digit is not compared with that of the maximum.
AccumulatedEarly(digits, maximum) ==
    IF digits # <<>> /\ Number(digits) \div 10 >= maximum \div 10 THEN -1 ELSE Number(digits)

\* The value that the loop of decodeNumber reaches with the digits, or -1 when
\* it leaves for decodeDouble: before a multiplication that would overflow.
Accumulated(digits, maximum) ==
    LET threshold == maximum \div 10
        n == Len(digits)
        after[i \in 0 .. n] ==
            IF i = 0
            THEN 0
            ELSE LET value == after[i - 1]
                     digit == digits[i] - C("0")
                 IN  IF \/ value = -1
                        \/ /\ value >= threshold
                           /\ value > threshold \/ i # n \/ digit > maximum % 10
                     THEN -1
                     ELSE value * 10 + digit
    IN  after[n]

\* decodeNumber: the integer it is, if it is one and fits, or else a real.
decodeNumber(text, token) ==
    LET negative == HasAt(text, token.start, C("-"))
        digits   == Slice(text, token.start + (IF negative THEN 1 ELSE 0), token.end)
        maximum  == IF negative THEN maxLargestInt + 1 ELSE maxLargestUInt
        value    == Accumulated(digits, maximum)
    IN  CASE (\E i \in DOMAIN digits : digits[i] \notin Digits) \/ value = -1 ->
                 decodeDouble(text, token)
          [] negative -> Decoded("int", <<-value>>)
          [] OTHER -> Decoded(IF value <= maxInt THEN "int" ELSE "uint", <<value>>)
=============================================================================
