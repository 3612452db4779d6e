------------------------------- MODULE JsonText -------------------------------
(***************************************************************************)
(* Characters and pieces of text, as jsoncpp sees them: bytes.  A text is  *)
(* a sequence of bytes, and a location in it is the number of bytes before *)
(* it, as the difference of two pointers is.                               *)
(***************************************************************************)
EXTENDS Integers, Sequences
LOCAL INSTANCE SequencesExt
LOCAL INSTANCE FiniteSetsExt

\* The printable characters in the order of their codes, from the space on.
Ascii == <<" ", "!", "\"", "#", "$", "%", "&", "'", "(", ")", "*", "+", ",",
           "-", ".", "/", "0", "1", "2", "3", "4", "5", "6", "7", "8", "9",
           ":", ";", "<", "=", ">", "?", "@", "A", "B", "C", "D", "E", "F",
           "G", "H", "I", "J", "K", "L", "M", "N", "O", "P", "Q", "R", "S",
           "T", "U", "V", "W", "X", "Y", "Z", "[", "\\", "]", "^", "_", "grave",
           "a", "b", "c", "d", "e", "f", "g", "h", "i", "j", "k", "l", "m",
           "n", "o", "p", "q", "r", "s", "t", "u", "v", "w", "x", "y", "z",
           "{", "|", "}", "~">>

CodeOf == [c \in ToSet(Ascii) |-> 31 + CHOOSE i \in DOMAIN Ascii : Ascii[i] = c]

\* The byte of a printable character, and those of a text of them.
C(c) == CodeOf[c]

Text(s) == [i \in DOMAIN s |-> CodeOf[s[i]]]

Byte == 0 .. 255
Tab == 9
LF == 10
CR == 13
Digits == C("0") .. C("9")

\* b to the n.
Power(b, n) ==
    LET power[k \in 0 .. n] == IF k = 0 THEN 1 ELSE b * power[k - 1]
    IN  power[n]

\* No location at all.  -1 is one that the code computes, of a null left out.
NoLocation == -2

Slice(text, from, to) == SubSeq(text, from + 1, to)

HasAt(text, at, c) == at < Len(text) /\ text[at + 1] = c

\* The end of the longest run of bytes of S that starts at a location.
Span(text, from, S) ==
    LET stops == {p \in from .. Len(text) - 1 : text[p + 1] \notin S}
    IN  IF stops = {} THEN Len(text) ELSE Min(stops)

-----------------------------------------------------------------------------
\* codePointToUTF8; a number above 0x10FFFF has no encoding and gives nothing.
codePointToUTF8(cp) ==
    LET tail(n) == 128 + ((cp \div n) % 64)
    IN  CASE cp <= 127 -> <<cp>>
          [] 127 < cp /\ cp <= 2047 -> <<192 + (cp \div 64), tail(1)>>
          [] 2047 < cp /\ cp <= 65535 -> <<224 + (cp \div 4096), tail(64), tail(1)>>
          [] 65535 < cp /\ cp <= 1114111 ->
                 <<240 + (cp \div 262144), tail(4096), tail(64), tail(1)>>
          [] OTHER -> <<>>

\* uintToString: the digits, the last one first, until nothing is left.
uintToString(n) ==
    LET width == CHOOSE w \in 1 .. n + 1 : n < Power(10, w) /\ (w > 1 => n >= Power(10, w - 1))
    IN  [i \in 1 .. width |-> C("0") + ((n \div Power(10, width - i)) % 10)]

\* normalizeEOL: "\r\n" and a lone "\r" become "\n".
normalizeEOL(text) ==
    LET kept == SelectSeq([i \in DOMAIN text |-> i],
                          LAMBDA i : ~(text[i] = LF /\ i > 1 /\ text[i - 1] = CR))
    IN  [j \in DOMAIN kept |-> IF text[kept[j]] = CR THEN LF ELSE text[kept[j]]]

containsNewLine(text) == \E i \in DOMAIN text : text[i] \in {LF, CR}
=============================================================================
