-------------------------------- MODULE Wire --------------------------------
(***************************************************************************)
(* What travels on the command channel, and what recv() and                *)
(* seperate_to_vector() make of it.                                        *)
(*                                                                         *)
(* A text is a sequence of units.  A unit is a word, the character that    *)
(* ends it (a space inside a request, a newline at its end) and the bytes  *)
(* it takes with that character.  "user Ali\n" is two units, of 5 and of 4 *)
(* bytes.  A word is opaque; the bytes are kept because they decide how    *)
(* much of an older text survives under a newer one in the server's only   *)
(* buffer.                                                                 *)
(***************************************************************************)
EXTENDS Integers, Sequences, FiniteSets

CONSTANTS
    Width,    \* [words -> their length in bytes]
    Garbled   \* a word that was cut, or has a newline inside it

SP == "space"
NL == "newline"

ASSUME WireAssumption ==
    /\ \A w \in DOMAIN Width : Width[w] \in Nat
    /\ Garbled \notin DOMAIN Width

Units == [word : DOMAIN Width \cup {Garbled}, end : {SP, NL}, size : Int]

\* The text of one request, as typed on the client's terminal.
Line(words) ==
    [i \in DOMAIN words |-> [word |-> words[i],
                             end  |-> IF i = Len(words) THEN NL ELSE SP,
                             size |-> Width[words[i]] + 1]]

strlen(text) ==
    LET upto[i \in 0 .. Len(text)] == IF i = 0 THEN 0 ELSE upto[i - 1] + text[i].size
    IN  upto[Len(text)]

\* What is left of a text when its first n bytes are overwritten: the unit the
\* cut falls in loses its word, the units before it are gone.
Cut(text, n) ==
    [i \in DOMAIN text |->
        LET left == strlen(SubSeq(text, 1, i)) - n
        IN  IF left >= text[i].size
            THEN text[i]
            ELSE [text[i] EXCEPT !.word = Garbled, !.size = left]]

Gone(text, n) == {i \in DOMAIN text : strlen(SubSeq(text, 1, i)) <= n}

Beyond(text, n) == SubSeq(Cut(text, n), Cardinality(Gone(text, n)) + 1, Len(text))

(***************************************************************************)
(* recv(i, buffer, BUFFER_SIZE, 0): the bytes received overwrite the       *)
(* beginning of the buffer and nothing ends them, so that what an earlier  *)
(* call left beyond them is still part of the string.  With nothing        *)
(* received (recv returned -1) the old text is all there is.               *)
(***************************************************************************)
recv(received, buffer) == received \o Beyond(buffer, strlen(received))

(***************************************************************************)
(* seperate_to_vector splits on spaces only and ends the last word one     *)
(* character before the end of the string, which drops the final newline.  *)
(* Every other newline stays inside a word: the units from one space to    *)
(* the next are one word of the vector, garbled unless it is one unit.  An *)
(* empty last word (an empty line, a space before the newline) is not      *)
(* pushed, so that an empty line gives an empty vector.                    *)
(***************************************************************************)
Starts(text) == {i \in DOMAIN text : i = 1 \/ text[i - 1].end = SP}

\* Mutant: the test for the last character is off by one.
PushedShort(text) == Starts(text) \ {Len(text)}

Pushed(text) == {i \in Starts(text) : ~(i = Len(text) /\ text[i].size = 1)}

\* A text whose vector is not empty: it is not one empty line.
HasWord(text) == Len(text) > 1 \/ text[1].size # 1

\* Mutant: a newline ends the word and not the request.
WordAtNewline(text, i) == text[i].word

WordAt(text, i) ==
    IF i = Len(text) \/ text[i].end = SP THEN text[i].word ELSE Garbled

seperate_to_vector(text) ==
    LET words[i \in 0 .. Len(text)] ==
            IF i = 0 THEN <<>>
            ELSE IF i \in Pushed(text) THEN Append(words[i - 1], WordAt(text, i)) ELSE words[i - 1]
    IN  words[Len(text)]

\* The number of requests in a text: a client ends each with a newline.
Lines(text) == Cardinality({i \in DOMAIN text : text[i].end = NL})
=============================================================================
