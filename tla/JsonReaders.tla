------------------------------ MODULE JsonReaders ------------------------------
(***************************************************************************)
(* The two readers side by side: a state is one of Json::Reader or, where  *)
(* features.copy is set, one of Json::OurReader.  Both are held against    *)
(* JSON itself, with the departures from it that their features name.      *)
(***************************************************************************)
EXTENDS JsonOurReader, JsonMeaning
LOCAL INSTANCE SequencesExt
LOCAL INSTANCE FiniteSetsExt

CONSTANT MeaningOf      \* for each setting, the texts it admits with their data

ASSUME JsonReadersAssumption == DOMAIN MeaningOf = Features

ReadersInit == OurInit

ReadersStep == IF features.copy THEN OurStep ELSE Step /\ Unmarked

\* The end of the behaviours: everywhere else a reader has to have a next step.
Terminated ==
    /\ pc \in {"done", "thrown"} /\ parses = Len(Documents)
    /\ UNCHANGED ourVars

ReadersNext ==
    \/ features.copy /\ OurNext
    \/ ~features.copy /\ Next /\ Unmarked
    \/ Terminated

ReadersSpec == ReadersInit /\ [][ReadersNext]_ourVars /\ WF_ourVars(ReadersStep)

-----------------------------------------------------------------------------
Blank == {C(" "), CR, LF}
CommentBytes == {C("/"), C("*"), C("q"), C("z")}

Without(text, S) == SelectSeq(text, LAMBDA c : c \notin S)

\* The texts here have no blank and no byte of a comment inside a string.
Bare == Without(document, Blank \cup CommentBytes)

HasComment == \E i \in DOMAIN document : document[i] \in CommentBytes

\* Where the code reads no comment: before a colon, and before the end of an
\* array behind its beginning or a last comma.
CommentMisplaced ==
    LET text == Without(document, Blank)
    IN  \E i, j \in DOMAIN text :
            /\ i < j /\ \A k \in i + 1 .. j - 1 : text[k] \in CommentBytes
            /\ \/ i + 1 < j /\ text[i] \in {C("["), C(",")} /\ text[j] = C("]")
               \/ j = i + 1 /\ text[i] \in CommentBytes /\ text[j] = C(":")

Over == pc \in {"done", "thrown"}

\* Every text of JSON is accepted with the data that it denotes, with blanks
\* and comments between its tokens and whatever the Reader has read before;
\* one that is nested too deep is not, and strictRoot asks for a container.
AcceptsJson ==
    Over /\ Bare \in DOMAIN MeaningOf[features]
         /\ (HasComment => features.allowComments /\ ~CommentMisplaced) =>
    LET data == MeaningOf[features][Bare]
        depth == 1 + Max({Len(p) : p \in DOMAIN data})
    IN  CASE depth > stackLimit_g -> pc = "thrown"
          [] depth <= stackLimit_g /\ features.strictRoot /\ data[<<>>][1] \notin Containers -> pc = "done" /\ ~ok
          [] OTHER -> pc = "done" /\ ok /\ Data(root) = data

\* What the code accepts and JSON does not have.  Numbers that istream reads, or
\* that have no digit at all: 01, 1., -.5 and a sign alone.
LooseNumber ==
    LET digit(i) == i \in DOMAIN Bare /\ Bare[i] \in Digits
        inner(i) == i \in DOMAIN Bare /\ Bare[i] \in Digits \cup {C("."), C("e"), C("E"), C("+")}
    IN  /\ \A i \in DOMAIN Bare : Bare[i] # C("\"")
        /\ \E i \in DOMAIN Bare :
               \/ Bare[i] = C("-") /\ ~digit(i + 1)
               \/ Bare[i] = C(".") /\ ~(digit(i - 1) /\ digit(i + 1))
               \/ Bare[i] = C("0") /\ digit(i + 1) /\ ~inner(i - 1)

HasText(text, part) == \E i \in 0 .. Len(text) - Len(part) : Slice(text, i, i + Len(part)) = part

\* A comma behind a member with an empty name: "}" is taken for the end of an
\* object that has no member yet.
EmptyNameLast == HasText(Bare, Text(<<"\"", "\"", ":">>)) /\ HasText(Bare, Text(<<",", "}">>))

\* Behind a member and a comment, any token in the place of the comma.
CommaReplaced ==
    LET text == Without(document, Blank)
        Count(S, i, j) == Cardinality({k \in i .. j : text[k] \in S})
        open(j) == {i \in 1 .. j : Count({C("{"), C("[")}, i, j) > Count({C("}"), C("]")}, i, j)}
    IN  \E i, j \in DOMAIN text :
            /\ i + 1 < j /\ \A k \in i + 1 .. j - 1 : text[k] \in CommentBytes
            /\ text[i] \notin CommentBytes \cup {C("{"), C("["), C(","), C(":")}
            /\ text[j] \notin CommentBytes \cup {C(","), C("}")}
            /\ open(i) # {} /\ text[Max(open(i))] = C("{")

\* What is accepted begins with a text of JSON, with comments between its
\* tokens, and is one if failIfExtra is set; the Value holds what that text
\* denotes.  The exceptions are the three above and, where nulls may be left
\* out, a text that begins with nothing, and a comment alone between brackets,
\* which counts for a null.
AcceptsOnlyJson ==
    pc = "done" /\ ok /\ ~LooseNumber /\ ~EmptyNameLast /\ ~CommaReplaced =>
    LET shortest == IF features.copy /\ features.failIfExtra THEN Len(Bare) ELSE 1
    IN  \/ \E n \in shortest .. Len(Bare) :
               /\ SubSeq(Bare, 1, n) \in DOMAIN MeaningOf[features]
               /\ Data(root) = MeaningOf[features][SubSeq(Bare, 1, n)]
        \/ features.allowDroppedNullPlaceholders /\ (root[<<>>].type = "null" \/ CommentMisplaced)

\* OurReader keeps every comment of a text that it accepts, unless a name is
\* repeated: none is overwritten by the next one, and none is lost at the end.
Marks(text) == Cardinality({i \in DOMAIN text : text[i] \in {C("q"), C("z")}})

MarksKept == MapThenSumSet(LAMBDA at : Marks(root[at[1]].comments[at[2]]),
                           (DOMAIN root) \X {Before, AfterOnSameLine, After})

CommentsKept ==
    LET seen   == Slice(document, 0, current)
        colons == Cardinality({i \in DOMAIN seen : seen[i] = C(":")})
        named  == {p \in DOMAIN root : p # <<>> /\ root[Front(p)].type = "object"}
    IN  pc = "done" /\ ok /\ features.copy /\ collecting /\ colons = Cardinality(named) =>
            MarksKept = Marks(seen)

\* The offsets of a Value are those of its text: they lie inside those of the
\* container, and what is read there is the Value.
OffsetsFound ==
    pc = "done" /\ ok /\ ~features.allowDroppedNullPlaceholders =>
    \A p \in DOMAIN root :
        LET v     == root[p]
            token == IF features.copy THEN OurReadToken(document, v.start) ELSE readToken(document, v.start)
            value == IF features.copy THEN OurDenoted(token) ELSE Denoted(token)
        IN  /\ 0 <= v.start /\ v.start < v.limit /\ v.limit <= current
            /\ p # <<>> => /\ root[Front(p)].start < v.start
                          /\ v.limit < root[Front(p)].limit
            /\ IF v.type \in Containers
               THEN /\ HasAt(document, v.start, C(IF v.type = "array" THEN "[" ELSE "{"))
                    /\ HasAt(document, v.limit - 1, C(IF v.type = "array" THEN "]" ELSE "}"))
               ELSE token.start = v.start /\ token.end = v.limit /\ value.val = v.val
=============================================================================
