---------------------------- MODULE JsonOurReader -----------------------------
(***************************************************************************)
(* Json::OurReader, "complete copy of Read impl" with more features: what  *)
(* is different from Json::Reader, and the actions of the copy.  A byte    *)
(* order mark is behind begin_ when it is skipped: document and locations  *)
(* count from begin_ here.                                                 *)
(***************************************************************************)
EXTENDS JsonReader
LOCAL INSTANCE SequencesExt

ASSUME JsonOurReaderAssumption ==
    \A f \in Features : \A name \in {"allowTrailingCommas", "allowSingleQuotes",
        "failIfExtra", "rejectDupKeys", "allowSpecialFloats", "skipBom"} : f[name] \in BOOLEAN

VARIABLES
    lastValueHasAComment,   \* lastValueHasAComment_
    bom                     \* the bytes of a mark that was skipped

ourVars == <<vars, lastValueHasAComment, bom>>

OurInit == Init /\ lastValueHasAComment = FALSE /\ bom = 0

-----------------------------------------------------------------------------
Mark == <<239, 187, 191>>

\* skipBom
SkippedBom(doc) == IF features.skipBom /\ IsPrefix(Mark, doc) THEN Len(Mark) ELSE 0

\* A sign may be followed by a number or, as a special float, by "Infinity".
SignedToken(text, start) ==
    LET at  == start + 1
        end == match(text, at + 1, Text(<<"n", "f", "i", "n", "i", "t", "y">>))
    IN  CASE ~HasAt(text, at, C("I")) -> Token("Number", start, readNumber(text, at))
          [] HasAt(text, at, C("I")) /\ features.allowSpecialFloats /\ end > at + 1 ->
                 Token(IF HasAt(text, start, C("-")) THEN "NegInf" ELSE "PosInf", start, end)
          [] OTHER -> Token("Error", start, at + 1)

\* readToken
OurReadToken(text, from) ==
    LET start == skipSpaces(text, from)
        c     == IF start = Len(text) THEN 0 ELSE text[start + 1]
    IN  CASE c = C("'") /\ features.allowSingleQuotes ->
                 Checked("String", start, readString(text, start + 1, c))
          [] c \in {C("-"), C("+")} -> SignedToken(text, start)
          [] c = C("N") /\ features.allowSpecialFloats ->
                 Word("NaN", text, start, Text(<<"a", "N">>))
          [] c = C("I") /\ features.allowSpecialFloats ->
                 Word("PosInf", text, start, Text(<<"n", "f", "i", "n", "i", "t", "y">>))
          [] OTHER -> readToken(text, from)

\* Every number that an Int64 holds becomes one.
Narrowed(number) ==
    IF number.type = "uint" /\ number.val[1] <= maxLargestInt
    THEN Decoded("int", number.val)
    ELSE number

\* decodeNumber
OurDecodeNumber(text, tok) == Narrowed(decodeNumber(text, tok))

\* The values of the tokens, in readValue.
OurDenoted(tok) ==
    CASE tok.type = "Number" -> OurDecodeNumber(document, tok)
      [] tok.type = "NaN" -> Decoded("real", NaN)
      [] tok.type = "PosInf" -> Decoded("real", Infinity(1))
      [] tok.type = "NegInf" -> Decoded("real", Infinity(-1))
      [] OTHER -> Denoted(tok)

OurNameOf(tok) ==
    IF tok.type = "String"
    THEN decodeString(document, tok)
    ELSE NumberName(OurDecodeNumber(document, tok))

\* In a text in single quotes as well, a '"' ends the string.
OurMayEndAtName == MayEndAtName \/ features.allowTrailingCommas

OurMayEndAtElement ==
    \/ MayEndAtElement
    \/ features.allowTrailingCommas /\ ~features.allowDroppedNullPlaceholders

\* Mutant: as Reader does it, without lastValueHasAComment.
OurOnSameLineAsReader(tok) == OnSameLine(tok)

\* readComment: only the first comment on the line of a value belongs to it.
\* In a C-style comment only "\n" counts as a new line.
OurOnSameLine(tok) ==
    /\ ~lastValueHasAComment
    /\ lastValueEnd # NoLocation
    /\ ~containsNewLine(Slice(document, lastValueEnd, tok.start))
    /\ \/ HasAt(document, tok.start + 1, C("/"))
       \/ \A p \in tok.start + 2 .. tok.end - 2 : ~HasAt(document, p, LF)

-----------------------------------------------------------------------------
(***************************************************************************)
(* The actions of the copy.                                                *)
(***************************************************************************)
OurParse(doc, collectComments) ==
    LET skipped == SkippedBom(doc)
    IN  /\ Parse(SubSeq(doc, skipped + 1, Len(doc)), collectComments)
        /\ bom' = skipped
        /\ UNCHANGED lastValueHasAComment

Unmarked == UNCHANGED <<lastValueHasAComment, bom>>

\* The Value that a readValue has completed has no comment yet.
Completed ==
    /\ lastValueHasAComment' = (lastValueHasAComment /\ ~collecting)
    /\ UNCHANGED bom

OurThrow == Throw /\ Unmarked

\* skipCommentTokens, and the other loops over comments, with addComment.
OurComment(token) ==
    /\ Comment(token, OurOnSameLine(token))
    /\ lastValueHasAComment' = (lastValueHasAComment \/ (collecting /\ OurOnSameLine(token)))
    /\ UNCHANGED bom

OurReadScalar(token) == ReadScalar(token, OurDenoted(token)) /\ Completed

OurOpen(token) == Open(token) /\ Unmarked

OurReadDroppedNull(token) == ReadDroppedNull(token) /\ Completed

OurNotAValue(token) == NotAValue(token) /\ Unmarked

CompletedIf(closed) == IF closed THEN Completed ELSE Unmarked

\* A name that the object has, where that is an error.
IsDup(token, name) ==
    /\ features.rejectDupKeys /\ IsName(token) /\ name.ok
    /\ Append(node, name.val) \in DOMAIN root

\* readObject, a name.
OurReadName(token, name) ==
    IF pc = "name" /\ IsDup(token, name)
    THEN Fail(token, "Duplicate key", NoLocation) /\ UNCHANGED input /\ Unmarked
    ELSE /\ ReadName(token, name, OurMayEndAtName)
         /\ CompletedIf(token.type = "ObjectEnd" /\ OurMayEndAtName)

OurReadColon(token) ==
    /\ ReadColon(token, OurOnSameLine(token))
    /\ lastValueHasAComment' =
           (lastValueHasAComment
            \/ (token.type = "Comment" /\ collecting /\ OurOnSameLine(token)))
    /\ UNCHANGED bom

OurReadComma(token) == ReadComma(token) /\ CompletedIf(token.type = "ObjectEnd")

\* readArray, before each element.
OurReadElement ==
    /\ ReadElement(OurMayEndAtElement)
    /\ CompletedIf(Len(frames') < Len(frames))

OurReadNext(token) == ReadNext(token) /\ CompletedIf(token.type = "ArrayEnd")

OurRecover(token) == Recover(token) /\ CompletedIf(token.type \in {SkipUntil, "EndOfStream"})

\* parse, behind its call of readValue: failIfExtra returns before the comments
\* are kept.  The error of strictRoot begins at beginDoc, before a mark.
OurFinish(token) ==
    /\ Unmarked
    /\ IF pc = "finish" /\ features.failIfExtra /\ token.type \notin {"Comment", "EndOfStream"}
       THEN /\ addError("Extra non-whitespace after JSON value", token, NoLocation)
            /\ ok' = FALSE /\ pc' = "done" /\ current' = token.end
            /\ UNCHANGED <<input, node, frames, root, notes>>
       ELSE Finish(token, -bom)

\* CharReader has no pushError: an application cannot add errors of its own.
OurStep ==
    \/ OurThrow \/ OurReadElement
    \/ \E token \in {OurReadToken(document, current)} :
           \/ OurComment(token) \/ OurReadScalar(token) \/ OurOpen(token)
           \/ OurReadDroppedNull(token) \/ OurNotAValue(token)
           \/ OurReadName(token, OurNameOf(token)) \/ OurReadColon(token) \/ OurReadComma(token)
           \/ OurReadNext(token) \/ OurRecover(token) \/ OurFinish(token)

OurNext ==
    \/ MayParse /\ \E doc \in Documents[parses + 1], collectComments \in BOOLEAN : OurParse(doc, collectComments)
    \/ OurStep

OurSpec == OurInit /\ [][OurNext]_ourVars /\ WF_ourVars(OurStep)
=============================================================================
