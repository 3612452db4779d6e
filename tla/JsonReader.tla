------------------------------ MODULE JsonReader ------------------------------
(***************************************************************************)
(* Json::Reader: parse, one token at a time.  The calls of readValue,      *)
(* readObject and readArray under way are the stack "frames" and the point *)
(* "pc" that the innermost one has reached.                                *)
(*                                                                         *)
(* Json::OurReader is a copy with more features.  What it decides          *)
(* otherwise is a parameter of the action: the token that is read, whether *)
(* a comment belongs to the value before it, what a token denotes, and     *)
(* whether a container may end here.                                       *)
(***************************************************************************)
EXTENDS FiniteSets, JsonScan, JsonTree
LOCAL INSTANCE SequencesExt
LOCAL INSTANCE FiniteSetsExt

CONSTANTS
    Documents,      \* the texts for each parse with one Reader, a sequence of sets
    Features,       \* the settings a reader may have
    stackLimit_g,   \* 1000 in the code, a feature of OurReader
    MaxErrors       \* bound: errors, when an application adds its own

ASSUME JsonReaderAssumption ==
    /\ Documents \in Seq(SUBSET Seq(Byte))
    /\ \A f \in Features : \A name \in {"allowComments", "strictRoot",
           "allowDroppedNullPlaceholders", "allowNumericKeys"} : f[name] \in BOOLEAN
    /\ stackLimit_g \in Nat /\ MaxErrors \in Nat

VARIABLES
    features,       \* features_
    document,       \* begin_ to end_
    collecting,     \* collectComments_
    current,        \* current_
    root,           \* the Value that parse() was given
    node,           \* the top of nodes_, and with it all of nodes_
    frames,         \* the containers being read: which, the name, the index
    pc,             \* what is read next
    ok,             \* successful
    errors,         \* errors_
    commentsBefore, \* commentsBefore_
    lastValue,      \* lastValue_ and
    lastValueEnd,   \* lastValueEnd_
    parses          \* how often parse() was called

input == <<features, document, collecting, parses>>
place == <<node, frames, pc, ok>>
notes == <<commentsBefore, lastValue, lastValueEnd>>
vars == <<input, current, root, place, errors, notes>>

Points == {"idle", "value", "element", "name", "colon", "comma", "commented", "next",
           "recover", "finish", "done", "thrown"}

Init ==
    /\ features \in Features
    /\ document = <<>> /\ collecting = FALSE /\ current = 0
    /\ root = Leaf("null", <<>>) /\ node = <<>> /\ frames = <<>>
    /\ pc = "idle" /\ ok = FALSE /\ errors = <<>>
    /\ commentsBefore = <<>> /\ lastValue = <<>> /\ lastValueEnd = NoLocation
    /\ parses = 0

MayParse == pc \in {"idle", "done", "thrown"} /\ parses < Len(Documents)

\* parse, up to its call of readValue.  lastValue_ is null with lastValueEnd_.
Parse(doc, collectComments) ==
    /\ parses' = parses + 1
    /\ document' = doc /\ current' = 0
    /\ collecting' = (collectComments /\ features.allowComments)
    /\ root' = Leaf("null", <<>>) /\ node' = <<>> /\ frames' = <<>>
    /\ errors' = <<>> /\ commentsBefore' = <<>>
    /\ lastValue' = <<>> /\ lastValueEnd' = NoLocation
    /\ pc' = "value" /\ ok' = FALSE
    /\ UNCHANGED features

-----------------------------------------------------------------------------
\* Mutant: the Value at the top is not counted.
DeepLate == Len(node) > stackLimit_g

\* A token is read in each of these points; in "value" not before the check of
\* the depth.
Deep == Len(node) + 1 > stackLimit_g

Reading ==
    /\ pc \in Points \ {"idle", "element", "done", "thrown"}
    /\ ~(pc = "value" /\ Deep)

\* nodes_.size() > stackLimit_g: the exception leaves the Reader as it is.
Throw ==
    /\ pc = "value" /\ Deep
    /\ pc' = "thrown" /\ ok' = FALSE
    /\ UNCHANGED <<input, current, root, node, frames, errors, notes>>

Inner == frames[Len(frames)]

\* The readValue for the Value at the top of nodes_ returns, and outer are the
\* containers that are still being read.
Return(outer, successful) ==
    /\ frames' = outer
    /\ node' = IF outer = <<>> THEN <<>> ELSE Front(node)
    /\ ok' = successful
    /\ pc' = CASE outer = <<>> -> "finish"
               [] outer # <<>> /\ ~successful -> "recover"
               [] outer # <<>> /\ successful ->
                      IF Last(outer).type = "object" THEN "comma" ELSE "next"

Stay(point) == pc' = point /\ UNCHANGED <<node, frames, ok>>

SetLast(end) ==
    IF collecting
    THEN lastValue' = node /\ lastValueEnd' = end
    ELSE UNCHANGED <<lastValue, lastValueEnd>>

\* Mutant: a container is not noted as the last value.
CloseUnnoted(successful, end) ==
    /\ current' = end
    /\ root' = [root EXCEPT ![node].limit = end]
    /\ Return(Front(frames), successful)
    /\ UNCHANGED notes

\* readObject or readArray returns, and the rest of the readValue it is part of.
Close(successful, end) ==
    /\ current' = end
    /\ root' = [root EXCEPT ![node].limit = end]
    /\ SetLast(end)
    /\ Return(Front(frames), successful)
    /\ UNCHANGED commentsBefore

addError(message, tok, extra) ==
    errors' = Append(errors, [message |-> message, start |-> tok.start, end |-> tok.end,
                              extra |-> extra])

\* addErrorAndRecover, in a container.
Fail(token, message, extra) ==
    /\ addError(message, token, extra)
    /\ current' = token.end
    /\ Stay("recover")
    /\ UNCHANGED <<root, notes>>

-----------------------------------------------------------------------------
(***************************************************************************)
(* Comments.                                                               *)
(***************************************************************************)
OnSameLine(tok) ==
    /\ lastValueEnd # NoLocation
    /\ ~containsNewLine(Slice(document, lastValueEnd, tok.start))
    /\ \/ HasAt(document, tok.start + 1, C("/"))
       \/ ~containsNewLine(Slice(document, tok.start, tok.end))

\* What reading a comment does besides: addComment.
AddComment(tok, onSameLine) ==
    LET text == normalizeEOL(Slice(document, tok.start, tok.end))
    IN  CASE collecting /\ onSameLine ->
                 /\ root' = setComment(root, lastValue, text, AfterOnSameLine)
                 /\ UNCHANGED commentsBefore
          [] collecting /\ ~onSameLine ->
                 /\ commentsBefore' = commentsBefore \o text
                 /\ UNCHANGED root
          [] OTHER -> UNCHANGED <<root, commentsBefore>>

\* A comment where the code reads on behind it: skipCommentTokens, and the
\* loops of readObject, readArray and recoverFromError.
Comment(token, onSameLine) ==
    /\ Reading /\ token.type = "Comment"
    /\ pc \in {"value", "finish"} => features.allowComments
    /\ pc # "colon"
    /\ AddComment(token, onSameLine)
    /\ current' = token.end
    /\ Stay(IF pc = "comma" THEN "commented" ELSE pc)
    /\ UNCHANGED <<input, errors, lastValue, lastValueEnd>>

\* The Value being read with the comments before it.
Commented ==
    IF collecting /\ commentsBefore # <<>>
    THEN setComment(root, node, commentsBefore, Before)
    ELSE root

-----------------------------------------------------------------------------
(***************************************************************************)
(* readValue, behind the comments.                                         *)
(***************************************************************************)
AtValue(token) == pc = "value" /\ Reading /\ (features.allowComments => token.type # "Comment")

\* What a token of a scalar denotes.
Scalars == {"Number", "String", "True", "False", "Null", "NaN", "PosInf", "NegInf"}

Denoted(tok) ==
    CASE tok.type = "Number" -> decodeNumber(document, tok)
      [] tok.type = "String" -> decodeString(document, tok)
      [] tok.type = "Null" -> Decoded("null", <<>>)
      [] OTHER -> Decoded("boolean", <<IF tok.type = "True" THEN 1 ELSE 0>>)

\* Mutant: without the offsets.
BecomeUnplaced(type, val, start, limit) == root' = swapPayload(Commented, node, type, val)

\* The Value being read becomes a scalar, found between two locations.
Become(type, val, start, limit) ==
    root' = setOffsets(swapPayload(Commented, node, type, val), node, start, limit)

ReadScalar(token, value) ==
    /\ AtValue(token) /\ token.type \in Scalars
    /\ IF value.ok
       THEN /\ Become(value.type, value.val, token.start, token.end)
            /\ UNCHANGED errors
       ELSE /\ root' = Commented
            /\ addError(value.message, token, value.extra)
    /\ Return(frames, value.ok)
    /\ SetLast(token.end)
    /\ current' = token.end /\ commentsBefore' = <<>>
    /\ UNCHANGED input

\* readObject and readArray, up to their loops.
Open(token) ==
    /\ AtValue(token) /\ token.type \in {"ObjectBegin", "ArrayBegin"}
    /\ LET type == IF token.type = "ObjectBegin" THEN "object" ELSE "array"
       IN  /\ root' = [swapPayload(Commented, node, type, <<>>)
                           EXCEPT ![node].start = token.start]
           /\ frames' = Append(frames, [type |-> type, name |-> <<>>, index |-> 0])
           /\ pc' = IF type = "object" THEN "name" ELSE "element"
    /\ current' = token.end /\ commentsBefore' = <<>>
    /\ UNCHANGED <<input, node, ok, errors, lastValue, lastValueEnd>>

\* Mutant: the end of the text as well leaves out a null.
EndsOpen == {"ArraySeparator", "ObjectEnd", "ArrayEnd", "EndOfStream"}

Ends == {"ArraySeparator", "ObjectEnd", "ArrayEnd"}

\* "Un-read" the token: a null where nothing is.
ReadDroppedNull(token) ==
    /\ AtValue(token) /\ token.type \in Ends /\ features.allowDroppedNullPlaceholders
    /\ current' = token.end - 1
    /\ Become("null", <<>>, current' - 1, current')
    /\ SetLast(current') /\ commentsBefore' = <<>>
    /\ Return(frames, TRUE)
    /\ UNCHANGED <<input, errors>>

NotAValue(token) ==
    /\ AtValue(token)
    /\ token.type \notin Scalars \cup {"ObjectBegin", "ArrayBegin"}
    /\ ~(token.type \in Ends /\ features.allowDroppedNullPlaceholders)
    /\ root' = setOffsets(Commented, node, token.start, token.end)
    /\ addError("value, object or array expected", token, NoLocation)
    /\ current' = token.end /\ commentsBefore' = <<>>
    /\ Return(frames, FALSE)
    /\ UNCHANGED <<input, lastValue, lastValueEnd>>

-----------------------------------------------------------------------------
(***************************************************************************)
(* readObject.                                                             *)
(***************************************************************************)

NumberName(number) ==
    IF number.ok THEN Decoded("string", asString(number.type, number.val)) ELSE number

\* The name of a member, a string or a number in a string's place.
NameOf(tok) ==
    IF tok.type = "String"
    THEN decodeString(document, tok)
    ELSE NumberName(decodeNumber(document, tok))

IsName(tok) == tok.type = "String" \/ (tok.type = "Number" /\ features.allowNumericKeys)

\* "}" ends the object when there is no member yet: when no name has been read,
\* or the last one was empty.
MayEndAtName == Inner.name = <<>>

ReadName(token, name, mayEnd) ==
    /\ pc = "name" /\ token.type # "Comment"
    /\ CASE token.type = "ObjectEnd" /\ mayEnd ->
                /\ Close(TRUE, token.end)
                /\ UNCHANGED errors
         [] IsName(token) ->
                IF name.ok
                THEN /\ frames' = [frames EXCEPT ![Len(frames)].name = name.val]
                     /\ pc' = "colon" /\ current' = token.end
                     /\ UNCHANGED <<node, ok, errors, root, notes>>
                ELSE Fail(token, name.message, name.extra)
         [] OTHER -> Fail(token, "Missing '}' or object member name", NoLocation)
    /\ UNCHANGED input

\* The colon, and nodes_.push() of the member.
ReadColon(token, onSameLine) ==
    /\ pc = "colon"
    /\ current' = token.end
    /\ IF token.type = "MemberSeparator"
       THEN /\ root' = resolveReference(root, node, Inner.name)
            /\ node' = Append(node, Inner.name)
            /\ pc' = "value"
            /\ UNCHANGED <<frames, ok, errors, commentsBefore>>
       ELSE /\ addError("Missing ':' after object member name", token, NoLocation)
            /\ Stay("recover")
            /\ IF token.type = "Comment"
               THEN AddComment(token, onSameLine)
               ELSE UNCHANGED <<root, commentsBefore>>
    /\ UNCHANGED <<input, lastValue, lastValueEnd>>

\* Behind a member.  After a comment any token passes for a comma.
ReadComma(token) ==
    /\ pc \in {"comma", "commented"} /\ token.type # "Comment"
    /\ CASE token.type = "ObjectEnd" -> Close(TRUE, token.end) /\ UNCHANGED errors
         [] token.type = "ArraySeparator" \/ (pc = "commented" /\ token.type # "ObjectEnd") ->
                /\ current' = token.end
                /\ Stay("name")
                /\ UNCHANGED <<root, errors, notes>>
         [] OTHER -> Fail(token, "Missing ',' or '}' in object declaration", NoLocation)
    /\ UNCHANGED input

-----------------------------------------------------------------------------
(***************************************************************************)
(* readArray.                                                              *)
(***************************************************************************)
\* Mutant: as if an array could end behind a comma.
MayEndAtComma == TRUE

MayEndAtElement == Inner.index = 0

\* The end of an empty array, or nodes_.push() of the next element.
ReadElement(mayEnd) ==
    /\ pc = "element"
    /\ LET at == skipSpaces(document, current)
       IN  IF HasAt(document, at, C("]")) /\ mayEnd
           THEN Close(TRUE, at + 1)
           ELSE /\ current' = at
                /\ root' = resolveReference(root, node, Index(Inner.index))
                /\ node' = Append(node, Index(Inner.index))
                /\ frames' = [frames EXCEPT ![Len(frames)].index = @ + 1]
                /\ pc' = "value"
                /\ UNCHANGED <<ok, notes>>
    /\ UNCHANGED <<input, errors>>

ReadNext(token) ==
    /\ pc = "next" /\ token.type # "Comment"
    /\ CASE token.type = "ArrayEnd" -> Close(TRUE, token.end) /\ UNCHANGED errors
         [] token.type = "ArraySeparator" ->
                /\ current' = token.end
                /\ Stay("element")
                /\ UNCHANGED <<root, errors, notes>>
         [] OTHER -> Fail(token, "Missing ',' or ']' in array declaration", NoLocation)
    /\ UNCHANGED input

-----------------------------------------------------------------------------
SkipUntil == IF Inner.type = "object" THEN "ObjectEnd" ELSE "ArrayEnd"

\* recoverFromError, one token of its loop; errors it discards there are none,
\* for readToken adds none.
Recover(token) ==
    /\ pc = "recover" /\ token.type # "Comment"
    /\ IF token.type \in {SkipUntil, "EndOfStream"}
       THEN Close(FALSE, token.end)
       ELSE /\ current' = token.end
            /\ Stay("recover")
            /\ UNCHANGED <<root, notes>>
    /\ UNCHANGED <<input, errors>>

\* Mutant: strictRoot fails without an error.
FinishSilently(token, begin) ==
    /\ pc = "finish" /\ (features.allowComments => token.type # "Comment")
    /\ ok' = (ok /\ ~(features.strictRoot /\ root[<<>>].type \notin Containers))
    /\ current' = token.end
    /\ pc' = "done"
    /\ UNCHANGED <<input, node, frames, root, errors, notes>>

\* parse, behind its call of readValue.  begin is the location of beginDoc.
Finish(token, begin) ==
    /\ pc = "finish" /\ (features.allowComments => token.type # "Comment")
    /\ LET whole    == Token("Error", begin, Len(document))
           rootFail == features.strictRoot /\ root[<<>>].type \notin Containers
       IN  /\ root' = IF collecting /\ commentsBefore # <<>>
                      THEN setComment(root, <<>>, commentsBefore, After)
                      ELSE root
           /\ ok' = (ok /\ ~rootFail)
           /\ IF rootFail
              THEN addError("must be either an array or an object", whole, NoLocation)
              ELSE UNCHANGED errors
    /\ current' = token.end
    /\ pc' = "done"
    /\ UNCHANGED <<input, node, frames, notes>>

\* good
good == errors = <<>>

\* Mutant: "\r\n" ends two lines.
LineAndColumnTwice(location) ==
    LET ends == {p \in 1 .. Len(document) : p <= location /\ document[p] \in {CR, LF}}
    IN  [line |-> 1 + Cardinality(ends),
         column |-> location - Max({0} \cup ends) + 1]

\* getLocationLineAndColumn: "\r\n" ends a line, and so do "\r" and "\n".
getLocationLineAndColumn(location) ==
    LET \* the lines that end between p and the location, and where the last begins
        behind[p \in 0 .. Len(document)] ==
            IF p >= location \/ p = Len(document)
            THEN [lines |-> 0, start |-> NoLocation]
            ELSE LET next == IF HasAt(document, p, CR) /\ HasAt(document, p + 1, LF) THEN p + 2 ELSE p + 1
                     rest == behind[next]
                 IN  IF document[p + 1] \notin {CR, LF}
                     THEN rest
                     ELSE [lines |-> rest.lines + 1,
                           start |-> IF rest.start = NoLocation THEN next ELSE rest.start]
        found == behind[0]
    IN  [line |-> found.lines + 1,
         column |-> location - (IF found.start = NoLocation THEN 0 ELSE found.start) + 1]

\* getFormattedErrorMessages, without its wording.
getFormattedErrorMessages ==
    [i \in DOMAIN errors |->
        [at |-> getLocationLineAndColumn(errors[i].start),
         message |-> errors[i].message,
         see |-> IF errors[i].extra = NoLocation
                 THEN <<>>
                 ELSE <<getLocationLineAndColumn(errors[i].extra)>>]]

\* pushError, of an application that finds a fault with a Value it was given:
\* with another Value, or without.
pushError(path, extra) ==
    /\ pc = "done" /\ Len(errors) < MaxErrors
    /\ root[path].start <= Len(document)
    /\ \A p \in {path} \cup extra : root[p].limit <= Len(document)
    /\ addError("pushed", Token("Error", root[path].start, root[path].limit),
                IF extra = {} THEN NoLocation ELSE root[CHOOSE p \in extra : TRUE].start)
    /\ UNCHANGED <<input, current, root, place, notes>>

-----------------------------------------------------------------------------
Step ==
    \/ Throw
    \/ ReadElement(MayEndAtElement)
    \/ \E token \in {readToken(document, current)} :
           \/ Comment(token, OnSameLine(token))
           \/ ReadScalar(token, Denoted(token))
           \/ Open(token) \/ ReadDroppedNull(token) \/ NotAValue(token)
           \/ ReadName(token, NameOf(token), MayEndAtName)
           \/ ReadColon(token, OnSameLine(token))
           \/ ReadComma(token) \/ ReadNext(token) \/ Recover(token) \/ Finish(token, 0)

Next ==
    \/ MayParse /\ \E doc \in Documents[parses + 1], collectComments \in BOOLEAN : Parse(doc, collectComments)
    \/ Step
    \/ \E path \in DOMAIN root, extra \in {{}, {<<>>}} : pushError(path, extra)

\* parse() is a function that runs until it returns.
Spec == Init /\ [][Next]_vars /\ WF_vars(Step)

-----------------------------------------------------------------------------
\* lastValue_ points into the tree that is being built: a comment on the line
\* of a value is put on a Value that still exists, also when a repeated name
\* has replaced one that was read before.
LastValueLives == lastValueEnd # NoLocation => lastValue \in DOMAIN root

\* No more readValue calls are under way than the limit allows, and for each
\* container being read there is a Value on nodes_.
DepthBounded ==
    /\ Len(frames) <= stackLimit_g
    /\ Len(node) = IF pc \in {"value", "idle", "finish", "done", "thrown"}
                   THEN Len(frames) ELSE Len(frames) - 1

\* parse() succeeds just when it leaves no error: good() tells what it returned.
FailureExplained ==
    [][pc # "done" /\ pc' = "done" => (ok' <=> errors' = <<>>)]_vars

\* Between the two characters of "\r\n", where no line begins or ends.
SplitsLineEnd(location) ==
    location \in 1 .. Len(document) - 1 /\ document[location] = CR /\ document[location + 1] = LF

\* Where the code has no place in the text to point to: the error of strictRoot
\* begins at beginDoc, which is before a mark that was skipped, and the text of
\* a null that was left out is the character before it, if there is one.
Unplaced(error) ==
    \/ error.message = "must be either an array or an object" /\ error.start < 0
    \/ error.message = "pushed" /\ features.allowDroppedNullPlaceholders

\* An error is reported at the line and column of its token, where an editor
\* finds it: behind the end of one line, with no other between it and the error,
\* at a column from 1 on; and so is what else the message refers to, unless that
\* is behind a backslash in the middle of a line end.  Unplaced errors have no
\* such place, and nothing is said of what is reported for them.
ErrorPointsAtToken ==
    LET EndsLine(p) == document[p] = LF \/ (document[p] = CR /\ ~HasAt(document, p, LF))
        Begins(p, line) == /\ p = 0 \/ EndsLine(p)
                           /\ line - 1 = Cardinality({q \in 1 .. p : EndsLine(q)})
        PointsTo(location, at) ==
            \E p \in 0 .. location : /\ Begins(p, at.line) /\ location = p + at.column - 1
                                    /\ \A q \in p + 1 .. location : ~EndsLine(q)
    IN  \A i \in DOMAIN errors :
            LET message == getFormattedErrorMessages[i]
            IN  /\ errors[i].start <= errors[i].end /\ errors[i].end <= Len(document)
                /\ ~Unplaced(errors[i]) =>
                       /\ PointsTo(errors[i].start, message.at)
                       /\ message.see # <<>> /\ ~SplitsLineEnd(errors[i].extra) =>
                              /\ errors[i].extra <= Len(document)
                              /\ PointsTo(errors[i].extra, message.see[1])

\* parse() returns or throws, whatever it is given, and never reads on for ever:
\* each step takes a character, or leaves a container, or comes closer to that.
Rank == [element |-> 4, value |-> 3, name |-> 2, colon |-> 2, comma |-> 2, commented |-> 3,
         next |-> 2, recover |-> 1, finish |-> 0, done |-> -1, thrown |-> -1, idle |-> 4]

Advances ==
    [][pc \notin {"idle", "done", "thrown"} =>
           \/ current' > current
           \/ current' = current /\ Len(frames') < Len(frames)
           \/ current' = current /\ Len(frames') = Len(frames) /\ Rank[pc'] < Rank[pc]]_vars
=============================================================================
