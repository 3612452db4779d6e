----------------------------- MODULE JsonRoundTrip -----------------------------
(***************************************************************************)
(* A Value is written, the text is read, and what was read is written and  *)
(* read again: the writers together with the reader that a                 *)
(* CharReaderBuilder makes.                                                *)
(***************************************************************************)
EXTENDS JsonOurReader, JsonWriter
LOCAL INSTANCE SequencesExt
LOCAL INSTANCE FiniteSetsExt

CONSTANTS
    Trees,      \* the Values that are written first
    Styles      \* the writers

VARIABLES
    value,      \* what is written
    style       \* how

tripVars == <<ourVars, value, style>>

-----------------------------------------------------------------------------
(***************************************************************************)
(* The reader that a builder makes, and how it is called.                  *)
(***************************************************************************)
\* CharReaderBuilder::newCharReader; what is not set is FALSE.  The limit of the
\* stack is a constant here, and collecting comments a parameter of parse().
ReaderSwitches == {"allowComments", "allowTrailingCommas", "strictRoot",
                   "allowDroppedNullPlaceholders", "allowNumericKeys", "allowSingleQuotes",
                   "failIfExtra", "rejectDupKeys", "allowSpecialFloats", "skipBom"}

newCharReader(settings) == [key \in ReaderSwitches |-> Setting(settings, key, FALSE)]

\* CharReaderBuilder::validate: the keys it does not know.
InvalidReaderKeys(settings) ==
    DOMAIN settings \ (ReaderSwitches \cup {"collectComments", "stackLimit"})

\* CharReaderBuilder::setDefaults
ReaderDefaults ==
    [key \in ReaderSwitches \cup {"collectComments"} |->
        key \in {"collectComments", "allowComments", "allowTrailingCommas", "skipBom"}]

\* CharReaderBuilder::strictMode, of settings that are the defaults.
StrictMode ==
    [key \in DOMAIN ReaderDefaults |->
        key \in {"collectComments", "strictRoot", "failIfExtra", "rejectDupKeys", "skipBom"}]

\* parseFromStream, with OurCharReader::parse: all that the stream holds is read
\* into a string first.
ParseFromStream(text) == OurParse(text, TRUE)

-----------------------------------------------------------------------------
TextOf(tree) == IF style.kind = "fast" THEN FastWritten(style, tree) ELSE Written(style, tree)

TripInit ==
    /\ OurInit
    /\ value \in Trees
    /\ style \in Styles

\* What is written next: the Value, and then what was read.
Unwritten ==
    CASE pc = "idle" -> {value}
      [] pc = "done" /\ ok /\ parses = 1 -> {root}
      [] OTHER -> {}

\* writeString, and the reading of what it returned.
WriteAndRead(tree) ==
    /\ value' = tree
    /\ ParseFromStream(TextOf(tree))
    /\ UNCHANGED style

ReadOn == OurStep /\ UNCHANGED <<value, style>>

Finished == pc = "done" /\ (parses = 2 \/ ~ok) /\ UNCHANGED tripVars

TripNext ==
    \/ \E tree \in Unwritten : WriteAndRead(tree)
    \/ ReadOn
    \/ Finished

TripSpec == TripInit /\ [][TripNext]_tripVars

-----------------------------------------------------------------------------
(***************************************************************************)
(* What may be expected to come back.                                      *)
(***************************************************************************)
\* A string that the writer does not repair.
IsUTF8(bytes) ==
    bytes # <<>> /\ bytes[1] # -1 =>
    LET from[at \in 1 .. Len(bytes) + 4] ==
            at > Len(bytes)
            \/ LET point == utf8ToCodepoint(bytes, at)
               IN  /\ Slice(bytes, at - 1, at - 1 + point[2]) = codePointToUTF8(point[1])
                   /\ from[at + point[2]]
    IN  from[1]

\* Where an array has a hole, a null.
Filled(tree) ==
    LET arrays == {p \in DOMAIN tree : tree[p].type = "array"}
        paths  == DOMAIN tree \cup UNION {{Append(p, Index(i)) : i \in 0 .. size(tree, p) - 1} : p \in arrays}
    IN  [p \in paths |-> IF p \in DOMAIN tree THEN tree[p] ELSE Null]

\* An integer comes back as an int if it fits, and NaN as a null.
Came(v) ==
    CASE v.type \in {"int", "uint"} -> <<IF v.val[1] <= maxLargestInt THEN "int" ELSE "uint", v.val>>
      [] v.type = "real" /\ v.val = NaN /\ ~style.useSpecialFloats -> <<"null", <<>>>>
      [] OTHER -> <<v.type, v.val>>

\* A writer and a reader whose settings fit together.
Matched ==
    /\ style.useSpecialFloats => features.allowSpecialFloats
    /\ style.nullSymbol = <<>> => features.allowDroppedNullPlaceholders
    /\ style.kind # "fast" /\ style.comments => features.allowComments
    /\ features.strictRoot => value[<<>>].type \in Containers

\* What a text can tell: the strings are UTF-8 or passed through, a null that is
\* written as nothing is not alone, and a comment to the end of the line has a
\* line to end.
LineComment(text) == IsPrefix(Text(<<"/", "/">>), text)

Tellable ==
    /\ \A p \in DOMAIN value : \A i \in DOMAIN p :
           /\ style.emitUTF8 \/ IsUTF8(p[i])
           /\ style.kind \in {"styled", "stream"} => 0 \notin ToSet(p[i])
    /\ \A p \in DOMAIN value :
           /\ value[p].type = "string" /\ ~style.emitUTF8 => IsUTF8(value[p].val)
           /\ \A slot \in {Before, AfterOnSameLine, After} :
                  LineComment(value[p].comments[slot]) =>
                      style.kind = "fast" \/ ~style.comments \/ style.indentation # <<>>
    /\ style.nullSymbol = <<>> =>
           \A p \in DOMAIN value :
               Came(value[p])[1] = "null" =>
                   /\ value[p].type = "null" /\ p # <<>>
                   /\ Cardinality(Children(value, Front(p))) > 1 \/ value[Front(p)].type = "object"

\* What was written is read without an error and is the same Value, whatever the
\* layout, the escapes and the comments do to the text.
ReadsBack ==
    pc = "done" /\ Matched /\ Tellable =>
        ok /\ [p \in DOMAIN root |-> <<root[p].type, root[p].val>>]
                  = [p \in DOMAIN Filled(value) |-> Came(Filled(value)[p])]

\* Comments are written, and there are lines for them.
LaidOut == style.kind # "fast" /\ style.comments /\ style.indentation # <<>>

\* Each comment comes back in the slot of the Value that it was written for:
\* the reader's rule of what stands on the line of a value meets the writers'
\* commas and new lines.  Comments after a Value are those of the root here.
CommentsReadBack ==
    pc = "done" /\ Matched /\ Tellable /\ LaidOut =>
        \A p \in DOMAIN root : root[p].comments = Filled(value)[p].comments
=============================================================================
