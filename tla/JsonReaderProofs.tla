--------------------------- MODULE JsonReaderProofs ---------------------------
(***************************************************************************)
(* Proofs about both readers, for every text, setting and limit.  What the *)
(* tokens of a text denote plays no part in them; where tokens begin and   *)
(* end does in the last two: that each step reads on, and that the errors  *)
(* point at what they are about.  For those the line and the column of a   *)
(* location are its own, and each error is about a part of the text, which *)
(* needs the offsets of the Values that an application may complain about, *)
(* and where the decoding of a string finds a fault.                       *)
(***************************************************************************)
EXTENDS JsonOurReader, SequenceTheorems, Induction
LOCAL INSTANCE SequencesExt
LOCAL INSTANCE FiniteSetsExt

\* nodes_, lastValue_ and the calls under way are sequences of whatever the
\* text has for names.
IsSeq(s) == \E S : s \in Seq(S)

\* A Value on nodes_: it is in the tree with all that contain it.
IsPath(s, tree) == \A n \in 0 .. Len(s) : SubSeq(s, 1, n) \in DOMAIN tree

Settled == {"value", "idle", "finish", "done", "thrown"}

\* Which call of readValue the Value on top of nodes_ belongs to.
Level(point, calls) == IF point \in Settled THEN calls ELSE calls - 1

\* How much longer than nodes_ the path of lastValue_ may be.
Slack(point) == IF point = "value" THEN 0 ELSE 1

\* The inductive invariant: with each Value on nodes_ those that contain it are
\* in the tree, and lastValue_ lies in what the Value being read does not
\* replace.
Walk ==
    /\ IsSeq(node) /\ IsSeq(frames) /\ IsSeq(lastValue)
    /\ Len(frames) <= stackLimit_g
    /\ Len(node) = Level(pc, Len(frames))
    /\ IsPath(node, root)
    /\ lastValue \in DOMAIN root
    /\ Len(lastValue) <= Len(node) + Slack(pc)
    /\ ~collecting => lastValue = <<>>

-----------------------------------------------------------------------------
(***************************************************************************)
(* Sequences and trees.                                                    *)
(***************************************************************************)

LEMMA Whole ==
  ASSUME NEW s, IsSeq(s)
  PROVE  Len(s) \in Nat /\ SubSeq(s, 1, Len(s)) = s /\ (Len(s) = 0 <=> s = <<>>)
BY LenProperties, SubSeqFull, EmptySeq DEF IsSeq

\* A prefix of a sequence.
LEMMA PrefixOf ==
  ASSUME NEW S, NEW s \in Seq(S), NEW n \in 0 .. Len(s)
  PROVE  /\ SubSeq(s, 1, n) \in Seq(S) /\ Len(SubSeq(s, 1, n)) = n
         /\ \A i \in 1 .. n : SubSeq(s, 1, n)[i] = s[i]
<1>1. Len(s) \in Nat
  BY LenProperties
<1>2. \A i \in 1 .. n : s[i] \in S
  BY <1>1, ElementOfSeq
<1>3. 1 \in Int /\ n \in Int /\ (IF 1 <= n THEN n - 1 + 1 ELSE 0) = n
  BY <1>1
<1> QED BY <1>2, <1>3, SubSeqProperties

\* Two sequences that begin alike.
LEMMA SamePrefix ==
  ASSUME NEW S, NEW s \in Seq(S), NEW t \in Seq(S), NEW n \in 0 .. Len(s), n <= Len(t),
         \A i \in 1 .. n : t[i] = s[i]
  PROVE  SubSeq(t, 1, n) = SubSeq(s, 1, n)
<1>1. n \in 0 .. Len(t)
  BY LenProperties
<1>2. /\ SubSeq(s, 1, n) \in Seq(S) /\ Len(SubSeq(s, 1, n)) = n
      /\ \A i \in 1 .. n : SubSeq(s, 1, n)[i] = s[i]
  BY PrefixOf
<1>3. /\ SubSeq(t, 1, n) \in Seq(S) /\ Len(SubSeq(t, 1, n)) = n
      /\ \A i \in 1 .. n : SubSeq(t, 1, n)[i] = t[i]
  BY <1>1, PrefixOf
<1> QED BY <1>2, <1>3, SeqEqual

\* The front of a sequence: one shorter, with the same prefixes.
LEMMA FrontOf ==
  ASSUME NEW s, IsSeq(s), s # <<>>
  PROVE  /\ IsSeq(Front(s)) /\ Len(s) \in Nat /\ Len(s) > 0
         /\ Len(Front(s)) = Len(s) - 1
         /\ \A n \in 0 .. Len(s) - 1 : SubSeq(Front(s), 1, n) = SubSeq(s, 1, n)
         /\ \A tree : IsPath(s, tree) => IsPath(Front(s), tree)
<1>1. PICK S : s \in Seq(S)
  BY DEF IsSeq
<1>2. Len(s) \in Nat /\ Len(s) > 0
  BY <1>1, LenProperties, EmptySeq
<1> DEFINE t == Front(s)
<1>3. t = SubSeq(s, 1, Len(s) - 1) /\ Len(s) - 1 \in 0 .. Len(s)
  BY <1>2 DEF Front
<1>4. t \in Seq(S) /\ Len(t) = Len(s) - 1 /\ \A i \in 1 .. Len(s) - 1 : t[i] = s[i]
  BY <1>1, <1>3, PrefixOf
<1> HIDE DEF t
<1>5. ASSUME NEW n \in 0 .. Len(s) - 1
      PROVE  SubSeq(t, 1, n) = SubSeq(s, 1, n)
  <2>1. n \in 0 .. Len(s) /\ n <= Len(t) /\ \A i \in 1 .. n : i \in 1 .. Len(s) - 1
    BY <1>2, <1>4
  <2>2. \A i \in 1 .. n : t[i] = s[i]
    BY <1>4, <2>1
  <2> QED BY <1>1, <1>4, <2>1, <2>2, SamePrefix
<1>6. ASSUME NEW tree, IsPath(s, tree)
      PROVE  IsPath(t, tree)
  <2>1. \A n \in 0 .. Len(s) - 1 : n \in 0 .. Len(s)
    BY <1>2
  <2> QED BY <1>4, <1>5, <1>6, <2>1 DEF IsPath
<1>7. IsSeq(t)
  BY <1>4 DEF IsSeq
<1> QED BY <1>2, <1>4, <1>5, <1>6, <1>7 DEF t

\* A sequence with one more element: the same prefixes, and itself.
LEMMA AppendTo ==
  ASSUME NEW s, NEW e, IsSeq(s)
  PROVE  /\ IsSeq(Append(s, e)) /\ Len(s) \in Nat
         /\ Len(Append(s, e)) = Len(s) + 1
         /\ \A n \in 0 .. Len(s) : SubSeq(Append(s, e), 1, n) = SubSeq(s, 1, n)
         /\ \A tree, more : IsPath(s, tree) /\ DOMAIN more = DOMAIN tree \cup {Append(s, e)}
                                => IsPath(Append(s, e), more)
<1>1. PICK T : s \in Seq(T)
  BY DEF IsSeq
<1> DEFINE S == T \cup {e}
           t == Append(s, e)
<1>2. s \in Seq(S) /\ e \in S
  BY <1>1, SeqMonotonic
<1>3. Len(s) \in Nat
  BY <1>2, LenProperties
<1>4. /\ t \in Seq(S) /\ Len(t) = Len(s) + 1
      /\ \A i \in 1 .. Len(s) : t[i] = s[i]
  BY <1>2, AppendProperties
<1> HIDE DEF t, S
<1>5. ASSUME NEW n \in 0 .. Len(s)
      PROVE  SubSeq(t, 1, n) = SubSeq(s, 1, n)
  <2>1. n <= Len(t) /\ \A i \in 1 .. n : i \in 1 .. Len(s)
    BY <1>3, <1>4
  <2>2. \A i \in 1 .. n : t[i] = s[i]
    BY <1>4, <2>1
  <2> QED BY <1>2, <1>4, <2>1, <2>2, SamePrefix
<1>6. SubSeq(t, 1, Len(s) + 1) = t
  BY <1>4, SubSeqFull
<1>7. ASSUME NEW tree, NEW more, IsPath(s, tree), DOMAIN more = DOMAIN tree \cup {t}
      PROVE  IsPath(t, more)
  <2> SUFFICES ASSUME NEW n \in 0 .. Len(t)
               PROVE  SubSeq(t, 1, n) \in DOMAIN more
    BY DEF IsPath
  <2>1. n \in 0 .. Len(s) \/ n = Len(s) + 1
    BY <1>3, <1>4
  <2>2. CASE n \in 0 .. Len(s)
    BY <1>5, <1>7, <2>2 DEF IsPath
  <2>3. CASE n = Len(s) + 1
    BY <1>6, <1>7, <2>3
  <2> QED BY <2>1, <2>2, <2>3
<1>8. IsSeq(t)
  BY <1>4 DEF IsSeq
<1> QED BY <1>3, <1>4, <1>5, <1>7, <1>8 DEF t

\* The empty path is that of the root of every tree.
LEMMA EmptyPath ==
  /\ IsSeq(<<>>) /\ Len(<<>>) = 0
  /\ \A tree : <<>> \in DOMAIN tree => IsPath(<<>>, tree)
<1>1. <<>> \in Seq({}) /\ Len(<<>>) = 0
  BY EmptySeq
<1>2. \A n \in 0 .. 0 : n = 0
  OBVIOUS
<1>3. SubSeq(<<>>, 1, 0) = <<>>
  BY SubSeqEmpty
<1> QED BY <1>1, <1>2, <1>3 DEF IsSeq, IsPath

\* A sequence with another element in a place has the same length.
LEMMA ExceptOf ==
  ASSUME NEW s, IsSeq(s), NEW i \in 1 .. Len(s), NEW e
  PROVE  IsSeq([s EXCEPT ![i] = e]) /\ Len([s EXCEPT ![i] = e]) = Len(s)
<1>1. PICK T : s \in Seq(T)
  BY DEF IsSeq
<1>2. s \in Seq(T \cup {e})
  BY <1>1, SeqMonotonic
<1> QED BY <1>2, ExceptSeq DEF IsSeq

\* A path in two trees that have the same paths.
LEMMA SamePaths ==
  ASSUME NEW s, NEW tree, NEW other, IsPath(s, tree), DOMAIN other = DOMAIN tree
  PROVE  IsPath(s, other)
BY DEF IsPath

\* What is not longer than a path is not below it.
LEMMA NotBelow ==
  ASSUME NEW path, NEW p, IsSeq(path), IsSeq(p), Len(p) <= Len(path)
  PROVE  ~Below(path, p)
<1>1. /\ Len(path) \in Nat /\ SubSeq(path, 1, Len(path)) = path
      /\ Len(p) \in Nat /\ SubSeq(p, 1, Len(p)) = p
  BY Whole
<1> QED BY <1>1 DEF Below, IsStrictPrefix, IsPrefix

\* Which paths a tree has behind each of the calls that change it.
LEMMA SwapPaths ==
  \A tree, path, type, val :
      DOMAIN swapPayload(tree, path, type, val) = {q \in DOMAIN tree : ~Below(path, q)}
BY DEF swapPayload

LEMMA OffsetPaths ==
  \A tree, path, start, limit : DOMAIN setOffsets(tree, path, start, limit) = DOMAIN tree
BY DEF setOffsets

LEMMA CommentPaths ==
  \A tree, path, comment, placement :
      DOMAIN setComment(tree, path, comment, placement) = DOMAIN tree
BY DEF setComment

LEMMA ResolvePaths ==
  \A tree, path, key :
      DOMAIN resolveReference(tree, path, key) = DOMAIN tree \cup {Append(path, key)}
BY DEF resolveReference

-----------------------------------------------------------------------------
(***************************************************************************)
(* What the parts of the actions do to the invariant.                      *)
(***************************************************************************)

\* The names of the points.
LEMMA PointsOf ==
  ASSUME NEW point, point \in {"name", "colon", "comma", "commented", "next", "recover", "element"}
  PROVE  point \notin Settled /\ point # "value"
BY DEF Settled

\* How the stacks fit together.
LEMMA Stacks ==
  ASSUME Walk
  PROVE  /\ Len(node) \in Nat /\ Len(frames) \in Nat /\ Len(lastValue) \in Nat
         /\ pc \in Settled => Len(frames) = Len(node)
         /\ pc \notin Settled => Len(frames) = Len(node) + 1 /\ frames # <<>>
         /\ Len(node) <= stackLimit_g
         /\ Len(lastValue) <= Len(node) + 1
         /\ pc = "value" => pc \in Settled /\ Len(lastValue) <= Len(node)
<1>1. /\ Len(node) \in Nat /\ Len(frames) \in Nat /\ Len(lastValue) \in Nat
      /\ Len(frames) = 0 <=> frames = <<>>
  BY Whole DEF Walk
<1>2. /\ pc \in Settled => Len(node) = Len(frames)
      /\ pc \notin Settled => Len(node) = Len(frames) - 1
  BY DEF Walk, Level
<1>3. /\ Slack(pc) \in {0, 1} /\ (pc = "value" => Slack(pc) = 0 /\ pc \in Settled)
  BY DEF Slack, Settled
<1>4. Len(lastValue) <= Len(node) + Slack(pc) /\ Len(frames) <= stackLimit_g
  BY DEF Walk
<1> QED BY <1>1, <1>2, <1>3, <1>4, JsonReaderAssumption

\* A step that leaves the stacks and the paths alone, between two points where
\* the same container is read.
LEMMA StayKeeps ==
  ASSUME Walk, node' = node, collecting' = collecting, lastValue' = lastValue,
         IsSeq(frames'), Len(frames') = Len(frames),
         DOMAIN root' = DOMAIN root,
         \/ pc' = pc
         \/ pc \notin Settled /\ pc' \notin Settled
         \/ pc \in Settled \ {"value"} /\ pc' \in Settled \ {"value"}
         \/ pc = "value" /\ pc' = "thrown"
  PROVE  Walk'
<1>1. Len(node) \in Nat /\ Len(lastValue) \in Nat /\ Len(frames) \in Nat
  BY Whole DEF Walk
<1>2. Level(pc', Len(frames')) = Level(pc, Len(frames))
  BY DEF Level, Settled
<1>3. Slack(pc) \in 0 .. Slack(pc') /\ Slack(pc') \in Nat
  BY DEF Slack, Settled
<1>4. IsPath(node', root')
  BY SamePaths DEF Walk
<1>5. Len(lastValue') <= Len(node') + Slack(pc')
  BY <1>1, <1>3 DEF Walk
<1> QED BY <1>2, <1>4, <1>5 DEF Walk

\* The paths that stay when the Value on top of nodes_ gets another payload.
LEMMA SwapKeeps ==
  ASSUME Walk, Len(lastValue) <= Len(node), NEW tree, DOMAIN tree = {q \in DOMAIN root : ~Below(node, q)}
  PROVE  IsPath(node, tree) /\ lastValue \in DOMAIN tree
<1>1. Len(node) \in Nat /\ IsSeq(node) /\ IsSeq(lastValue)
  BY Whole DEF Walk
<1>2. ASSUME NEW n \in 0 .. Len(node)
      PROVE  SubSeq(node, 1, n) \in DOMAIN tree
  <2>1. PICK S : node \in Seq(S)
    BY <1>1 DEF IsSeq
  <2>2. SubSeq(node, 1, n) \in Seq(S) /\ Len(SubSeq(node, 1, n)) = n
    BY <2>1, PrefixOf
  <2>3. IsSeq(SubSeq(node, 1, n)) /\ Len(SubSeq(node, 1, n)) <= Len(node)
    BY <1>1, <2>2 DEF IsSeq
  <2>4. ~Below(node, SubSeq(node, 1, n))
    BY <1>1, <2>3, NotBelow
  <2>5. SubSeq(node, 1, n) \in DOMAIN root
    BY DEF Walk, IsPath
  <2> QED BY <2>4, <2>5
<1>3. ~Below(node, lastValue)
  BY <1>1, NotBelow
<1> QED BY <1>2, <1>3 DEF Walk, IsPath

\* The end of a readValue: the Value leaves nodes_, and may become lastValue_.
LEMMA ReturnKeeps ==
  ASSUME Walk, NEW outer, NEW successful, Return(outer, successful),
         collecting' = collecting,
         IsSeq(outer), Len(outer) = Len(node), Len(node) <= stackLimit_g,
         IsPath(node, root'),
         \/ collecting /\ lastValue' = node
         \/ lastValue' = lastValue /\ lastValue \in DOMAIN root' /\ Len(lastValue) <= Len(node)
  PROVE  Walk'
<1>1. /\ Len(node) \in Nat /\ Len(lastValue) \in Nat /\ IsSeq(node) /\ IsSeq(lastValue)
      /\ SubSeq(node, 1, Len(node)) = node /\ Len(node) \in 0 .. Len(node)
  BY Whole DEF Walk
<1>2. node \in DOMAIN root'
  BY <1>1 DEF IsPath
<1>3. /\ Len(lastValue') <= Len(node) /\ IsSeq(lastValue')
      /\ lastValue' \in DOMAIN root' /\ (~collecting' => lastValue' = <<>>)
  BY <1>1, <1>2 DEF Walk
<1>4. CASE outer = <<>>
  <2>1. node' = <<>> /\ frames' = <<>> /\ pc' = "finish"
    BY <1>4 DEF Return
  <2>2. Len(node) = 0 /\ node = <<>> /\ Len(<<>>) = 0
    BY <1>1, <1>4, Whole, EmptyPath
  <2>3. Level(pc', Len(frames')) = 0 /\ Slack(pc') = 1
    BY <2>1, <2>2 DEF Settled, Level, Slack
  <2>4. Len(lastValue') <= Len(node') + Slack(pc')
    BY <1>1, <1>3, <2>1, <2>2, <2>3
  <2> QED BY <1>3, <2>1, <2>2, <2>3, <2>4 DEF Walk
<1>5. CASE outer # <<>>
  <2>1. node # <<>> /\ Len(node) > 0
    BY <1>1, <1>5, Whole
  <2>2. node' = Front(node) /\ frames' = outer /\ pc' \in {"recover", "comma", "next"}
    BY <1>5 DEF Return
  <2>3. IsSeq(node') /\ Len(node') = Len(node) - 1 /\ IsPath(node', root')
    BY <1>1, <2>1, <2>2, FrontOf
  <2>4. Level(pc', Len(frames')) = Len(node') /\ Slack(pc') = 1
    BY <2>2, <2>3, PointsOf DEF Level, Slack
  <2>5. Len(lastValue') <= Len(node') + Slack(pc')
    BY <1>1, <1>3, <2>3, <2>4, Whole
  <2> QED BY <1>3, <2>2, <2>3, <2>4, <2>5 DEF Walk
<1> QED BY <1>4, <1>5

\* readObject and readArray return: the innermost container ends.
LEMMA CloseKeeps ==
  ASSUME Walk, pc \notin Settled, NEW successful, NEW end, Close(successful, end),
         collecting' = collecting
  PROVE  Walk'
<1>1. IsSeq(Front(frames)) /\ Len(Front(frames)) = Len(node)
  BY Stacks, FrontOf DEF Walk
<1>2. DOMAIN root' = DOMAIN root
  BY DEF Close
<1>3. IsPath(node, root')
  BY <1>2, SamePaths DEF Walk
<1>4. \/ collecting /\ lastValue' = node
      \/ lastValue' = lastValue /\ ~collecting
  BY DEF Close, SetLast
<1>5. ~collecting => lastValue \in DOMAIN root' /\ Len(lastValue) <= Len(node)
  BY <1>2, Stacks, EmptyPath DEF Walk
<1>6. Return(Front(frames), successful)
  BY DEF Close
<1> QED BY <1>1, <1>3, <1>4, <1>5, <1>6, Stacks, ReturnKeeps

\* A readValue for something that is no container returns.
LEMMA ScalarKeeps ==
  ASSUME Walk, pc = "value", NEW successful, Return(frames, successful),
         collecting' = collecting,
         \/ DOMAIN root' = DOMAIN root
         \/ DOMAIN root' = {q \in DOMAIN root : ~Below(node, q)},
         \/ collecting /\ lastValue' = node
         \/ lastValue' = lastValue
  PROVE  Walk'
<1>1. IsPath(node, root') /\ lastValue \in DOMAIN root'
  <2>1. CASE DOMAIN root' = DOMAIN root
    BY <2>1, SamePaths DEF Walk
  <2>2. CASE DOMAIN root' = {q \in DOMAIN root : ~Below(node, q)}
    BY <2>2, Stacks, SwapKeeps
  <2> QED BY <2>1, <2>2
<1>2. IsSeq(frames) /\ Len(frames) = Len(node) /\ Len(lastValue) <= Len(node)
      /\ Len(node) <= stackLimit_g
  BY Stacks DEF Walk
<1> QED BY <1>1, <1>2, ReturnKeeps

\* addErrorAndRecover.
LEMMA FailKeeps ==
  ASSUME Walk, pc \in {"name", "comma", "commented", "next"},
         NEW token, NEW message, NEW extra, Fail(token, message, extra),
         collecting' = collecting
  PROVE  Walk'
<1>1. pc \notin Settled /\ pc' = "recover" /\ pc' \notin Settled
  BY PointsOf DEF Fail, Stay
<1>2. node' = node /\ frames' = frames /\ root' = root /\ lastValue' = lastValue
  BY DEF Fail, Stay, notes
<1>3. IsSeq(frames)
  BY DEF Walk
<1> QED BY <1>1, <1>2, <1>3, StayKeeps

\* Reading on in the same container.
LEMMA ReadsOn ==
  ASSUME Walk, pc \notin Settled, NEW point, point \in {"name", "element", "recover"},
         Stay(point), collecting' = collecting, root' = root, lastValue' = lastValue
  PROVE  Walk'
<1>1. pc' \notin Settled
  BY PointsOf DEF Stay
<1>2. node' = node /\ frames' = frames /\ IsSeq(frames)
  BY DEF Stay, Walk
<1> QED BY <1>1, <1>2, StayKeeps

\* nodes_.push() of a member or an element, which is in the tree then.
LEMMA PushKeeps ==
  ASSUME Walk, pc \notin Settled, NEW key, root' = resolveReference(root, node, key),
         node' = Append(node, key), pc' = "value",
         collecting' = collecting, lastValue' = lastValue,
         IsSeq(frames'), Len(frames') = Len(frames)
  PROVE  Walk'
<1>1. DOMAIN root' = DOMAIN root \cup {node'}
  BY ResolvePaths
<1>2. IsSeq(node') /\ Len(node') = Len(node) + 1 /\ IsPath(node', root')
  BY <1>1, AppendTo DEF Walk
<1>3. Level(pc', Len(frames')) = Len(node') /\ Slack(pc') = 0
  BY <1>2, Stacks DEF Level, Slack, Settled
<1>4. Len(lastValue') <= Len(node') + Slack(pc')
  BY <1>2, <1>3, Stacks
<1> QED BY <1>1, <1>2, <1>3, <1>4 DEF Walk

\* addComment puts a comment on a Value, or keeps it.
LEMMA AddCommentKeeps ==
  ASSUME NEW token, NEW onSameLine, AddComment(token, onSameLine)
  PROVE  DOMAIN root' = DOMAIN root
<1>1. \/ root' = root
      \/ \E text : root' = setComment(root, lastValue, text, AfterOnSameLine)
  BY DEF AddComment
<1> QED BY <1>1, CommentPaths

LEMMA CommentedPaths == DOMAIN Commented = DOMAIN root
BY CommentPaths DEF Commented

\* The Value being read gets a payload, with the comments before it.
LEMMA BecomePaths ==
  ASSUME NEW type, NEW val
  PROVE  /\ DOMAIN swapPayload(Commented, node, type, val) = {q \in DOMAIN root : ~Below(node, q)}
         /\ \A start, limit :
                Become(type, val, start, limit)
                    => DOMAIN root' = {q \in DOMAIN root : ~Below(node, q)}
<1> DEFINE tree == swapPayload(Commented, node, type, val)
<1>1. DOMAIN tree = {q \in DOMAIN Commented : ~Below(node, q)}
  BY SwapPaths
<1>2. DOMAIN tree = {q \in DOMAIN root : ~Below(node, q)}
  BY <1>1, CommentedPaths
<1> HIDE DEF tree
<1>3. ASSUME NEW start, NEW limit, Become(type, val, start, limit)
      PROVE  DOMAIN root' = DOMAIN tree
  <2>1. root' = setOffsets(tree, node, start, limit)
    BY <1>3 DEF Become, tree
  <2>2. DOMAIN setOffsets(tree, node, start, limit) = DOMAIN tree
    BY OffsetPaths
  <2> QED BY <2>1, <2>2
<1> QED BY <1>2, <1>3 DEF tree

-----------------------------------------------------------------------------
(***************************************************************************)
(* Every action keeps the invariant, whatever token is read, whatever it   *)
(* denotes, and wherever a comment belongs.                                *)
(***************************************************************************)
LEMMA ParseKeeps ==
  ASSUME NEW doc, NEW collectComments, Parse(doc, collectComments)
  PROVE  Walk'
<1>1. DOMAIN root' = {<<>>}
  BY DEF Parse, Leaf
<1>2. node' = <<>> /\ frames' = <<>> /\ lastValue' = <<>> /\ pc' = "value"
  BY DEF Parse
<1>3. Level(pc', 0) = 0 /\ Slack(pc') = 0
  BY <1>2 DEF Level, Slack, Settled
<1>4. IsPath(<<>>, root')
  BY <1>1, EmptyPath
<1> QED BY <1>1, <1>2, <1>3, <1>4, EmptyPath, JsonReaderAssumption DEF Walk

LEMMA ThrowKeeps ==
  ASSUME Walk, Throw
  PROVE  Walk'
<1>1. /\ pc = "value" /\ pc' = "thrown" /\ collecting' = collecting
      /\ node' = node /\ frames' = frames /\ root' = root /\ lastValue' = lastValue
  BY DEF Throw, input, notes
<1>2. IsSeq(frames)
  BY DEF Walk
<1> QED BY <1>1, <1>2, StayKeeps

LEMMA CommentKeeps ==
  ASSUME Walk, NEW token, NEW onSameLine, Comment(token, onSameLine)
  PROVE  Walk'
<1>1. DOMAIN root' = DOMAIN root
  BY AddCommentKeeps DEF Comment
<1>2. pc' = pc \/ (pc = "comma" /\ pc' = "commented")
  BY DEF Comment, Stay
<1>3. pc' = pc \/ (pc \notin Settled /\ pc' \notin Settled)
  BY <1>2, PointsOf
<1>4. node' = node /\ frames' = frames /\ lastValue' = lastValue /\ collecting' = collecting
  BY DEF Comment, Stay, input
<1>5. IsSeq(frames)
  BY DEF Walk
<1> QED BY <1>1, <1>3, <1>4, <1>5, StayKeeps

LEMMA ReadScalarKeeps ==
  ASSUME Walk, NEW token, NEW value, ReadScalar(token, value)
  PROVE  Walk'
<1>1. pc = "value" /\ collecting' = collecting /\ Return(frames, value.ok)
  BY DEF ReadScalar, AtValue, input
<1>2. \/ root' = Commented
      \/ Become(value.type, value.val, token.start, token.end)
  BY DEF ReadScalar
<1>3. \/ DOMAIN root' = DOMAIN root
      \/ DOMAIN root' = {q \in DOMAIN root : ~Below(node, q)}
  BY <1>2, CommentedPaths, BecomePaths
<1>4. \/ collecting /\ lastValue' = node
      \/ lastValue' = lastValue
  BY DEF ReadScalar, SetLast
<1> QED BY <1>1, <1>3, <1>4, ScalarKeeps

LEMMA OpenKeeps ==
  ASSUME Walk, NEW token, Open(token)
  PROVE  Walk'
<1>1. /\ pc = "value" /\ collecting' = collecting /\ node' = node /\ lastValue' = lastValue
      /\ pc' \in {"name", "element"}
  BY DEF Open, AtValue, input
<1>2. ~(Len(node) + 1 > stackLimit_g)
  BY <1>1 DEF Open, AtValue, Reading, Deep
<1>3. DOMAIN root' = {q \in DOMAIN root : ~Below(node, q)}
  <2>1. \E type : root' = [swapPayload(Commented, node, type, <<>>) EXCEPT ![node].start = token.start]
    BY DEF Open
  <2>2. \E type : DOMAIN root' = DOMAIN swapPayload(Commented, node, type, <<>>)
    BY <2>1
  <2> QED BY <2>2, BecomePaths
<1>4. IsPath(node, root') /\ lastValue \in DOMAIN root'
  BY <1>1, <1>3, Stacks, SwapKeeps
<1>5. IsSeq(frames') /\ Len(frames') = Len(frames) + 1
  BY AppendTo DEF Open, Walk
<1>6. pc' \notin Settled /\ pc' # "value"
  BY <1>1, PointsOf
<1>7. Len(frames) = Len(node) /\ Len(lastValue) <= Len(node)
      /\ Len(node) \in Nat /\ Len(lastValue) \in Nat
  BY <1>1, Stacks
<1>8. Level(pc', Len(frames')) = Len(node') /\ Slack(pc') = 1 /\ Len(frames') <= stackLimit_g
  BY <1>1, <1>2, <1>5, <1>6, <1>7, JsonReaderAssumption DEF Level, Slack
<1>9. Len(lastValue') <= Len(node') + Slack(pc')
  BY <1>1, <1>7, <1>8
<1> QED BY <1>1, <1>4, <1>5, <1>8, <1>9 DEF Walk

LEMMA ReadDroppedNullKeeps ==
  ASSUME Walk, NEW token, ReadDroppedNull(token)
  PROVE  Walk'
<1>1. pc = "value" /\ collecting' = collecting /\ Return(frames, TRUE)
  BY DEF ReadDroppedNull, AtValue, input
<1>2. DOMAIN root' = {q \in DOMAIN root : ~Below(node, q)}
  <2>1. \E start, limit : Become("null", <<>>, start, limit)
    BY DEF ReadDroppedNull
  <2> QED BY <2>1, BecomePaths
<1>3. \/ collecting /\ lastValue' = node
      \/ lastValue' = lastValue
  BY DEF ReadDroppedNull, SetLast
<1> QED BY <1>1, <1>2, <1>3, ScalarKeeps

LEMMA NotAValueKeeps ==
  ASSUME Walk, NEW token, NotAValue(token)
  PROVE  Walk'
<1>1. /\ pc = "value" /\ collecting' = collecting /\ lastValue' = lastValue
      /\ Return(frames, FALSE)
  BY DEF NotAValue, AtValue, input
<1>2. DOMAIN root' = DOMAIN root
  <2>1. root' = setOffsets(Commented, node, token.start, token.end)
    BY DEF NotAValue
  <2>2. DOMAIN setOffsets(Commented, node, token.start, token.end) = DOMAIN Commented
    BY OffsetPaths
  <2> QED BY <2>1, <2>2, CommentedPaths
<1> QED BY <1>1, <1>2, ScalarKeeps

\* The name of a member, or the index of an element, is noted in the innermost
\* frame.
LEMMA FrameKeeps ==
  ASSUME Walk, pc \notin Settled, NEW frame, frames' = [frames EXCEPT ![Len(frames)] = frame]
  PROVE  IsSeq(frames') /\ Len(frames') = Len(frames)
<1>1. Len(frames) \in 1 .. Len(frames) /\ IsSeq(frames)
  BY Stacks DEF Walk
<1> QED BY <1>1, ExceptOf

LEMMA ReadNameKeeps ==
  ASSUME Walk, NEW token, NEW name, NEW mayEnd, ReadName(token, name, mayEnd)
  PROVE  Walk'
<1>1. pc = "name" /\ pc \notin Settled /\ collecting' = collecting
  BY PointsOf DEF ReadName, input
<1>2. CASE Close(TRUE, token.end)
  BY <1>1, <1>2, CloseKeeps
<1>3. CASE \E message, extra : Fail(token, message, extra)
  BY <1>1, <1>3, FailKeeps
<1>4. CASE /\ frames' = [frames EXCEPT ![Len(frames)].name = name.val]
           /\ pc' = "colon"
           /\ UNCHANGED <<node, root, notes>>
  <2>1. IsSeq(frames') /\ Len(frames') = Len(frames)
    BY <1>1, <1>4, FrameKeeps
  <2>2. pc' \notin Settled
    BY <1>4, PointsOf
  <2>3. node' = node /\ root' = root /\ lastValue' = lastValue
    BY <1>4 DEF notes
  <2> QED BY <1>1, <2>1, <2>2, <2>3, StayKeeps
<1>5. \/ Close(TRUE, token.end)
      \/ Fail(token, name.message, name.extra)
      \/ Fail(token, "Missing '}' or object member name", NoLocation)
      \/ /\ frames' = [frames EXCEPT ![Len(frames)].name = name.val]
         /\ pc' = "colon"
         /\ UNCHANGED <<node, root, notes>>
  BY DEF ReadName
<1> QED BY <1>2, <1>3, <1>4, <1>5

LEMMA ReadColonKeeps ==
  ASSUME Walk, NEW token, NEW onSameLine, ReadColon(token, onSameLine)
  PROVE  Walk'
<1>1. /\ pc = "colon" /\ pc \notin Settled
      /\ collecting' = collecting /\ lastValue' = lastValue /\ frames' = frames /\ IsSeq(frames)
  BY PointsOf DEF ReadColon, Stay, input, Walk
<1>2. CASE token.type = "MemberSeparator"
  <2>1. /\ root' = resolveReference(root, node, Inner.name)
        /\ node' = Append(node, Inner.name) /\ pc' = "value"
    BY <1>2 DEF ReadColon
  <2> QED BY <1>1, <2>1, PushKeeps
<1>3. CASE token.type # "MemberSeparator"
  <2>1. DOMAIN root' = DOMAIN root
    BY <1>3, AddCommentKeeps DEF ReadColon
  <2>2. pc' \notin Settled /\ node' = node
    BY <1>3, PointsOf DEF ReadColon, Stay
  <2> QED BY <1>1, <2>1, <2>2, StayKeeps
<1> QED BY <1>2, <1>3

LEMMA ReadCommaKeeps ==
  ASSUME Walk, NEW token, ReadComma(token)
  PROVE  Walk'
<1>1. pc \in {"comma", "commented"} /\ pc \notin Settled /\ collecting' = collecting
  BY PointsOf DEF ReadComma, input
<1>2. CASE Close(TRUE, token.end)
  BY <1>1, <1>2, CloseKeeps
<1>3. CASE Stay("name") /\ UNCHANGED <<root, notes>>
  BY <1>1, <1>3, ReadsOn DEF notes
<1>4. CASE Fail(token, "Missing ',' or '}' in object declaration", NoLocation)
  BY <1>1, <1>4, FailKeeps
<1>5. \/ Close(TRUE, token.end)
      \/ Stay("name") /\ UNCHANGED <<root, notes>>
      \/ Fail(token, "Missing ',' or '}' in object declaration", NoLocation)
  BY DEF ReadComma
<1> QED BY <1>2, <1>3, <1>4, <1>5

LEMMA ReadElementKeeps ==
  ASSUME Walk, NEW mayEnd, ReadElement(mayEnd)
  PROVE  Walk'
<1>1. pc = "element" /\ pc \notin Settled /\ collecting' = collecting
  BY PointsOf DEF ReadElement, input
<1>2. CASE \E end : Close(TRUE, end)
  BY <1>1, <1>2, CloseKeeps
<1>3. CASE /\ root' = resolveReference(root, node, Index(Inner.index))
           /\ node' = Append(node, Index(Inner.index))
           /\ frames' = [frames EXCEPT ![Len(frames)].index = @ + 1]
           /\ pc' = "value"
           /\ UNCHANGED notes
  <2>1. IsSeq(frames') /\ Len(frames') = Len(frames)
    BY <1>1, <1>3, FrameKeeps
  <2>2. lastValue' = lastValue
    BY <1>3 DEF notes
  <2> QED BY <1>1, <1>3, <2>1, <2>2, PushKeeps
<1>4. \/ \E end : Close(TRUE, end)
      \/ /\ root' = resolveReference(root, node, Index(Inner.index))
         /\ node' = Append(node, Index(Inner.index))
         /\ frames' = [frames EXCEPT ![Len(frames)].index = @ + 1]
         /\ pc' = "value"
         /\ UNCHANGED notes
  BY DEF ReadElement
<1> QED BY <1>2, <1>3, <1>4

LEMMA ReadNextKeeps ==
  ASSUME Walk, NEW token, ReadNext(token)
  PROVE  Walk'
<1>1. pc = "next" /\ pc \notin Settled /\ collecting' = collecting
  BY PointsOf DEF ReadNext, input
<1>2. CASE Close(TRUE, token.end)
  BY <1>1, <1>2, CloseKeeps
<1>3. CASE Stay("element") /\ UNCHANGED <<root, notes>>
  BY <1>1, <1>3, ReadsOn DEF notes
<1>4. CASE Fail(token, "Missing ',' or ']' in array declaration", NoLocation)
  BY <1>1, <1>4, FailKeeps
<1>5. \/ Close(TRUE, token.end)
      \/ Stay("element") /\ UNCHANGED <<root, notes>>
      \/ Fail(token, "Missing ',' or ']' in array declaration", NoLocation)
  BY DEF ReadNext
<1> QED BY <1>2, <1>3, <1>4, <1>5

LEMMA RecoverKeeps ==
  ASSUME Walk, NEW token, Recover(token)
  PROVE  Walk'
<1>1. pc = "recover" /\ pc \notin Settled /\ collecting' = collecting
  BY PointsOf DEF Recover, input
<1>2. CASE Close(FALSE, token.end)
  BY <1>1, <1>2, CloseKeeps
<1>3. CASE Stay("recover") /\ UNCHANGED <<root, notes>>
  BY <1>1, <1>3, ReadsOn DEF notes
<1> QED BY <1>2, <1>3 DEF Recover

\* The end of parse(), whatever becomes of its errors.
LEMMA DoneKeeps ==
  ASSUME Walk, pc = "finish", pc' = "done", UNCHANGED <<input, node, frames, notes>>,
         DOMAIN root' = DOMAIN root
  PROVE  Walk'
<1>1. pc \in Settled \ {"value"} /\ pc' \in Settled \ {"value"}
  BY DEF Settled
<1>2. /\ node' = node /\ frames' = frames /\ lastValue' = lastValue /\ collecting' = collecting
      /\ IsSeq(frames)
  BY DEF input, notes, Walk
<1> QED BY <1>1, <1>2, StayKeeps

LEMMA FinishKeeps ==
  ASSUME Walk, NEW token, NEW begin, Finish(token, begin)
  PROVE  Walk'
<1>1. root' = root \/ root' = setComment(root, <<>>, commentsBefore, After)
  BY DEF Finish
<1>2. DOMAIN root' = DOMAIN root
  BY <1>1, CommentPaths
<1>3. pc = "finish" /\ pc' = "done" /\ UNCHANGED <<input, node, frames, notes>>
  BY DEF Finish
<1> QED BY <1>2, <1>3, DoneKeeps

\* A step in which no Value moves.
LEMMA StutterKeeps ==
  ASSUME Walk, UNCHANGED <<input, root, place, notes>>
  PROVE  Walk'
<1>1. /\ node' = node /\ frames' = frames /\ lastValue' = lastValue
      /\ collecting' = collecting /\ root' = root /\ pc' = pc /\ IsSeq(frames)
  BY DEF input, place, notes, Walk
<1> QED BY <1>1, StayKeeps

\* Before the first parse there is an empty tree.
LEMMA InitWalks == Init => Walk
<1> SUFFICES ASSUME Init
             PROVE  Walk
  OBVIOUS
<1>1. DOMAIN root = {<<>>}
  BY DEF Init, Leaf
<1>2. node = <<>> /\ frames = <<>> /\ lastValue = <<>> /\ pc = "idle"
  BY DEF Init
<1>3. Level(pc, 0) = 0 /\ Slack(pc) = 1
  BY <1>2 DEF Level, Slack, Settled
<1>4. IsPath(<<>>, root)
  BY <1>1, EmptyPath
<1> QED BY <1>1, <1>2, <1>3, <1>4, EmptyPath, JsonReaderAssumption DEF Walk

-----------------------------------------------------------------------------
(***************************************************************************)
(* Reader.                                                                 *)
(***************************************************************************)
LEMMA StepWalks == Walk /\ Step => Walk'
<1> SUFFICES ASSUME Walk, Step
             PROVE  Walk'
  OBVIOUS
<1>1. CASE Throw
  BY <1>1, ThrowKeeps
<1>2. CASE ReadElement(MayEndAtElement)
  BY <1>2, ReadElementKeeps
<1>3. ASSUME NEW token,
             \/ Comment(token, OnSameLine(token))
             \/ ReadScalar(token, Denoted(token))
             \/ Open(token) \/ ReadDroppedNull(token) \/ NotAValue(token)
             \/ ReadName(token, NameOf(token), MayEndAtName)
             \/ ReadColon(token, OnSameLine(token))
             \/ ReadComma(token) \/ ReadNext(token) \/ Recover(token) \/ Finish(token, 0)
      PROVE  Walk'
  BY <1>3, CommentKeeps, ReadScalarKeeps, OpenKeeps, ReadDroppedNullKeeps, NotAValueKeeps,
     ReadNameKeeps, ReadColonKeeps, ReadCommaKeeps, ReadNextKeeps, RecoverKeeps, FinishKeeps
<1> QED BY <1>1, <1>2, <1>3 DEF Step

\* The inductive invariant of Reader.
LEMMA ReaderWalks == Spec => []Walk
<1>1. Walk /\ [Next]_vars => Walk'
  <2> SUFFICES ASSUME Walk, [Next]_vars
               PROVE  Walk'
    OBVIOUS
  <2>1. CASE UNCHANGED vars
    BY <2>1, StutterKeeps DEF vars
  <2>2. ASSUME NEW path, NEW extra, pushError(path, extra)
        PROVE  Walk'
    BY <2>2, StutterKeeps DEF pushError
  <2> QED BY <2>1, <2>2, StepWalks, ParseKeeps DEF Next
<1> QED BY <1>1, InitWalks, PTL DEF Spec

LEMMA WalkSuffices == Walk => LastValueLives /\ DepthBounded
<1> SUFFICES ASSUME Walk
             PROVE  LastValueLives /\ DepthBounded
  OBVIOUS
<1>1. pc \in Settled <=> pc \in {"value", "idle", "finish", "done", "thrown"}
  BY DEF Settled
<1> QED BY <1>1 DEF Walk, LastValueLives, DepthBounded, Level

\* A comment on the line of a value is put on a Value that still exists, in
\* every parse of every text: addComment never follows lastValue_ into a Value
\* that has been replaced.
THEOREM ReaderLastValueLives == Spec => []LastValueLives
BY ReaderWalks, WalkSuffices, PTL

\* nodes_ and the calls of readValue stay as deep as each other, and within the
\* limit, for every limit and whatever the text opens and does not close.
THEOREM ReaderDepthBounded == Spec => []DepthBounded
BY ReaderWalks, WalkSuffices, PTL

-----------------------------------------------------------------------------
(***************************************************************************)
(* OurReader.                                                              *)
(***************************************************************************)
LEMMA OurReadNameKeeps ==
  ASSUME Walk, NEW token, NEW name, OurReadName(token, name)
  PROVE  Walk'
<1>1. CASE pc = "name" /\ Fail(token, "Duplicate key", NoLocation) /\ UNCHANGED input
  BY <1>1, FailKeeps DEF input
<1>2. CASE ReadName(token, name, OurMayEndAtName)
  BY <1>2, ReadNameKeeps
<1> QED BY <1>1, <1>2 DEF OurReadName

LEMMA OurFinishKeeps ==
  ASSUME Walk, NEW token, OurFinish(token)
  PROVE  Walk'
<1>1. CASE pc = "finish" /\ pc' = "done" /\ UNCHANGED <<input, node, frames, root, notes>>
  BY <1>1, DoneKeeps
<1>2. CASE Finish(token, -bom)
  BY <1>2, FinishKeeps
<1> QED BY <1>1, <1>2 DEF OurFinish

LEMMA OurStepWalks == Walk /\ OurStep => Walk'
<1> SUFFICES ASSUME Walk, OurStep
             PROVE  Walk'
  OBVIOUS
<1>1. CASE OurThrow
  BY <1>1, ThrowKeeps DEF OurThrow
<1>2. CASE OurReadElement
  BY <1>2, ReadElementKeeps DEF OurReadElement
<1>3. ASSUME NEW token, OurComment(token) \/ OurReadScalar(token) \/ OurOpen(token)
      PROVE  Walk'
  BY <1>3, CommentKeeps, ReadScalarKeeps, OpenKeeps DEF OurComment, OurReadScalar, OurOpen
<1>4. ASSUME NEW token,
             OurReadDroppedNull(token) \/ OurNotAValue(token) \/ OurReadName(token, OurNameOf(token))
      PROVE  Walk'
  BY <1>4, ReadDroppedNullKeeps, NotAValueKeeps, OurReadNameKeeps
  DEF OurReadDroppedNull, OurNotAValue
<1>5. ASSUME NEW token,
             \/ OurReadColon(token) \/ OurReadComma(token)
             \/ OurReadNext(token) \/ OurRecover(token) \/ OurFinish(token)
      PROVE  Walk'
  BY <1>5, ReadColonKeeps, ReadCommaKeeps, ReadNextKeeps, RecoverKeeps, OurFinishKeeps
  DEF OurReadColon, OurReadComma, OurReadNext, OurRecover
<1> QED BY <1>1, <1>2, <1>3, <1>4, <1>5 DEF OurStep

\* The inductive invariant of OurReader.
LEMMA OurReaderWalks == OurSpec => []Walk
<1>1. Walk /\ [OurNext]_ourVars => Walk'
  <2> SUFFICES ASSUME Walk, [OurNext]_ourVars
               PROVE  Walk'
    OBVIOUS
  <2>1. CASE UNCHANGED ourVars
    BY <2>1, StutterKeeps DEF ourVars, vars
  <2> QED BY <2>1, OurStepWalks, ParseKeeps DEF OurNext, OurParse
<1>2. OurInit => Walk
  BY InitWalks DEF OurInit
<1> QED BY <1>1, <1>2, PTL DEF OurSpec

\* The same of OurReader: no comment is put on a Value that has been replaced,
\* also where a duplicate key or a trailing comma is allowed.
THEOREM OurReaderLastValueLives == OurSpec => []LastValueLives
BY OurReaderWalks, WalkSuffices, PTL

\* And its depth stays within the limit that its settings give it.
THEOREM OurReaderDepthBounded == OurSpec => []DepthBounded
BY OurReaderWalks, WalkSuffices, PTL

-----------------------------------------------------------------------------
(***************************************************************************)
(* Failure and errors.                                                     *)
(***************************************************************************)

\* Where parse() has not failed yet.
Unfailed == {"value", "element", "name", "colon", "comma", "commented", "next"}

\* The invariant: an error sends the readers to "recover", from where they come
\* back only out of the last container, with FALSE.
Explained ==
    /\ IsSeq(errors)
    /\ pc \in Unfailed => errors = <<>>
    /\ pc = "recover" => errors # <<>>
    /\ pc = "finish" => (ok <=> errors = <<>>)

\* What a step that ends parse() says of it.
Explains == pc # "done" /\ pc' = "done" => (ok' <=> errors' = <<>>)

LEMMA AddErrorTo ==
  ASSUME IsSeq(errors), NEW message, NEW tok, NEW extra, addError(message, tok, extra)
  PROVE  IsSeq(errors') /\ errors' # <<>>
<1> DEFINE e == [message |-> message, start |-> tok.start, end |-> tok.end, extra |-> extra]
<1>1. errors' = Append(errors, e)
  BY DEF addError
<1> HIDE DEF e
<1>2. IsSeq(errors') /\ Len(errors) \in Nat /\ Len(errors') = Len(errors) + 1
  BY <1>1, AppendTo
<1>3. Len(errors') # 0
  BY <1>2
<1> QED BY <1>2, <1>3, Whole

\* A readValue returns TRUE just when there is no error.
LEMMA ReturnExplains ==
  ASSUME IsSeq(errors'), NEW outer, NEW successful, Return(outer, successful),
         IF successful THEN errors' = <<>> ELSE errors' # <<>>
  PROVE  Explained' /\ Explains
<1>1. CASE outer = <<>>
  <2>1. pc' = "finish" /\ ok' = successful
    BY <1>1 DEF Return
  <2> QED BY <2>1 DEF Explained, Explains, Unfailed
<1>2. CASE outer # <<>> /\ successful
  <2>1. pc' \in {"comma", "next"}
    BY <1>2 DEF Return
  <2> QED BY <1>2, <2>1 DEF Explained, Explains, Unfailed
<1>3. CASE outer # <<>> /\ ~successful
  <2>1. pc' = "recover"
    BY <1>3 DEF Return
  <2> QED BY <1>3, <2>1 DEF Explained, Explains, Unfailed
<1> QED BY <1>1, <1>2, <1>3

LEMMA CloseExplains ==
  ASSUME Explained, NEW successful, NEW end, Close(successful, end), UNCHANGED errors,
         \/ pc \in Unfailed /\ successful = TRUE
         \/ pc = "recover" /\ successful = FALSE
  PROVE  Explained' /\ Explains
<1>1. Return(Front(frames), successful)
  BY DEF Close
<1>2. IsSeq(errors') /\ IF successful THEN errors' = <<>> ELSE errors' # <<>>
  BY DEF Explained
<1> QED BY <1>1, <1>2, ReturnExplains

LEMMA FailExplains ==
  ASSUME Explained, NEW token, NEW message, NEW extra, Fail(token, message, extra)
  PROVE  Explained' /\ Explains
<1>1. pc' = "recover" /\ addError(message, token, extra)
  BY DEF Fail, Stay
<1>2. IsSeq(errors') /\ errors' # <<>>
  BY <1>1, AddErrorTo DEF Explained
<1> QED BY <1>1, <1>2 DEF Explained, Explains, Unfailed

\* A step without an error, from where there was none to where there is none.
LEMMA PlainExplains ==
  ASSUME Explained, UNCHANGED errors,
         \/ pc \in Unfailed /\ pc' \in Unfailed \cup {"thrown"}
         \/ pc = "recover" /\ pc' = "recover"
         \/ pc = "finish" /\ pc' = "finish" /\ UNCHANGED ok
  PROVE  Explained' /\ Explains
BY DEF Explained, Explains, Unfailed

LEMMA ParseExplains ==
  ASSUME NEW doc, NEW collectComments, Parse(doc, collectComments)
  PROVE  Explained' /\ Explains
<1>1. pc' = "value" /\ errors' = <<>>
  BY DEF Parse
<1> QED BY <1>1, EmptyPath DEF Explained, Explains, Unfailed

LEMMA ThrowExplains ==
  ASSUME Explained, Throw
  PROVE  Explained' /\ Explains
BY PlainExplains DEF Throw, Unfailed

LEMMA CommentExplains ==
  ASSUME Explained, NEW token, NEW onSameLine, Comment(token, onSameLine)
  PROVE  Explained' /\ Explains
<1>1. /\ pc \in Points \ {"idle", "element", "done", "thrown"}
      /\ pc' = (IF pc = "comma" THEN "commented" ELSE pc)
      /\ UNCHANGED <<ok, errors>>
  BY DEF Comment, Reading, Stay
<1>2. \/ pc \in Unfailed /\ pc' \in Unfailed
      \/ pc = "recover" /\ pc' = "recover"
      \/ pc = "finish" /\ pc' = "finish"
  BY <1>1 DEF Points, Unfailed
<1> QED BY <1>1, <1>2, PlainExplains

LEMMA ReadScalarExplains ==
  ASSUME Explained, NEW token, NEW value, ReadScalar(token, value)
  PROVE  Explained' /\ Explains
<1>1. errors = <<>> /\ IsSeq(errors)
  BY DEF ReadScalar, AtValue, Explained, Unfailed
<1>2. Return(frames, value.ok)
  BY DEF ReadScalar
<1>3. CASE value.ok
  BY <1>1, <1>2, <1>3, ReturnExplains DEF ReadScalar
<1>4. CASE ~value.ok
  <2>1. addError(value.message, token, value.extra)
    BY <1>4 DEF ReadScalar
  <2> QED BY <1>1, <1>2, <1>4, <2>1, AddErrorTo, ReturnExplains
<1> QED BY <1>3, <1>4

LEMMA OpenExplains ==
  ASSUME Explained, NEW token, Open(token)
  PROVE  Explained' /\ Explains
<1>1. pc = "value" /\ pc' \in {"name", "element"} /\ UNCHANGED errors
  BY DEF Open, AtValue
<1> QED BY <1>1, PlainExplains DEF Unfailed

LEMMA ReadDroppedNullExplains ==
  ASSUME Explained, NEW token, ReadDroppedNull(token)
  PROVE  Explained' /\ Explains
<1>1. pc = "value" /\ UNCHANGED errors /\ Return(frames, TRUE)
  BY DEF ReadDroppedNull, AtValue
<1>2. errors' = <<>> /\ IsSeq(errors')
  BY <1>1 DEF Explained, Unfailed
<1> QED BY <1>1, <1>2, ReturnExplains

LEMMA NotAValueExplains ==
  ASSUME Explained, NEW token, NotAValue(token)
  PROVE  Explained' /\ Explains
<1>1. addError("value, object or array expected", token, NoLocation) /\ Return(frames, FALSE)
  BY DEF NotAValue
<1>2. IsSeq(errors') /\ errors' # <<>>
  BY <1>1, AddErrorTo DEF Explained
<1> QED BY <1>1, <1>2, ReturnExplains

LEMMA ReadNameExplains ==
  ASSUME Explained, NEW token, NEW name, NEW mayEnd, ReadName(token, name, mayEnd)
  PROVE  Explained' /\ Explains
<1>1. pc \in Unfailed
  BY DEF ReadName, Unfailed
<1>2. \/ Close(TRUE, token.end) /\ UNCHANGED errors
      \/ Fail(token, name.message, name.extra)
      \/ Fail(token, "Missing '}' or object member name", NoLocation)
      \/ pc' = "colon" /\ UNCHANGED errors
  BY DEF ReadName
<1>3. CASE pc' = "colon" /\ UNCHANGED errors
  BY <1>1, <1>3, PlainExplains DEF Unfailed
<1> QED BY <1>1, <1>2, <1>3, CloseExplains, FailExplains

LEMMA ReadColonExplains ==
  ASSUME Explained, NEW token, NEW onSameLine, ReadColon(token, onSameLine)
  PROVE  Explained' /\ Explains
<1>1. CASE token.type = "MemberSeparator"
  <2>1. pc = "colon" /\ pc' = "value" /\ UNCHANGED errors
    BY <1>1 DEF ReadColon
  <2> QED BY <2>1, PlainExplains DEF Unfailed
<1>2. CASE token.type # "MemberSeparator"
  <2>1. pc' = "recover" /\ \E message : addError(message, token, NoLocation)
    BY <1>2 DEF ReadColon, Stay
  <2>2. IsSeq(errors') /\ errors' # <<>>
    BY <2>1, AddErrorTo DEF Explained
  <2> QED BY <2>1, <2>2 DEF Explained, Explains, Unfailed
<1> QED BY <1>1, <1>2

LEMMA ReadCommaExplains ==
  ASSUME Explained, NEW token, ReadComma(token)
  PROVE  Explained' /\ Explains
<1>1. pc \in Unfailed
  BY DEF ReadComma, Unfailed
<1>2. \/ Close(TRUE, token.end) /\ UNCHANGED errors
      \/ Stay("name") /\ UNCHANGED errors
      \/ Fail(token, "Missing ',' or '}' in object declaration", NoLocation)
  BY DEF ReadComma
<1>3. CASE Stay("name") /\ UNCHANGED errors
  BY <1>1, <1>3, PlainExplains DEF Unfailed, Stay
<1> QED BY <1>1, <1>2, <1>3, CloseExplains, FailExplains

LEMMA ReadElementExplains ==
  ASSUME Explained, NEW mayEnd, ReadElement(mayEnd)
  PROVE  Explained' /\ Explains
<1>1. pc \in Unfailed /\ UNCHANGED errors
  BY DEF ReadElement, Unfailed
<1>2. (\E end : Close(TRUE, end)) \/ pc' = "value"
  BY DEF ReadElement
<1>3. CASE pc' = "value"
  BY <1>1, <1>3, PlainExplains DEF Unfailed
<1> QED BY <1>1, <1>2, <1>3, CloseExplains

LEMMA ReadNextExplains ==
  ASSUME Explained, NEW token, ReadNext(token)
  PROVE  Explained' /\ Explains
<1>1. pc \in Unfailed
  BY DEF ReadNext, Unfailed
<1>2. \/ Close(TRUE, token.end) /\ UNCHANGED errors
      \/ Stay("element") /\ UNCHANGED errors
      \/ Fail(token, "Missing ',' or ']' in array declaration", NoLocation)
  BY DEF ReadNext
<1>3. CASE Stay("element") /\ UNCHANGED errors
  BY <1>1, <1>3, PlainExplains DEF Unfailed, Stay
<1> QED BY <1>1, <1>2, <1>3, CloseExplains, FailExplains

LEMMA RecoverExplains ==
  ASSUME Explained, NEW token, Recover(token)
  PROVE  Explained' /\ Explains
<1>1. pc = "recover" /\ UNCHANGED errors
  BY DEF Recover
<1>2. Close(FALSE, token.end) \/ pc' = "recover"
  BY DEF Recover, Stay
<1>3. CASE pc' = "recover"
  BY <1>1, <1>3, PlainExplains
<1> QED BY <1>1, <1>2, <1>3, CloseExplains

LEMMA FinishExplains ==
  ASSUME Explained, NEW token, NEW begin, Finish(token, begin)
  PROVE  Explained' /\ Explains
<1> DEFINE rootFail == features.strictRoot /\ root[<<>>].type \notin Containers
<1>1. pc = "finish" /\ pc' = "done" /\ ok' = (ok /\ ~rootFail)
  BY DEF Finish
<1>2. IsSeq(errors) /\ (ok <=> errors = <<>>)
  BY <1>1 DEF Explained
<1>3. CASE rootFail
  <2>1. \E message, whole : addError(message, whole, NoLocation)
    BY <1>3 DEF Finish
  <2>2. IsSeq(errors') /\ errors' # <<>>
    BY <1>2, <2>1, AddErrorTo
  <2> QED BY <1>1, <1>3, <2>2 DEF Explained, Explains, Unfailed
<1>4. CASE ~rootFail
  <2>1. UNCHANGED errors
    BY <1>4 DEF Finish
  <2> HIDE DEF rootFail
  <2> QED BY <1>1, <1>2, <1>4, <2>1 DEF Explained, Explains, Unfailed
<1> QED BY <1>3, <1>4

LEMMA StepExplains == Explained /\ Step => Explained' /\ Explains
<1> SUFFICES ASSUME Explained, Step
             PROVE  Explained' /\ Explains
  OBVIOUS
<1>1. ASSUME NEW token,
             \/ Comment(token, OnSameLine(token))
             \/ ReadScalar(token, Denoted(token))
             \/ Open(token) \/ ReadDroppedNull(token) \/ NotAValue(token)
             \/ ReadName(token, NameOf(token), MayEndAtName)
             \/ ReadColon(token, OnSameLine(token))
             \/ ReadComma(token) \/ ReadNext(token) \/ Recover(token) \/ Finish(token, 0)
      PROVE  Explained' /\ Explains
  BY <1>1, CommentExplains, ReadScalarExplains, OpenExplains, ReadDroppedNullExplains,
     NotAValueExplains, ReadNameExplains, ReadColonExplains, ReadCommaExplains,
     ReadNextExplains, RecoverExplains, FinishExplains
<1> QED BY <1>1, ThrowExplains, ReadElementExplains DEF Step

\* An application may add errors only to a parse() that is over.
LEMMA NextExplains == Explained /\ [Next]_vars => Explained' /\ Explains
<1> SUFFICES ASSUME Explained, [Next]_vars
             PROVE  Explained' /\ Explains
  OBVIOUS
<1>1. CASE UNCHANGED vars
  BY <1>1 DEF vars, place, Explained, Explains
<1>2. ASSUME NEW path, NEW extra, pushError(path, extra)
      PROVE  Explained' /\ Explains
  <2>1. pc = "done" /\ pc' = "done"
    BY <1>2 DEF pushError, place
  <2>2. \E message, tok, e : addError(message, tok, e)
    BY <1>2 DEF pushError
  <2>3. IsSeq(errors')
    BY <2>2, AddErrorTo DEF Explained
  <2> QED BY <2>1, <2>3 DEF Explained, Explains, Unfailed
<1> QED BY <1>1, <1>2, StepExplains, ParseExplains DEF Next

LEMMA InitExplains == Init => Explained
BY EmptyPath DEF Init, Explained, Unfailed

\* parse() returns TRUE just when good() does, and FALSE never without an error
\* that says why: for every text and setting, and however often a Reader is used.
THEOREM ReaderFailureExplained == Spec => FailureExplained
<1>1. Explained /\ [Next]_vars => Explained' /\ [Explains]_vars
  BY NextExplains
<1>2. Spec => [][Explains]_vars
  BY <1>1, InitExplains, PTL DEF Spec
<1> QED BY <1>2 DEF FailureExplained, Explains

\* What OurReader does otherwise: two more errors.
LEMMA OurReadNameExplains ==
  ASSUME Explained, NEW token, NEW name, OurReadName(token, name)
  PROVE  Explained' /\ Explains
<1>1. Fail(token, "Duplicate key", NoLocation) \/ ReadName(token, name, OurMayEndAtName)
  BY DEF OurReadName
<1> QED BY <1>1, FailExplains, ReadNameExplains

LEMMA OurFinishExplains ==
  ASSUME Explained, NEW token, OurFinish(token)
  PROVE  Explained' /\ Explains
<1>1. CASE /\ addError("Extra non-whitespace after JSON value", token, NoLocation)
           /\ ok' = FALSE /\ pc' = "done"
  <2>1. IsSeq(errors') /\ errors' # <<>>
    BY <1>1, AddErrorTo DEF Explained
  <2> QED BY <1>1, <2>1 DEF Explained, Explains, Unfailed
<1>2. CASE Finish(token, -bom)
  BY <1>2, FinishExplains
<1> QED BY <1>1, <1>2 DEF OurFinish

LEMMA OurNextExplains == Explained /\ [OurNext]_ourVars => Explained' /\ Explains
<1> SUFFICES ASSUME Explained, [OurNext]_ourVars
             PROVE  Explained' /\ Explains
  OBVIOUS
<1>1. CASE UNCHANGED ourVars
  BY <1>1 DEF ourVars, vars, place, Explained, Explains
<1>2. ASSUME NEW token,
             \/ OurComment(token) \/ OurReadScalar(token) \/ OurOpen(token)
             \/ OurReadDroppedNull(token) \/ OurNotAValue(token)
             \/ OurReadName(token, OurNameOf(token)) \/ OurReadColon(token) \/ OurReadComma(token)
             \/ OurReadNext(token) \/ OurRecover(token) \/ OurFinish(token)
      PROVE  Explained' /\ Explains
  BY <1>2, CommentExplains, ReadScalarExplains, OpenExplains, ReadDroppedNullExplains,
     NotAValueExplains, OurReadNameExplains, ReadColonExplains, ReadCommaExplains,
     ReadNextExplains, RecoverExplains, OurFinishExplains
  DEF OurComment, OurReadScalar, OurOpen, OurReadDroppedNull, OurNotAValue, OurReadColon,
      OurReadComma, OurReadNext, OurRecover
<1>3. CASE OurStep
  BY <1>2, <1>3, ThrowExplains, ReadElementExplains DEF OurStep, OurThrow, OurReadElement
<1> QED BY <1>1, <1>3, ParseExplains DEF OurNext, OurParse

\* The same of OurReader, with the errors that only it knows: a duplicate key and
\* something behind the end.
THEOREM OurReaderFailureExplained == OurSpec => FailureExplained
<1>1. OurInit => Explained
  BY InitExplains DEF OurInit
<1>2. Explained /\ [OurNext]_ourVars => Explained' /\ [Explains]_vars
  BY OurNextExplains
<1>3. OurSpec => [][Explains]_vars
  BY <1>1, <1>2, PTL DEF OurSpec
<1> QED BY <1>3 DEF FailureExplained, Explains

-----------------------------------------------------------------------------
(***************************************************************************)
(* Where tokens begin and end.                                             *)
(***************************************************************************)

\* The printable characters have codes, and none of them is that of a NUL.
LEMMA CodeBounds ==
  ASSUME NEW n \in DOMAIN Ascii
  PROVE  C(Ascii[n]) \in Nat /\ C(Ascii[n]) >= 32
<1> DEFINE c == Ascii[n]
<1>1. DOMAIN Ascii = 1 .. Len(Ascii) /\ Len(Ascii) \in Nat
  BY DEF Ascii
<1>2. c \in ToSet(Ascii)
  BY DEF ToSet
<1> DEFINE i == CHOOSE j \in DOMAIN Ascii : Ascii[j] = c
<1>3. i \in DOMAIN Ascii
  OBVIOUS
<1>4. CodeOf[c] = 31 + i
  <2> HIDE DEF c
  <2> QED BY <1>2 DEF CodeOf
<1> HIDE DEF i
<1>5. i \in Nat /\ i >= 1
  BY <1>1, <1>3
<1> QED BY <1>4, <1>5 DEF C

\* A NUL is none of the characters that a token begins with.
LEMMA NotNul ==
  /\ 0 \notin {C("{"), C("}"), C("["), C("]"), C(","), C(":"), C("\""), C("/"), C("-"), C("t"),
               C("f"), C("n"), C("'"), C("+"), C("N"), C("I")}
  /\ 0 \notin Digits
<1>1. /\ Ascii[92] = "{" /\ Ascii[94] = "}" /\ Ascii[60] = "[" /\ Ascii[62] = "]"
      /\ Ascii[13] = "," /\ Ascii[27] = ":" /\ Ascii[16] = "/"
  BY DEF Ascii
<1>2. /\ Ascii[14] = "-" /\ Ascii[85] = "t" /\ Ascii[71] = "f" /\ Ascii[79] = "n"
      /\ Ascii[8] = "'" /\ Ascii[12] = "+" /\ Ascii[47] = "N" /\ Ascii[42] = "I"
      /\ Ascii[17] = "0" /\ Ascii[26] = "9"
  BY DEF Ascii
<1>3. {92, 94, 60, 62, 13, 27, 3, 16, 14, 85, 71, 79, 8, 12, 47, 42, 17, 26} \subseteq DOMAIN Ascii
  BY DEF Ascii
<1>4. \A n \in DOMAIN Ascii : C(Ascii[n]) # 0 /\ C(Ascii[n]) > 0 /\ C(Ascii[n]) \in Nat
  BY CodeBounds
<1>5. C("0") > 0 /\ C("0") \in Nat /\ C("9") \in Nat
  BY <1>2, <1>3, <1>4
<1>6. 0 \notin Digits
  BY <1>5 DEF Digits
<1>7. 0 \notin {C("{"), C("}"), C("["), C("]"), C(","), C(":"), C("\""), C("/")}
  <2>1. \A n \in {92, 94, 60, 62, 13, 27, 3, 16} : C(Ascii[n]) # 0
    BY <1>3, <1>4
  <2>2. Ascii[3] = "\""
    BY DEF Ascii
  <2> HIDE DEF Ascii, C
  <2>3. C("{") # 0
    <3>1. Ascii[92] = "{"
      BY ONLY <1>1
    <3>2. C(Ascii[92]) # 0
      BY ONLY <2>1
    <3> QED BY ONLY <3>1, <3>2, Zenon
  <2>4. C("}") # 0
    <3>1. Ascii[94] = "}"
      BY ONLY <1>1
    <3>2. C(Ascii[94]) # 0
      BY ONLY <2>1
    <3> QED BY ONLY <3>1, <3>2, Zenon
  <2>5. C("[") # 0
    <3>1. Ascii[60] = "["
      BY ONLY <1>1
    <3>2. C(Ascii[60]) # 0
      BY ONLY <2>1
    <3> QED BY ONLY <3>1, <3>2, Zenon
  <2>6. C("]") # 0
    <3>1. Ascii[62] = "]"
      BY ONLY <1>1
    <3>2. C(Ascii[62]) # 0
      BY ONLY <2>1
    <3> QED BY ONLY <3>1, <3>2, Zenon
  <2>7. C(",") # 0
    <3>1. Ascii[13] = ","
      BY ONLY <1>1
    <3>2. C(Ascii[13]) # 0
      BY ONLY <2>1
    <3> QED BY ONLY <3>1, <3>2, Zenon
  <2>8. C(":") # 0
    <3>1. Ascii[27] = ":"
      BY ONLY <1>1
    <3>2. C(Ascii[27]) # 0
      BY ONLY <2>1
    <3> QED BY ONLY <3>1, <3>2, Zenon
  <2>9. C("/") # 0
    <3>1. Ascii[16] = "/"
      BY ONLY <1>1
    <3>2. C(Ascii[16]) # 0
      BY ONLY <2>1
    <3> QED BY ONLY <3>1, <3>2, Zenon
  <2>10. C("\"") # 0
    <3>1. Ascii[3] = "\""
      BY ONLY <2>2
    <3>2. C(Ascii[3]) # 0
      BY ONLY <2>1
    <3> QED BY ONLY <3>1, <3>2, Zenon
  <2> QED BY ONLY <2>3, <2>4, <2>5, <2>6, <2>7, <2>8, <2>9, <2>10, Zenon
<1>8. 0 \notin {C("-"), C("t"), C("f"), C("n"), C("'"), C("+"), C("N"), C("I")}
  BY <1>2, <1>3, <1>4
<1> QED BY <1>6, <1>7, <1>8

\* Punctuation has no NUL.
LEMMA NoNulPunctuation == 0 \notin DOMAIN Punctuation
BY NotNul DEF Punctuation

\* The least of some numbers is one of them.
LEMMA LeastOf ==
  ASSUME NEW T \in SUBSET Nat, T # {}
  PROVE  Min(T) \in T
<1>1. \E n \in T : \A m \in T : n <= m
  BY LeastNumber
<1> QED BY <1>1 DEF Min

\* A run of characters ends behind its beginning, or there, and in the text.
LEMMA SpanBounds ==
  ASSUME NEW text, IsSeq(text), NEW from \in 0 .. Len(text), NEW S
  PROVE  Span(text, from, S) \in from .. Len(text)
<1> DEFINE stops == {p \in from .. Len(text) - 1 : text[p + 1] \notin S}
<1>1. Len(text) \in Nat
  BY LenProperties DEF IsSeq
<1>2. stops \in SUBSET Nat /\ stops \subseteq from .. Len(text)
  BY <1>1
<1>3. Span(text, from, S) = IF stops = {} THEN Len(text) ELSE Min(stops)
  BY DEF Span
<1> HIDE DEF stops
<1>4. stops # {} => Min(stops) \in from .. Len(text)
  BY <1>2, LeastOf
<1>5. Len(text) \in from .. Len(text)
  BY <1>1
<1> QED BY <1>3, <1>4, <1>5

\* It ends at another character, or at the end of the text.
LEMMA SpanStops ==
  ASSUME NEW text, IsSeq(text), NEW from \in 0 .. Len(text), NEW S
  PROVE  Span(text, from, S) = Len(text) \/ text[Span(text, from, S) + 1] \notin S
<1> DEFINE stops == {p \in from .. Len(text) - 1 : text[p + 1] \notin S}
<1>1. Len(text) \in Nat
  BY LenProperties DEF IsSeq
<1>2. stops \in SUBSET Nat /\ \A p \in stops : text[p + 1] \notin S
  BY <1>1
<1>3. Span(text, from, S) = IF stops = {} THEN Len(text) ELSE Min(stops)
  BY DEF Span
<1> HIDE DEF stops
<1>4. stops # {} => Min(stops) \in stops
  BY <1>2, LeastOf
<1> QED BY <1>2, <1>3, <1>4

\* A text: its length, and the characters at its locations.
LEMMA TextLen ==
  ASSUME NEW text, IsSeq(text)
  PROVE  /\ Len(text) \in Nat
         /\ \A at, c : HasAt(text, at, c) => at < Len(text)
<1>1. Len(text) \in Nat
  BY LenProperties DEF IsSeq
<1> QED BY <1>1 DEF HasAt

\* readNumber stops behind its beginning, or there, and in the text.
LEMMA NumberBounds ==
  ASSUME NEW text, IsSeq(text), NEW from \in 0 .. Len(text)
  PROVE  readNumber(text, from) \in from .. Len(text)
<1> DEFINE n        == Len(text)
           whole    == Span(text, from, Digits)
           fraction == IF HasAt(text, whole, C(".")) THEN Span(text, whole + 1, Digits) ELSE whole
           sign     == fraction + 1
<1>1. n \in Nat /\ \A at, c : HasAt(text, at, c) => at < n
  BY TextLen
<1>2. whole \in from .. n
  BY SpanBounds
<1> HIDE DEF whole, n
<1>3. fraction \in from .. n
  <2>1. CASE HasAt(text, whole, C("."))
    <3>1. whole + 1 \in 0 .. n
      BY <1>1, <1>2, <2>1 DEF n
    <3>2. Span(text, whole + 1, Digits) \in whole + 1 .. n
      BY <3>1, SpanBounds DEF n
    <3> QED BY <1>1, <1>2, <2>1, <3>2 DEF n
  <2> QED BY <1>2, <2>1
<1> HIDE DEF fraction
<1>4. CASE HasAt(text, fraction, C("e")) \/ HasAt(text, fraction, C("E"))
  <2>1. sign \in 0 .. n /\ sign \in from .. n
    BY <1>1, <1>3, <1>4 DEF n
  <2>2. Span(text, sign, Digits) \in from .. n
    <3>1. Span(text, sign, Digits) \in sign .. n
      BY <2>1, SpanBounds DEF n
    <3> QED BY <1>1, <2>1, <3>1 DEF n
  <2>3. ASSUME HasAt(text, sign, C("+")) \/ HasAt(text, sign, C("-"))
        PROVE  Span(text, sign + 1, Digits) \in from .. n
    <3>1. sign + 1 \in 0 .. n
      BY <1>1, <2>1, <2>3
    <3>2. Span(text, sign + 1, Digits) \in sign + 1 .. n
      BY <3>1, SpanBounds DEF n
    <3> QED BY <1>1, <2>1, <3>1, <3>2 DEF n
  <2> QED BY <1>4, <2>2, <2>3 DEF readNumber, whole, fraction, n
<1>5. CASE ~(HasAt(text, fraction, C("e")) \/ HasAt(text, fraction, C("E")))
  BY <1>3, <1>5 DEF readNumber, whole, fraction, n
<1> QED BY <1>4, <1>5 DEF n

\* And so does readComment, in both kinds of comments, closed or not.
LEMMA CommentBounds ==
  ASSUME NEW text, IsSeq(text), NEW from \in 0 .. Len(text)
  PROVE  readComment(text, from).end \in from .. Len(text)
<1> DEFINE n == Len(text)
<1>1. n \in Nat /\ \A at, c : HasAt(text, at, c) => at < n
  BY TextLen
<1>2. ASSUME from < n
      PROVE  readCStyleComment(text, from + 1).end \in from .. n
  <2> DEFINE f == from + 1
             closed == {p \in f .. Len(text) - 2 : HasAt(text, p, C("*")) /\ HasAt(text, p + 1, C("/"))}
             last == Len(text) - 1
  <2>1. closed \in SUBSET Nat /\ \A p \in closed : p + 2 \in from .. n
    BY <1>1
  <2>2. readCStyleComment(text, f) =
            IF closed # {} THEN [ok |-> TRUE, end |-> Min(closed) + 2]
            ELSE [ok |-> f <= last /\ HasAt(text, last, C("/")), end |-> Len(text)]
    BY DEF readCStyleComment
  <2> HIDE DEF closed
  <2>3. closed # {} => Min(closed) + 2 \in from .. n
    BY <2>1, LeastOf
  <2>4. Len(text) \in from .. n
    BY <1>1
  <2> QED BY <2>2, <2>3, <2>4
<1>3. ASSUME from < n
      PROVE  readCppStyleComment(text, from + 1) \in from .. n
  <2> DEFINE eol == Span(text, from + 1, Byte \ {LF, CR})
  <2>1. from + 1 \in 0 .. Len(text)
    BY <1>1, <1>3
  <2>2. eol \in from + 1 .. n
    BY <2>1, SpanBounds
  <2>3. readCppStyleComment(text, from + 1) =
          (CASE eol = Len(text) -> eol
             [] HasAt(text, eol, CR) /\ HasAt(text, eol + 1, LF) -> eol + 2
             [] OTHER -> eol + 1)
    BY DEF readCppStyleComment
  <2> HIDE DEF eol
  <2>4. HasAt(text, eol + 1, LF) => eol + 2 \in from .. n
    BY <1>1, <2>2
  <2>5. eol # n => eol + 1 \in from .. n
    BY <1>1, <2>2
  <2> QED BY <2>2, <2>3, <2>4, <2>5, <1>1
<1>4. \/ /\ from < n
         /\ readComment(text, from).end
              \in {readCStyleComment(text, from + 1).end, readCppStyleComment(text, from + 1)}
      \/ readComment(text, from).end = IF from = n THEN from ELSE from + 1
  BY <1>1 DEF readComment
<1>5. (IF from = n THEN from ELSE from + 1) \in from .. n
  BY <1>1
<1> QED BY <1>2, <1>3, <1>4, <1>5

\* A word has its first letter at least, and ends in the text.
LEMMA WordBounds ==
  ASSUME NEW text, IsSeq(text), NEW start \in 0 .. Len(text), start < Len(text), NEW type, NEW rest, IsSeq(rest)
  PROVE  LET t == Word(type, text, start, rest)
         IN  /\ t.start = start /\ t.end \in start + 1 .. Len(text)
             /\ t.type \in {type, "Error"}
<1> DEFINE end == match(text, start + 1, rest)
<1>1. Len(text) \in Nat /\ Len(rest) \in Nat
  BY TextLen
<1>2. end \in start + 1 .. Len(text)
  BY <1>1 DEF match
<1> HIDE DEF end
<1>3. Word(type, text, start, rest) = Token(IF end = start + 1 THEN "Error" ELSE type, start, end)
  BY DEF Word, end
<1> QED BY <1>2, <1>3 DEF Token

\* readString stops behind its beginning, or there, and in the text.
LEMMA StringBounds ==
  ASSUME NEW text, IsSeq(text), NEW from \in 0 .. Len(text), NEW quote
  PROVE  readString(text, from, quote).end \in from .. Len(text)
<1> DEFINE n == Len(text)
           m == n - from
           R == [ok : BOOLEAN, end : from .. n]
           End == [ok |-> FALSE, end |-> n]
           body(g) == [p \in from .. n |->
               CASE p = n -> [ok |-> FALSE, end |-> n]
                 [] HasAt(text, p, quote) -> [ok |-> TRUE, end |-> p + 1]
                 [] HasAt(text, p, C("\\")) -> g[IF p + 2 > n THEN n ELSE p + 2]
                 [] OTHER -> g[p + 1]]
           scan == CHOOSE g : g = body(g)
<1>1. n \in Nat /\ m \in Nat /\ from \in Nat /\ \A c : ~HasAt(text, n, c)
  BY TextLen
<1>2. readString(text, from, quote) = scan[from]
  BY DEF readString
<1>3. \E g : g = body(g)
  <2> DEFINE at(p, next) ==
                 CASE HasAt(text, p, quote) -> [ok |-> TRUE, end |-> p + 1]
                   [] HasAt(text, p, C("\\")) -> IF p + 2 > n THEN next[1] ELSE next[2]
                   [] OTHER -> next[1]
             step == [t \in (1 .. m) \X (R \X R) |-> <<at(n - t[1], t[2]), t[2][1]>>]
  <2>1. End \in R
    BY <1>1
  <2>2. step \in Steps(m, R \X R)
    <3>1. ASSUME NEW i \in 1 .. m, NEW next \in R \X R
          PROVE  at(n - i, next) \in R
      <4>1. next[1] \in R /\ next[2] \in R
        OBVIOUS
      <4>2. n - i + 1 \in from .. n
        BY <1>1
      <4> HIDE DEF n, m
      <4>3. [ok |-> TRUE, end |-> n - i + 1] \in R
        BY <4>2
      <4> HIDE DEF R
      <4> QED BY <4>1, <4>3
    <3> HIDE DEF at, n, m, R
    <3>2. ASSUME NEW t \in (1 .. m) \X (R \X R)
          PROVE  <<at(n - t[1], t[2]), t[2][1]>> \in R \X R
      <4>1. t[1] \in 1 .. m /\ t[2] \in R \X R /\ t[2][1] \in R
        OBVIOUS
      <4> QED BY <3>1, <4>1
    <3> QED BY <3>2 DEF Steps
  <2>3. PICK f : f \in Recursive(m, R \X R, <<End, End>>, step)
    <3> HIDE DEF step, m, R, End
    <3>1. <<End, End>> \in R \X R
      BY <2>1
    <3> QED BY <1>1, <2>2, <3>1, Recursion
  <2>4. f[0] = <<End, End>>
    BY <2>3 DEF Recursive
  <2>5. ASSUME NEW i \in 1 .. m
        PROVE  f[i] = <<at(n - i, f[i - 1]), f[i - 1][1]>>
    <3> HIDE DEF at, n, R, End
    <3>1. f \in [0 .. m -> R \X R] /\ f[i] = step[<<i, f[i - 1]>>]
      <4> HIDE DEF step, m
      <4> QED BY <2>3 DEF Recursive
    <3>2. i - 1 \in 0 .. m
      BY <1>1
    <3>3. <<i, f[i - 1]>> \in (1 .. m) \X (R \X R)
      <4> HIDE DEF m
      <4> QED BY <3>1, <3>2
    <3> HIDE DEF m
    <3> QED BY <3>1, <3>3
  <2> HIDE DEF step
  <2> DEFINE g == [p \in from .. n |-> f[n - p][1]]
  <2>6. ASSUME NEW p \in from .. n
        PROVE  g[p] = body(g)[p]
    <3>1. CASE p = n
      <4>1. n - p = 0 /\ g[p] = f[0][1]
        BY <1>1, <3>1
      <4>2. body(g)[p] = End
        <5> HIDE DEF g, n
        <5> QED BY <1>1, <3>1
      <4> HIDE DEF g, n, body, End
      <4> QED BY <2>4, <4>1, <4>2
    <3>2. CASE p # n
      <4> DEFINE i == n - p
      <4>1. i \in 1 .. m /\ n - i = p /\ i - 1 = n - (p + 1) /\ p + 1 \in from .. n
        BY <1>1, <3>2
      <4>2. g[p] = f[i][1]
        OBVIOUS
      <4>3. f[i][1] = at(p, f[i - 1])
        <5> HIDE DEF at, i, n, m
        <5> QED BY <2>5, <4>1
      <4>4. f[i - 1][1] = g[p + 1]
        BY <4>1
      <4>5. ASSUME p + 2 <= n
            PROVE  f[i - 1][2] = g[p + 2]
        <5>1. i - 1 \in 1 .. m /\ i - 1 - 1 = n - (p + 2) /\ p + 2 \in from .. n
          BY <1>1, <4>1, <4>5
        <5>2. g[p + 2] = f[i - 1 - 1][1]
          BY <5>1
        <5> HIDE DEF at, i, n, m, g
        <5> QED BY <2>5, <5>1, <5>2
      <4>6. p + 2 > n => g[IF p + 2 > n THEN n ELSE p + 2] = g[p + 1]
        BY <1>1, <3>2
      <4>7. body(g)[p] =
                 CASE p = n -> [ok |-> FALSE, end |-> n]
                   [] HasAt(text, p, quote) -> [ok |-> TRUE, end |-> p + 1]
                   [] HasAt(text, p, C("\\")) -> g[IF p + 2 > n THEN n ELSE p + 2]
                   [] OTHER -> g[p + 1]
        <5> HIDE DEF g, n
        <5> QED OBVIOUS
      <4>8. p + 2 > n \/ p + 2 <= n
        BY <1>1
      <4> HIDE DEF g, n, i, body
      <4> QED BY <3>2, <4>2, <4>3, <4>4, <4>5, <4>6, <4>7, <4>8
    <3> QED BY <3>1, <3>2
  <2> HIDE DEF n
  <2>7. g = body(g)
    <3>1. g = [p \in from .. n |-> g[p]]
      OBVIOUS
    <3>2. body(g) = [p \in from .. n |-> body(g)[p]]
      OBVIOUS
    <3> HIDE DEF g, body
    <3> QED BY <2>6, <3>1, <3>2
  <2> HIDE DEF g, body
  <2> QED BY <2>7
<1>4. scan = body(scan)
  <2> HIDE DEF body
  <2> QED BY <1>3
<1> HIDE DEF scan
<1>5. ASSUME NEW p \in from .. n
      PROVE  scan[p] =
               CASE p = n -> [ok |-> FALSE, end |-> n]
                 [] HasAt(text, p, quote) -> [ok |-> TRUE, end |-> p + 1]
                 [] HasAt(text, p, C("\\")) -> scan[IF p + 2 > n THEN n ELSE p + 2]
                 [] OTHER -> scan[p + 1]
  <2>1. scan[p] = body(scan)[p]
    <3> HIDE DEF body
    <3> QED BY <1>4
  <2> HIDE DEF n
  <2> QED BY <2>1
<1> DEFINE A == {i \in Nat : \A p \in from .. n : p >= n - i => scan[p].end \in from .. n}
<1>6. 0 \in A
  <2>1. ASSUME NEW p \in from .. n, p >= n - 0
        PROVE  scan[p].end \in from .. n
    <3>1. p = n
      BY <1>1, <2>1
    <3>2. scan[p] = [ok |-> FALSE, end |-> n]
      <4> HIDE DEF n
      <4> QED BY <1>1, <1>5, <3>1
    <3>3. n \in from .. n
      BY <1>1
    <3> QED BY <3>2, <3>3
  <2> HIDE DEF n
  <2> QED BY <2>1
<1>7. ASSUME NEW i \in 0 .. m - 1, i \in A
      PROVE  i + 1 \in A
  <2>1. ASSUME NEW p \in from .. n, p >= n - (i + 1)
        PROVE  scan[p].end \in from .. n
    <3>1. \A q \in from .. n : q >= n - i => scan[q].end \in from .. n
      BY <1>7
    <3> HIDE DEF A
    <3>2. CASE p = n
      <4>1. scan[p] = [ok |-> FALSE, end |-> n]
        <5> HIDE DEF n
        <5> QED BY <1>1, <1>5, <3>2
      <4>2. n \in from .. n
        BY <1>1
      <4> QED BY <4>1, <4>2
    <3>3. CASE p # n
      <4> DEFINE skip == IF p + 2 > n THEN n ELSE p + 2
      <4>1. p + 1 \in from .. n /\ p + 1 >= n - i /\ skip \in from .. n /\ skip >= n - i
        BY <1>1, <2>1, <3>3
      <4>2. scan[p] \in {[ok |-> TRUE, end |-> p + 1], scan[skip], scan[p + 1]}
        <5> HIDE DEF n
        <5> QED BY <1>5, <3>3
      <4> HIDE DEF skip, n
      <4>3. scan[skip].end \in from .. n /\ scan[p + 1].end \in from .. n
        BY <3>1, <4>1
      <4> QED BY <4>1, <4>2, <4>3
    <3> QED BY <3>2, <3>3
  <2>2. i + 1 \in Nat
    BY <1>1
  <2> HIDE DEF n
  <2> QED BY <2>1, <2>2
<1>8. m \in A
  <2> HIDE DEF A, m
  <2>1. m \in 0 .. m
    BY <1>1
  <2> QED BY <1>1, <1>6, <1>7, <2>1, InductionUpTo
<1>9. from \in from .. n /\ from >= n - m
  BY <1>1
<1>10. scan[from].end \in from .. n
  <2> HIDE DEF n, m
  <2> QED BY <1>8, <1>9
<1> HIDE DEF A
<1> QED BY <1>2, <1>10

\* The rest of a word is a text.
LEMMA WordSeqs ==
  /\ IsSeq(Text(<<"r", "u", "e">>)) /\ IsSeq(Text(<<"a", "l", "s", "e">>)) /\ IsSeq(Text(<<"u", "l", "l">>))
  /\ IsSeq(Text(<<"a", "N">>)) /\ IsSeq(Text(<<"n", "f", "i", "n", "i", "t", "y">>))
<1>1. ASSUME NEW s, NEW S, s \in Seq(S)
      PROVE  IsSeq(Text(s))
  <2> DEFINE t == Text(s)
             T == {t[i] : i \in 1 .. Len(s)}
  <2>1. Len(s) \in Nat /\ DOMAIN s = 1 .. Len(s)
    BY <1>1, LenProperties
  <2>2. t \in [1 .. Len(s) -> T]
    BY <2>1 DEF Text
  <2> HIDE DEF t, T
  <2>3. t \in Seq(T)
    BY <2>1, <2>2, IsASeq
  <2> QED BY <2>3 DEF IsSeq, t
<1>2. /\ <<"r", "u", "e">> \in Seq({"r", "u", "e"}) /\ <<"a", "l", "s", "e">> \in Seq({"a", "l", "s", "e"})
      /\ <<"u", "l", "l">> \in Seq({"u", "l"}) /\ <<"a", "N">> \in Seq({"a", "N"})
      /\ <<"n", "f", "i", "n", "i", "t", "y">> \in Seq({"n", "f", "i", "t", "y"})
  OBVIOUS
<1> QED BY <1>1, <1>2

\* A token that was read from a location on: it lies in the text, not before that
\* location; only the end of the stream may have no character, and the separators
\* and ends have one.
InText(tok, text, from) ==
    /\ tok.start \in from .. Len(text) /\ tok.end \in tok.start .. Len(text)
    /\ tok.end = tok.start => tok.type = "EndOfStream"
    /\ tok.type \in Ends => tok.end = tok.start + 1

\* A token with a first character, and an end behind it.
LEMMA LongToken ==
  ASSUME NEW text, IsSeq(text), NEW from \in 0 .. Len(text), NEW start \in from .. Len(text),
         NEW end \in start + 1 .. Len(text), NEW type, type \in Ends => end = start + 1
  PROVE  InText(Token(type, start, end), text, from)
<1>1. Len(text) \in Nat
  BY TextLen
<1> QED BY <1>1 DEF InText, Token

\* What readToken reads.
LEMMA TokenInText ==
  ASSUME NEW text, IsSeq(text), NEW from \in 0 .. Len(text)
  PROVE  InText(readToken(text, from), text, from)
<1> DEFINE n == Len(text)
           start == skipSpaces(text, from)
           at == start + 1
           c == IF start = n THEN 0 ELSE text[at]
           tok == readToken(text, from)
<1>1. n \in Nat /\ start \in from .. n /\ start \in 0 .. n
  <2>1. n \in Nat
    BY TextLen
  <2>2. start \in from .. n
    BY SpanBounds DEF skipSpaces
  <2> HIDE DEF start
  <2> QED BY <2>1, <2>2
<1>2. tok = CASE c = 0 -> Token("EndOfStream", start, IF start = n THEN start ELSE at)
          [] c \in DOMAIN Punctuation -> Token(Punctuation[c], start, at)
          [] c = C("\"") -> Checked("String", start, readString(text, at, c))
          [] c = C("/") -> Checked("Comment", start, readComment(text, at))
          [] c \in Digits \cup {C("-")} -> Token("Number", start, readNumber(text, at))
          [] c = C("t") -> Word("True", text, start, Text(<<"r", "u", "e">>))
          [] c = C("f") -> Word("False", text, start, Text(<<"a", "l", "s", "e">>))
          [] c = C("n") -> Word("Null", text, start, Text(<<"u", "l", "l">>))
          [] OTHER -> Token("Error", start, at)
  BY DEF readToken
<1>3. CASE start = n
  <2>1. c = 0
    BY <1>3
  <2> HIDE DEF c, n, start, tok
  <2>2. tok = Token("EndOfStream", start, start)
    <3>1. /\ c # C("\"") /\ c # C("/") /\ c # C("-") /\ c # C("t") /\ c # C("f") /\ c # C("n")
          /\ c \notin Digits /\ c \notin DOMAIN Punctuation
      BY <2>1, NotNul, NoNulPunctuation
    <3> QED BY <1>2, <1>3, <2>1, <3>1
  <2>3. InText(tok, text, from)
    BY <1>1, <2>2 DEF InText, Token, Ends, n
  <2> QED BY <2>3 DEF tok
<1>4. CASE start # n
  <2>1. at \in 0 .. n /\ at \in start + 1 .. n
    BY <1>1, <1>4
  <2> HIDE DEF c, n, start, at, tok
  <2>2. readString(text, at, c).end \in at .. n
    BY <2>1, StringBounds DEF n
  <2>3. readComment(text, at).end \in at .. n
    BY <2>1, CommentBounds DEF n
  <2>4. readNumber(text, at) \in at .. n
    BY <2>1, NumberBounds DEF n
  <2>5. ASSUME NEW end \in at .. n, NEW type, type \in Ends => end = start + 1
        PROVE  InText(Token(type, start, end), text, from)
    <3>1. end \in start + 1 .. n
      BY <2>1, <2>5 DEF at
    <3> QED BY <1>1, <2>5, <3>1, LongToken DEF n
  <2>6. ASSUME NEW type, type \notin Ends, NEW part, part.end \in at .. n
        PROVE  InText(Checked(type, start, part), text, from)
    BY <2>5, <2>6 DEF Checked, Ends
  <2>7. ASSUME NEW type, type \notin Ends, NEW rest, IsSeq(rest)
        PROVE  InText(Word(type, text, start, rest), text, from)
    <3> DEFINE w == Word(type, text, start, rest)
    <3>1. w.start = start /\ w.end \in start + 1 .. n /\ w.type \in {type, "Error"}
      <4>1. start < Len(text)
        BY <1>1, <1>4 DEF n
      <4> QED BY <1>1, <2>7, <4>1, WordBounds DEF n
    <3>2. w.type \notin Ends
      BY <2>7, <3>1 DEF Ends
    <3> HIDE DEF w
    <3>3. InText(w, text, from)
      BY <1>1, <3>1, <3>2 DEF InText, n
    <3> QED BY <3>3 DEF w
  <2>8. InText(Token("EndOfStream", start, IF start = n THEN start ELSE at), text, from)
    <3>1. at \in at .. n /\ at = start + 1
      BY <2>1 DEF at
    <3> QED BY <1>4, <2>5, <3>1
  <2>9. \A type : InText(Token(type, start, at), text, from)
    <3>1. at \in at .. n /\ at = start + 1
      BY <2>1 DEF at
    <3> QED BY <2>5, <3>1
  <2>10. InText(Token("Number", start, readNumber(text, at)), text, from)
    BY <2>4, <2>5 DEF Ends
  <2>11. /\ InText(Checked("String", start, readString(text, at, c)), text, from)
         /\ InText(Checked("Comment", start, readComment(text, at)), text, from)
    BY <2>2, <2>3, <2>6 DEF Ends
  <2>12. IsSeq(Text(<<"r", "u", "e">>)) /\ IsSeq(Text(<<"a", "l", "s", "e">>)) /\ IsSeq(Text(<<"u", "l", "l">>))
    BY WordSeqs
  <2>13. /\ InText(Word("True", text, start, Text(<<"r", "u", "e">>)), text, from)
         /\ InText(Word("False", text, start, Text(<<"a", "l", "s", "e">>)), text, from)
         /\ InText(Word("Null", text, start, Text(<<"u", "l", "l">>)), text, from)
    BY <2>7, <2>12 DEF Ends
  <2>14. InText(tok, text, from)
    <3> HIDE DEF InText
    <3> QED BY <1>2, <2>8, <2>9, <2>10, <2>11, <2>13
  <2> QED BY <2>14 DEF tok
<1> QED BY <1>3, <1>4

\* A sign, and what is behind it.
LEMMA SignedInText ==
  ASSUME NEW text, IsSeq(text), NEW from \in 0 .. Len(text), NEW start \in from .. Len(text),
         start # Len(text)
  PROVE  InText(SignedToken(text, start), text, from)
<1> DEFINE n == Len(text)
           at == start + 1
           infinity == Text(<<"n", "f", "i", "n", "i", "t", "y">>)
           end == match(text, at + 1, infinity)
           tok == SignedToken(text, start)
<1>1. n \in Nat /\ Len(infinity) \in Nat /\ \A p, c : HasAt(text, p, c) => p < n
  BY TextLen, WordSeqs
<1>2. at \in 0 .. n /\ at \in start + 1 .. n
  BY <1>1
<1>3. readNumber(text, at) \in at .. n
  BY <1>2, NumberBounds
<1>4. HasAt(text, at, C("I")) => at + 1 \in start + 1 .. n /\ end \in at + 1 .. n
  <2> HIDE DEF infinity
  <2> QED BY <1>1, <1>2 DEF match
<1>5. ASSUME NEW e \in at .. n, NEW type, type \notin Ends
      PROVE  InText(Token(type, start, e), text, from)
  <2>1. e \in start + 1 .. n
    BY <1>1
  <2> QED BY <1>5, <2>1, LongToken
<1>6. tok = CASE ~HasAt(text, at, C("I")) -> Token("Number", start, readNumber(text, at))
          [] HasAt(text, at, C("I")) /\ features.allowSpecialFloats /\ end > at + 1 ->
                 Token(IF HasAt(text, start, C("-")) THEN "NegInf" ELSE "PosInf", start, end)
          [] OTHER -> Token("Error", start, at + 1)
  BY DEF SignedToken
<1>7. HasAt(text, at, C("I")) => at + 1 \in at .. n /\ end \in at .. n
  <2> HIDE DEF end
  <2> QED BY <1>1, <1>2, <1>4
<1> HIDE DEF end, at, n, tok
<1>8. InText(tok, text, from)
  <2>1. InText(Token("Number", start, readNumber(text, at)), text, from)
    BY <1>3, <1>5 DEF Ends
  <2>2. ASSUME HasAt(text, at, C("I"))
        PROVE  /\ InText(Token("NegInf", start, end), text, from)
               /\ InText(Token("PosInf", start, end), text, from)
               /\ InText(Token("Error", start, at + 1), text, from)
    BY <1>5, <1>7, <2>2 DEF Ends
  <2> HIDE DEF InText
  <2> QED BY <1>6, <2>1, <2>2
<1> QED BY <1>8 DEF tok

\* What readToken of OurReader reads.
LEMMA OurTokenInText ==
  ASSUME NEW text, IsSeq(text), NEW from \in 0 .. Len(text)
  PROVE  InText(OurReadToken(text, from), text, from)
<1> DEFINE n == Len(text)
           start == skipSpaces(text, from)
           c == IF start = n THEN 0 ELSE text[start + 1]
           tok == OurReadToken(text, from)
<1>1. n \in Nat /\ start \in from .. n /\ start \in 0 .. n
  <2>1. n \in Nat
    BY TextLen
  <2>2. start \in from .. n
    BY SpanBounds DEF skipSpaces
  <2> HIDE DEF start
  <2> QED BY <2>1, <2>2
<1>2. tok = CASE c = C("'") /\ features.allowSingleQuotes ->
                 Checked("String", start, readString(text, start + 1, c))
          [] c \in {C("-"), C("+")} -> SignedToken(text, start)
          [] c = C("N") /\ features.allowSpecialFloats ->
                 Word("NaN", text, start, Text(<<"a", "N">>))
          [] c = C("I") /\ features.allowSpecialFloats ->
                 Word("PosInf", text, start, Text(<<"n", "f", "i", "n", "i", "t", "y">>))
          [] OTHER -> readToken(text, from)
  BY DEF OurReadToken
<1>3. InText(readToken(text, from), text, from)
  BY TokenInText
<1>4. CASE start = n
  <2>1. c = 0
    BY <1>4
  <2> HIDE DEF c, n, start, tok
  <2>2. c # C("'") /\ c # C("-") /\ c # C("+") /\ c # C("N") /\ c # C("I")
    BY <2>1, NotNul
  <2>3. tok = readToken(text, from)
    BY <1>2, <2>2
  <2>4. InText(tok, text, from)
    BY <1>3, <2>3
  <2> QED BY <2>4 DEF tok
<1>5. CASE start # n
  <2>1. start + 1 \in 0 .. n /\ start + 1 \in start + 1 .. n
    BY <1>1, <1>5
  <2> HIDE DEF c, n, start, tok
  <2>2. InText(Checked("String", start, readString(text, start + 1, c)), text, from)
    <3>1. readString(text, start + 1, c).end \in start + 1 .. n
      BY <2>1, StringBounds DEF n
    <3> QED BY <1>1, <3>1, LongToken DEF Checked, Ends, n
  <2>3. InText(SignedToken(text, start), text, from)
    BY <1>1, <1>5, SignedInText DEF n
  <2>4. ASSUME NEW type, type \notin Ends, NEW rest, IsSeq(rest)
        PROVE  InText(Word(type, text, start, rest), text, from)
    <3> DEFINE w == Word(type, text, start, rest)
    <3>1. w.start = start /\ w.end \in start + 1 .. n /\ w.type \in {type, "Error"}
      <4>1. start < Len(text)
        BY <1>1, <1>5 DEF n
      <4> QED BY <1>1, <2>4, <4>1, WordBounds DEF n
    <3>2. w.type \notin Ends
      BY <2>4, <3>1 DEF Ends
    <3> HIDE DEF w
    <3>3. InText(w, text, from)
      BY <1>1, <3>1, <3>2 DEF InText, n
    <3> QED BY <3>3 DEF w
  <2>5. IsSeq(Text(<<"a", "N">>)) /\ IsSeq(Text(<<"n", "f", "i", "n", "i", "t", "y">>))
    BY WordSeqs
  <2>6. /\ InText(Word("NaN", text, start, Text(<<"a", "N">>)), text, from)
        /\ InText(Word("PosInf", text, start, Text(<<"n", "f", "i", "n", "i", "t", "y">>)), text, from)
    BY <2>4, <2>5 DEF Ends
  <2>7. InText(tok, text, from)
    <3> HIDE DEF InText
    <3> QED BY <1>2, <1>3, <2>2, <2>3, <2>6
  <2> QED BY <2>7 DEF tok
<1> QED BY <1>4, <1>5

-----------------------------------------------------------------------------
(***************************************************************************)
(* Every step reads on.                                                    *)
(***************************************************************************)

\* The invariant: current_ lies in the text.
Position ==
    /\ IsSeq(document) /\ current \in 0 .. Len(document)
    /\ parses \in Nat

\* What a step that does not take a character does instead: it leaves a
\* container, or comes closer to that.
Nearer ==
    \/ Len(frames') < Len(frames)
    \/ Len(frames') = Len(frames) /\ Rank[pc'] < Rank[pc]

Moves == current' > current \/ (current' = current /\ Nearer)

\* A step that takes a token.
LEMMA TokenMoves ==
  ASSUME Position, NEW token, InText(token, document, current), UNCHANGED input,
         current' = token.end, token.type = "EndOfStream" => Nearer
  PROVE  Position' /\ Moves
<1>1. Len(document) \in Nat
  BY TextLen DEF Position
<1>2. token.start \in current .. Len(document) /\ token.end \in token.start .. Len(document)
      /\ (token.end = token.start => token.type = "EndOfStream")
  BY DEF InText
<1>3. document' = document /\ parses' = parses
  BY DEF input
<1>4. current \in 0 .. Len(document)
  BY DEF Position
<1>5. current' \in 0 .. Len(document') /\ current' >= current
  BY <1>1, <1>2, <1>3, <1>4
<1>6. current' > current \/ Nearer
  BY <1>1, <1>2, <1>4
<1>7. Position'
  BY <1>3, <1>5 DEF Position
<1> HIDE DEF Nearer
<1>8. Moves
  BY <1>1, <1>4, <1>5, <1>6 DEF Moves
<1> QED BY <1>7, <1>8

\* A step that takes none, or a character of its own.
LEMMA PlaceMoves ==
  ASSUME Position, UNCHANGED input, current' \in current .. Len(document),
         current' = current => Nearer
  PROVE  Position' /\ Moves
<1>1. Len(document) \in Nat
  BY TextLen DEF Position
<1>2. document' = document /\ parses' = parses
  BY DEF input
<1>3. current \in 0 .. Len(document)
  BY DEF Position
<1>4. Position'
  BY <1>1, <1>2, <1>3 DEF Position
<1> HIDE DEF Nearer
<1>5. Moves
  BY <1>1, <1>3 DEF Moves
<1> QED BY <1>4, <1>5

\* addErrorAndRecover comes closer to the end of its container.
LEMMA FailNearer ==
  ASSUME pc \in {"name", "colon", "comma", "commented", "next"}, Stay("recover")
  PROVE  Nearer
BY DEF Stay, Nearer, Rank

\* And so does a readValue that returns.
LEMMA ReturnNearer ==
  ASSUME pc = "value", NEW successful, Return(frames, successful)
  PROVE  Nearer
<1>1. frames' = frames /\ pc' \in {"finish", "recover", "comma", "next"}
  BY DEF Return
<1> QED BY <1>1 DEF Nearer, Rank

\* A container ends.
LEMMA CloseNearer ==
  ASSUME Walk, pc \notin Settled, NEW successful, NEW end, Close(successful, end)
  PROVE  Nearer
<1>1. Len(Front(frames)) < Len(frames)
  BY Stacks, FrontOf DEF Walk
<1> QED BY <1>1 DEF Close, Return, Nearer

\* The steps that take a token.
LEMMA StepMoves ==
  ASSUME Walk, Position, NEW token, InText(token, document, current), NEW value, NEW same,
         \/ Comment(token, same) \/ ReadScalar(token, value) \/ Open(token) \/ NotAValue(token)
         \/ ReadName(token, value, same) \/ ReadColon(token, same) \/ ReadComma(token)
         \/ ReadNext(token) \/ Recover(token) \/ Finish(token, value)
  PROVE  Position' /\ Moves
<1>1. CASE Comment(token, same) \/ ReadScalar(token, value) \/ Open(token)
  <2>1. UNCHANGED input /\ current' = token.end
    BY <1>1 DEF Comment, ReadScalar, Open
  <2>2. token.type # "EndOfStream"
    BY <1>1 DEF Comment, ReadScalar, Open, Scalars
  <2> QED BY <2>1, <2>2, TokenMoves
<1>2. CASE NotAValue(token)
  <2>1. UNCHANGED input /\ current' = token.end /\ pc = "value" /\ Return(frames, FALSE)
    BY <1>2 DEF NotAValue, AtValue
  <2> QED BY <2>1, TokenMoves, ReturnNearer
<1>3. CASE ReadName(token, value, same)
  <2>1. UNCHANGED input /\ current' = token.end /\ pc = "name"
    BY <1>3 DEF ReadName, Close, Fail
  <2>2. token.type = "EndOfStream" => Stay("recover")
    BY <1>3 DEF ReadName, IsName, Fail
  <2> QED BY <2>1, <2>2, TokenMoves, FailNearer
<1>4. CASE ReadColon(token, same)
  <2>1. UNCHANGED input /\ current' = token.end /\ pc = "colon"
    BY <1>4 DEF ReadColon
  <2>2. token.type = "EndOfStream" => Stay("recover")
    BY <1>4 DEF ReadColon
  <2> QED BY <2>1, <2>2, TokenMoves, FailNearer
<1>5. CASE ReadComma(token)
  <2>1. UNCHANGED input /\ current' = token.end /\ pc \in {"comma", "commented"}
    BY <1>5 DEF ReadComma, Close, Fail
  <2>2. token.type = "EndOfStream" => Stay("recover") \/ (pc = "commented" /\ Stay("name"))
    BY <1>5 DEF ReadComma, Fail
  <2>3. pc = "commented" /\ Stay("name") => Nearer
    BY DEF Stay, Nearer, Rank
  <2> QED BY <2>1, <2>2, <2>3, TokenMoves, FailNearer
<1>6. CASE ReadNext(token)
  <2>1. UNCHANGED input /\ current' = token.end /\ pc = "next"
    BY <1>6 DEF ReadNext, Close, Fail
  <2>2. token.type = "EndOfStream" => Stay("recover")
    BY <1>6 DEF ReadNext, Fail
  <2> QED BY <2>1, <2>2, TokenMoves, FailNearer
<1>7. CASE Recover(token)
  <2>1. UNCHANGED input /\ current' = token.end /\ pc \notin Settled
    BY <1>7 DEF Recover, Close, Settled
  <2>2. token.type = "EndOfStream" => Close(FALSE, token.end)
    BY <1>7 DEF Recover
  <2> QED BY <2>1, <2>2, TokenMoves, CloseNearer
<1>8. CASE Finish(token, value)
  <2>1. UNCHANGED input /\ current' = token.end /\ pc = "finish" /\ pc' = "done" /\ frames' = frames
    BY <1>8 DEF Finish
  <2>2. Nearer
    BY <2>1 DEF Nearer, Rank
  <2> QED BY <2>1, <2>2, TokenMoves
<1> QED BY <1>1, <1>2, <1>3, <1>4, <1>5, <1>6, <1>7, <1>8

\* The token that is put back is one character, and nothing is read.
LEMMA ReadDroppedNullMoves ==
  ASSUME Position, NEW token, InText(token, document, current), ReadDroppedNull(token)
  PROVE  Position' /\ Moves
<1>1. /\ UNCHANGED input /\ current' = token.end - 1 /\ pc = "value" /\ Return(frames, TRUE)
      /\ token.type \in Ends
  BY DEF ReadDroppedNull, AtValue
<1>2. Len(document) \in Nat /\ current \in 0 .. Len(document)
  BY TextLen DEF Position
<1>3. token.start \in current .. Len(document) /\ token.end = token.start + 1
  BY <1>1 DEF InText
<1>4. current' \in current .. Len(document)
  BY <1>1, <1>2, <1>3
<1> QED BY <1>1, <1>4, ReturnNearer, PlaceMoves

\* The exception takes nothing and ends parse().
LEMMA ThrowMoves ==
  ASSUME Position, Throw
  PROVE  Position' /\ Moves
<1>1. UNCHANGED input /\ current' = current /\ Nearer
  BY DEF Throw, Nearer, Rank
<1>2. current \in current .. Len(document)
  BY TextLen DEF Position
<1> QED BY <1>1, <1>2, PlaceMoves

\* readArray takes the bracket that ends it, or turns to its next element.
LEMMA ReadElementMoves ==
  ASSUME Walk, Position, NEW mayEnd, ReadElement(mayEnd)
  PROVE  Position' /\ Moves
<1> DEFINE at == skipSpaces(document, current)
<1>1. Len(document) \in Nat /\ current \in 0 .. Len(document)
      /\ \A p, c : HasAt(document, p, c) => p < Len(document)
  BY TextLen DEF Position
<1>2. at \in current .. Len(document)
  BY SpanBounds DEF Position, skipSpaces
<1>3. UNCHANGED input /\ pc = "element"
  BY DEF ReadElement
<1>4. \/ HasAt(document, at, C("]")) /\ Close(TRUE, at + 1)
      \/ current' = at /\ pc' = "value" /\ frames' = [frames EXCEPT ![Len(frames)].index = @ + 1]
  BY DEF ReadElement
<1> HIDE DEF at
<1>5. CASE HasAt(document, at, C("]")) /\ Close(TRUE, at + 1)
  <2>1. current' = at + 1
    BY <1>5 DEF Close
  <2>2. current' \in current .. Len(document) /\ current' # current
    BY <1>1, <1>2, <1>5, <2>1
  <2> QED BY <1>3, <2>2, PlaceMoves
<1>6. CASE current' = at /\ pc' = "value" /\ frames' = [frames EXCEPT ![Len(frames)].index = @ + 1]
  <2>1. Len(frames') = Len(frames)
    <3>1. IsSeq(frames) /\ frames # <<>> 
      BY <1>3, Stacks DEF Walk, Settled
    <3> QED BY <1>6, <3>1, FrameKeeps
  <2>2. Nearer
    BY <1>3, <1>6, <2>1 DEF Nearer, Rank
  <2> QED BY <1>2, <1>3, <1>6, <2>2, PlaceMoves
<1> QED BY <1>4, <1>5, <1>6

\* A text of Documents, or what is left of it without a mark.
LEMMA ParsePlaces ==
  ASSUME Position, MayParse, NEW doc \in Documents[parses + 1], NEW collectComments,
         NEW text, text \in {doc, SubSeq(doc, SkippedBom(doc) + 1, Len(doc))},
         Parse(text, collectComments)
  PROVE  Position'
<1>1. parses + 1 \in 1 .. Len(Documents)
  <2>1. Len(Documents) \in Nat
    BY JsonReaderAssumption, LenProperties
  <2> QED BY <2>1 DEF MayParse, Position
<1>2. doc \in Seq(Byte)
  BY <1>1, JsonReaderAssumption, ElementOfSeq
<1>3. Len(doc) \in Nat
  BY <1>2, LenProperties
<1>4. IsSeq(doc)
  BY <1>2 DEF IsSeq
<1>5. IsSeq(SubSeq(doc, SkippedBom(doc) + 1, Len(doc)))
  <2> DEFINE n == SkippedBom(doc)
  <2>1. n \in Nat
    BY DEF SkippedBom, Mark
  <2> HIDE DEF n
  <2>2. \A i \in n + 1 .. Len(doc) : doc[i] \in Byte
    BY <1>2, <1>3, <2>1, ElementOfSeq
  <2>3. SubSeq(doc, n + 1, Len(doc)) \in Seq(Byte)
    BY <1>3, <2>1, <2>2, SubSeqProperties
  <2> QED BY <2>3 DEF IsSeq, n
<1>6. IsSeq(text)
  BY <1>4, <1>5
<1>7. document' = text /\ current' = 0 /\ parses' = parses + 1
  BY DEF Parse
<1>8. Len(text) \in Nat
  BY <1>6, TextLen
<1> QED BY <1>6, <1>7, <1>8 DEF Position

\* Every step of Reader moves, but for those between two calls of parse().
LEMMA NextMoves ==
  ASSUME Walk, Position, [Next]_vars
  PROVE  Position' /\ (pc \notin {"idle", "done", "thrown"} => UNCHANGED vars \/ Moves)
<1>1. CASE UNCHANGED vars
  BY <1>1 DEF vars, input, Position
<1>2. ASSUME NEW path, NEW extra, pushError(path, extra)
      PROVE  Position' /\ pc = "done"
  BY <1>2 DEF pushError, input, Position
<1>3. ASSUME Step
      PROVE  Position' /\ Moves
  <2>1. CASE \E token \in {readToken(document, current)} :
                 \/ Comment(token, OnSameLine(token))
                 \/ ReadScalar(token, Denoted(token))
                 \/ Open(token) \/ ReadDroppedNull(token) \/ NotAValue(token)
                 \/ ReadName(token, NameOf(token), MayEndAtName)
                 \/ ReadColon(token, OnSameLine(token))
                 \/ ReadComma(token) \/ ReadNext(token) \/ Recover(token) \/ Finish(token, 0)
    <3> DEFINE token == readToken(document, current)
    <3>1. InText(token, document, current)
      BY TokenInText DEF Position
    <3>2. \/ Comment(token, OnSameLine(token))
          \/ ReadScalar(token, Denoted(token))
          \/ Open(token) \/ ReadDroppedNull(token) \/ NotAValue(token)
          \/ ReadName(token, NameOf(token), MayEndAtName)
          \/ ReadColon(token, OnSameLine(token))
          \/ ReadComma(token) \/ ReadNext(token) \/ Recover(token) \/ Finish(token, 0)
      BY <2>1
    <3> HIDE DEF token
    <3> QED BY <3>1, <3>2, StepMoves, ReadDroppedNullMoves
  <2> QED BY <1>3, <2>1, ThrowMoves, ReadElementMoves DEF Step
<1>4. ASSUME MayParse, NEW doc \in Documents[parses + 1], NEW collectComments, Parse(doc, collectComments)
      PROVE  Position' /\ pc \in {"idle", "done", "thrown"}
  BY <1>4, ParsePlaces DEF MayParse
<1> QED BY <1>1, <1>2, <1>3, <1>4 DEF Next

\* Before the first parse() the text is empty.
LEMMA InitPlaces == Init => Position
<1>1. <<>> \in Seq({}) /\ Len(<<>>) = 0
  BY EmptySeq
<1> QED BY <1>1 DEF Init, Position, IsSeq

\* parse() does not read on for ever, whatever it is given, and for every limit:
\* each step takes a character of a text that ends, or leaves a container, or
\* comes closer to that.
THEOREM ReaderAdvances == Spec => Advances
<1> DEFINE Goes == pc \notin {"idle", "done", "thrown"} => Moves
<1>1. Walk /\ Position /\ [Next]_vars => Position' /\ [Goes]_vars
  BY NextMoves
<1>2. Spec => []Walk
  BY ReaderWalks
<1> HIDE DEF Goes
<1>3. Spec => [][Goes]_vars
  BY <1>1, <1>2, InitPlaces, PTL DEF Spec
<1>4. Goes <=> (pc \notin {"idle", "done", "thrown"} =>
                   \/ current' > current
                   \/ current' = current /\ Len(frames') < Len(frames)
                   \/ current' = current /\ Len(frames') = Len(frames) /\ Rank[pc'] < Rank[pc])
  BY DEF Goes, Moves, Nearer
<1>5. Spec => [][pc \notin {"idle", "done", "thrown"} =>
                   \/ current' > current
                   \/ current' = current /\ Len(frames') < Len(frames)
                   \/ current' = current /\ Len(frames') = Len(frames) /\ Rank[pc'] < Rank[pc]]_vars
  BY <1>3, <1>4, PTL
<1> QED BY <1>5 DEF Advances

\* What OurReader reads otherwise: "Duplicate key" for a name, and something
\* behind the end.
LEMMA OurNextMoves ==
  ASSUME Walk, Position, [OurNext]_ourVars
  PROVE  Position' /\ (pc \notin {"idle", "done", "thrown"} => UNCHANGED vars \/ Moves)
<1>1. CASE UNCHANGED ourVars
  BY <1>1 DEF ourVars, vars, input, Position
<1>2. ASSUME NEW token, InText(token, document, current), NEW name, pc = "name", IsDup(token, name),
             Fail(token, "Duplicate key", NoLocation), UNCHANGED input
      PROVE  Position' /\ Moves
  <2>1. token.type # "EndOfStream" /\ current' = token.end
    BY <1>2 DEF IsDup, IsName, Fail
  <2> QED BY <1>2, <2>1, TokenMoves
<1>3. ASSUME NEW token, InText(token, document, current), OurFinish(token)
      PROVE  Position' /\ Moves
  <2>1. CASE /\ pc = "finish" /\ token.type # "EndOfStream"
             /\ current' = token.end /\ UNCHANGED input
    BY <1>3, <2>1, TokenMoves
  <2>2. CASE Finish(token, -bom)
    BY <1>3, <2>2, StepMoves
  <2> QED BY <1>3, <2>1, <2>2 DEF OurFinish
<1>4. ASSUME NEW token, InText(token, document, current),
             \/ OurComment(token) \/ OurReadScalar(token) \/ OurOpen(token)
             \/ OurReadDroppedNull(token) \/ OurNotAValue(token)
             \/ OurReadName(token, OurNameOf(token)) \/ OurReadColon(token) \/ OurReadComma(token)
             \/ OurReadNext(token) \/ OurRecover(token) \/ OurFinish(token)
      PROVE  Position' /\ Moves
  <2>1. CASE OurComment(token) \/ OurReadScalar(token) \/ OurOpen(token) \/ OurNotAValue(token)
             \/ OurReadColon(token) \/ OurReadComma(token) \/ OurReadNext(token) \/ OurRecover(token)
    BY <1>4, <2>1, StepMoves
    DEF OurComment, OurReadScalar, OurOpen, OurNotAValue, OurReadColon, OurReadComma,
        OurReadNext, OurRecover
  <2>2. CASE OurReadName(token, OurNameOf(token))
    <3>1. \/ ReadName(token, OurNameOf(token), OurMayEndAtName)
          \/ /\ pc = "name" /\ IsDup(token, OurNameOf(token))
             /\ Fail(token, "Duplicate key", NoLocation) /\ UNCHANGED input
      BY <2>2 DEF OurReadName
    <3> QED BY <1>2, <1>4, <3>1, StepMoves
  <2>3. CASE OurReadDroppedNull(token)
    BY <1>4, <2>3, ReadDroppedNullMoves DEF OurReadDroppedNull
  <2> QED BY <1>3, <1>4, <2>1, <2>2, <2>3
<1>5. ASSUME OurStep
      PROVE  Position' /\ Moves
  <2>1. CASE OurThrow
    BY <2>1, ThrowMoves DEF OurThrow
  <2>2. CASE OurReadElement
    BY <2>2, ReadElementMoves DEF OurReadElement
  <2>3. InText(OurReadToken(document, current), document, current)
    BY OurTokenInText DEF Position
  <2> QED BY <1>4, <1>5, <2>1, <2>2, <2>3 DEF OurStep
<1>6. ASSUME MayParse, NEW doc \in Documents[parses + 1], NEW collectComments,
             OurParse(doc, collectComments)
      PROVE  Position' /\ pc \in {"idle", "done", "thrown"}
  BY <1>6, ParsePlaces DEF MayParse, OurParse
<1> QED BY <1>1, <1>5, <1>6 DEF OurNext

\* The same of OurReader, with its marks, quotes, signs and special floats.
THEOREM OurReaderAdvances == OurSpec => Advances
<1> DEFINE Goes == pc \notin {"idle", "done", "thrown"} => Moves
<1>1. Walk /\ Position /\ [OurNext]_ourVars => Position' /\ [Goes]_vars
  BY OurNextMoves
<1>2. OurSpec => []Walk
  BY OurReaderWalks
<1>3. OurInit => Position
  BY InitPlaces DEF OurInit
<1> HIDE DEF Goes
<1>4. OurSpec => [][Goes]_vars
  BY <1>1, <1>2, <1>3, PTL DEF OurSpec
<1>5. Goes <=> (pc \notin {"idle", "done", "thrown"} =>
                   \/ current' > current
                   \/ current' = current /\ Len(frames') < Len(frames)
                   \/ current' = current /\ Len(frames') = Len(frames) /\ Rank[pc'] < Rank[pc])
  BY DEF Goes, Moves, Nearer
<1>6. OurSpec => [][pc \notin {"idle", "done", "thrown"} =>
                   \/ current' > current
                   \/ current' = current /\ Len(frames') < Len(frames)
                   \/ current' = current /\ Len(frames') = Len(frames) /\ Rank[pc'] < Rank[pc]]_vars
  BY <1>4, <1>5, PTL
<1> QED BY <1>6 DEF Advances

-----------------------------------------------------------------------------
(****************************************************************************)
(* The line and the column of a location.                                  *)
(****************************************************************************)
\* A line of a text ends with a character: "\n", or "\r" without one behind it.
LineEnds(text, p) == text[p] = LF \/ (text[p] = CR /\ ~HasAt(text, p, LF))

\* What the loop of getLocationLineAndColumn finds from p on: no line that ends
\* before the location, or how many do up to the last one that does.
LinesFrom(text, p, location, found) ==
    \/ /\ found = [lines |-> 0, start |-> NoLocation]
       /\ \A q \in p + 1 .. location : ~LineEnds(text, q)
    \/ /\ found.start \in p + 1 .. location /\ LineEnds(text, found.start)
       /\ \A q \in found.start + 1 .. location : ~LineEnds(text, q)
       /\ found.lines = Cardinality({q \in p + 1 .. found.start : LineEnds(text, q)})
       /\ found.lines \in Nat

\* One line more, before those.
LEMMA LineMore ==
  ASSUME NEW text, NEW location \in Nat, NEW p \in Nat, NEW next \in p + 1 .. p + 2, next <= location,
         LineEnds(text, next), \A q \in p + 1 .. next - 1 : ~LineEnds(text, q),
         NEW rest, LinesFrom(text, next, location, rest)
  PROVE  LinesFrom(text, p, location, [lines |-> rest.lines + 1,
                             start |-> IF rest.start = NoLocation THEN next ELSE rest.start])
<1> DEFINE found == [lines |-> rest.lines + 1,
                     start |-> IF rest.start = NoLocation THEN next ELSE rest.start]
<1>1. location \in Nat /\ p \in Nat
  OBVIOUS
<1>2. CASE /\ rest = [lines |-> 0, start |-> NoLocation]
           /\ \A q \in next + 1 .. location : ~LineEnds(text, q)
  <2>1. found.lines = 1 /\ found.start = next
    BY <1>2
  <2>2. {q \in p + 1 .. next : LineEnds(text, q)} = {next}
    BY <1>1
  <2>3. Cardinality({next}) = 1
    BY OneAlone
  <2>5. /\ found.start \in p + 1 .. location /\ LineEnds(text, found.start)
        /\ \A q \in found.start + 1 .. location : ~LineEnds(text, q)
        /\ found.lines = Cardinality({q \in p + 1 .. found.start : LineEnds(text, q)})
        /\ found.lines \in Nat
    <3> HIDE DEF found
    <3>1. /\ found.start \in p + 1 .. location /\ LineEnds(text, found.start)
          /\ \A q \in found.start + 1 .. location : ~LineEnds(text, q)
      BY <1>1, <1>2, <2>1
    <3>2. {q \in p + 1 .. found.start : LineEnds(text, q)} = {next}
      BY <2>1, <2>2
    <3>3. found.lines = Cardinality({q \in p + 1 .. found.start : LineEnds(text, q)})
      <4> DEFINE D == {q \in p + 1 .. found.start : LineEnds(text, q)}
      <4>1. D = {next}
        BY <3>2
      <4> HIDE DEF D
      <4> QED
        BY <2>1, <2>3, <4>1 DEF D
    <3> QED
      BY <2>1, <3>1, <3>3
  <2> HIDE DEF found
  <2>4. LinesFrom(text, p, location, found)
    BY <2>5 DEF LinesFrom
  <2> QED
    BY <2>4 DEF found
<1>3. CASE /\ rest.start \in next + 1 .. location /\ LineEnds(text, rest.start)
           /\ \A q \in rest.start + 1 .. location : ~LineEnds(text, q)
           /\ rest.lines = Cardinality({q \in next + 1 .. rest.start : LineEnds(text, q)})
           /\ rest.lines \in Nat
  <2> DEFINE B == {q \in next + 1 .. rest.start : LineEnds(text, q)}
  <2>1. found.lines = rest.lines + 1 /\ found.start = rest.start
    BY <1>1, <1>3 DEF NoLocation
  <2>2. {q \in p + 1 .. rest.start : LineEnds(text, q)} = B \cup {next}
    BY <1>1, <1>3
  <2>3. next \notin B
    BY <1>1, <1>3
  <2>4. Cardinality(B \cup {next}) = Cardinality(B) + 1
    <3>1. B \in SUBSET (next + 1 .. rest.start) /\ next + 1 \in Int /\ rest.start \in Int
      BY <1>1, <1>3
    <3> HIDE DEF B
    <3> QED
      BY <2>3, <3>1, OneMore
  <2>5. rest.start \in p + 1 .. location
    BY <1>1, <1>3
  <2>7. /\ found.start \in p + 1 .. location /\ LineEnds(text, found.start)
        /\ \A q \in found.start + 1 .. location : ~LineEnds(text, q)
        /\ found.lines = Cardinality({q \in p + 1 .. found.start : LineEnds(text, q)})
        /\ found.lines \in Nat
    <3> HIDE DEF found
    <3>1. /\ found.start \in p + 1 .. location /\ LineEnds(text, found.start)
          /\ \A q \in found.start + 1 .. location : ~LineEnds(text, q)
      BY <1>3, <2>1, <2>5
    <3>2. {q \in p + 1 .. found.start : LineEnds(text, q)} = B \cup {next}
      BY <2>1, <2>2
    <3>3. Cardinality(B) = rest.lines
      BY <1>3
    <3> HIDE DEF B
    <3>4. found.lines = Cardinality({q \in p + 1 .. found.start : LineEnds(text, q)})
      BY <2>1, <2>4, <3>2, <3>3, Zenon
    <3>5. found.lines \in Nat
      BY <1>3, <2>1
    <3> QED
      BY <3>1, <3>4, <3>5
  <2> HIDE DEF found
  <2>6. LinesFrom(text, p, location, found)
    BY <2>7 DEF LinesFrom
  <2> QED
    BY <2>6 DEF found
<1> QED
  BY <1>2, <1>3 DEF LinesFrom

\* A character that ends no line.
LEMMA LineSame ==
  ASSUME NEW text, NEW location \in Nat, NEW p \in Nat, ~LineEnds(text, p + 1),
         NEW rest, LinesFrom(text, p + 1, location, rest)
  PROVE  LinesFrom(text, p, location, rest)
<1>1. location \in Nat /\ p \in Nat
  OBVIOUS
<1>2. CASE /\ rest = [lines |-> 0, start |-> NoLocation]
           /\ \A q \in p + 1 + 1 .. location : ~LineEnds(text, q)
  <2>1. \A q \in p + 1 .. location : q = p + 1 \/ q \in p + 1 + 1 .. location
    BY <1>1
  <2> QED
    BY <1>2, <2>1 DEF LinesFrom
<1>3. CASE /\ rest.start \in p + 1 + 1 .. location /\ LineEnds(text, rest.start)
           /\ \A q \in rest.start + 1 .. location : ~LineEnds(text, q)
           /\ rest.lines = Cardinality({q \in p + 1 + 1 .. rest.start : LineEnds(text, q)})
           /\ rest.lines \in Nat
  <2>1. {q \in p + 1 + 1 .. rest.start : LineEnds(text, q)} = {q \in p + 1 .. rest.start : LineEnds(text, q)}
    BY <1>1, <1>3
  <2>2. rest.start \in p + 1 .. location
    BY <1>1, <1>3
  <2> QED
    BY <1>3, <2>1, <2>2 DEF LinesFrom
<1> QED
  BY <1>2, <1>3 DEF LinesFrom

\* Where a location is: a line that begins at p, and a column in it.
PointsTo(text, location, at) ==
    \E p \in 0 .. location :
        /\ p = 0 \/ LineEnds(text, p)
        /\ at.line - 1 = Cardinality({q \in 1 .. p : LineEnds(text, q)})
        /\ location = p + at.column - 1
        /\ \A q \in p + 1 .. location : ~LineEnds(text, q)

\* A line and column are those of the location, for one in the text that does
\* not split a line end.
LEMMA LocationFound ==
  ASSUME IsSeq(document), NEW location \in 0 .. Len(document), ~SplitsLineEnd(location)
  PROVE  PointsTo(document, location, getLocationLineAndColumn(location))
<1> DEFINE n == Len(document)
           S == [lines : Nat, start : Int]
           none == [lines |-> 0, start |-> NoLocation]
           next(p) == IF HasAt(document, p, CR) /\ HasAt(document, p + 1, LF) THEN p + 2 ELSE p + 1
           one(p, rest) ==
               IF document[p + 1] \notin {CR, LF}
               THEN rest
               ELSE [lines |-> rest.lines + 1,
                     start |-> IF rest.start = NoLocation THEN next(p) ELSE rest.start]
           at(p, f) == IF p >= location \/ p = n THEN none ELSE one(p, f[next(p)])
           body(g) == [p \in 0 .. n |-> at(p, g)]
           behind == CHOOSE g : g = body(g)
           found == behind[0]
<1>1. n \in Nat /\ location \in Nat /\ location <= n /\ \A p, c : HasAt(document, p, c) => p < n
  BY TextLen
<1>2. getLocationLineAndColumn(location) =
          [line |-> found.lines + 1,
           column |-> location - (IF found.start = NoLocation THEN 0 ELSE found.start) + 1]
  BY DEF getLocationLineAndColumn
<1>3. \A p \in 0 .. n : p # n => next(p) \in p + 1 .. n
  BY <1>1
<1>4. none \in S /\ \A p \in 0 .. n, rest \in S : p # n => one(p, rest) \in S
  <2>1. none \in S
    BY DEF NoLocation
  <2>2. ASSUME NEW p \in 0 .. n, NEW rest \in S, p # n
        PROVE  one(p, rest) \in S
    <3>1. next(p) \in Int /\ rest.lines \in Nat /\ rest.start \in Int
      BY <1>1, <1>3, <2>2
    <3> HIDE DEF next
    <3> QED
      BY <2>2, <3>1
  <2> QED
    BY <2>1, <2>2
<1>5. PICK f \in [0 .. n -> S] : \A p \in 0 .. n : f[p] = at(p, f)
  <2> DEFINE step == [x \in (0 .. n) \X [0 .. n -> S] |-> at(x[1], x[2])]
  <2>1. \A p \in 0 .. n, g \in [0 .. n -> S] : at(p, g) \in S /\ step[<<p, g>>] = at(p, g)
    <3>1. ASSUME NEW p \in 0 .. n, NEW g \in [0 .. n -> S]
          PROVE  at(p, g) \in S /\ step[<<p, g>>] = at(p, g)
      <4>1. p # n => next(p) \in 0 .. n
        BY <1>1, <1>3
      <4> HIDE DEF next, none, one, n, S
      <4>2. at(p, g) \in S
        BY <1>4, <4>1
      <4>3. <<p, g>> \in (0 .. n) \X [0 .. n -> S]
        OBVIOUS
      <4> QED
        BY <4>2, <4>3
    <3> QED
      BY <3>1
  <2>2. step \in StepsBack(n, S)
    <3> HIDE DEF at, n, S
    <3>1. ASSUME NEW x \in (0 .. n) \X [0 .. n -> S]
          PROVE  at(x[1], x[2]) \in S
      <4>1. x[1] \in 0 .. n /\ x[2] \in [0 .. n -> S]
        OBVIOUS
      <4> QED
        BY <2>1, <4>1
    <3> QED
      BY <3>1 DEF StepsBack
  <2>3. ASSUME NEW p \in 0 .. n, NEW f \in [0 .. n -> S], NEW g \in [0 .. n -> S],
               \A q \in p + 1 .. n : f[q] = g[q]
        PROVE  at(p, f) = at(p, g)
    <3>1. p # n => f[next(p)] = g[next(p)]
      BY <1>3, <2>3
    <3> HIDE DEF next, n, none, one
    <3> QED
      BY <3>1
  <2>5. LooksBehind(n, S, step)
    <3> HIDE DEF at, step, n, S
    <3>1. ASSUME NEW p \in 0 .. n, NEW f \in [0 .. n -> S], NEW g \in [0 .. n -> S],
                 \A q \in p + 1 .. n : f[q] = g[q]
          PROVE  step[<<p, f>>] = step[<<p, g>>]
      <4>1. step[<<p, f>>] = at(p, f) /\ step[<<p, g>>] = at(p, g)
        BY <2>1, Zenon
      <4>2. at(p, f) = at(p, g)
        BY <2>3, <3>1, Zenon
      <4> QED
        BY <4>1, <4>2, Zenon
    <3> QED
      BY <3>1 DEF LooksBehind
  <2> HIDE DEF step, S, n, at
  <2>4. PICK f \in [0 .. n -> S] : \A p \in 0 .. n : f[p] = step[<<p, f>>]
    BY <1>1, <1>4, <2>2, <2>5, RecursionBack
  <2> QED
    BY <2>1, <2>4
<1>6. behind = body(behind)
  <2> HIDE DEF at
  <2>1. f = body(f)
    BY <1>5
  <2> HIDE DEF body
  <2> QED
    BY <2>1
<1>7. \A p \in 0 .. n : behind[p] = at(p, behind)
  <2> HIDE DEF behind, at
  <2> QED
    BY <1>6
<1> HIDE DEF behind
<1> DEFINE A == {i \in Nat : \A p \in 0 .. n : p >= n - i => LinesFrom(document, p, location, behind[p])}
<1>8. 0 \in A
  <2>1. \A p \in 0 .. n : p >= n - 0 => p = n
    BY <1>1
  <2>2. n \in 0 .. n
    BY <1>1
  <2>3. behind[n] = none
    <3> HIDE DEF n
    <3> QED
      BY <1>7, <2>2
  <2>4. LinesFrom(document, n, location, behind[n])
    BY <1>1, <2>3 DEF LinesFrom
  <2> QED
    BY <2>1, <2>4
<1>9. ASSUME NEW i \in 0 .. n, i \in A
      PROVE  i + 1 \in A
  <2>1. i + 1 \in Nat
    BY <1>1
  <2>2. ASSUME NEW p \in 0 .. n, p >= n - (i + 1)
        PROVE  LinesFrom(document, p, location, behind[p])
    <3>1. CASE p >= location \/ p = n
      <4>1. behind[p] = none
        BY <1>7, <3>1
      <4>2. \A q \in p + 1 .. location : FALSE
        BY <1>1, <3>1
      <4> QED
        BY <4>1, <4>2 DEF LinesFrom
    <3>2. CASE ~(p >= location \/ p = n)
      <4>1. p \in 0 .. n - 1 /\ next(p) \in p + 1 .. n /\ next(p) \in 0 .. n /\ next(p) >= n - i
        BY <1>1, <1>3, <2>2, <3>2
      <4>2. behind[p] = one(p, behind[next(p)])
        <5> HIDE DEF one, next, none, n
        <5> QED
          BY <1>7, <3>2
      <4>3. LinesFrom(document, next(p), location, behind[next(p)])
        <5> HIDE DEF next
        <5> QED
          BY <1>9, <4>1
      <4>4. CASE document[p + 1] \notin {CR, LF}
        <5>1. next(p) = p + 1 /\ ~LineEnds(document, p + 1)
          BY <4>4 DEF HasAt, LineEnds
        <5>2. behind[p] = behind[next(p)]
          <6> HIDE DEF next
          <6> QED
            BY <4>2, <4>4
        <5>3. p \in Nat /\ location \in Nat
          BY <1>1
        <5> HIDE DEF next, n
        <5> QED
          BY <4>3, <5>1, <5>2, <5>3, LineSame
      <4>5. CASE document[p + 1] \in {CR, LF}
        <5>1. /\ LineEnds(document, next(p)) /\ next(p) \in p + 1 .. p + 2
              /\ \A q \in p + 1 .. next(p) - 1 : ~LineEnds(document, q)
          <6>1. CASE HasAt(document, p, CR) /\ HasAt(document, p + 1, LF)
            <7>1. next(p) = p + 2 /\ document[p + 2] = LF /\ document[p + 1] = CR /\ CR # LF
              BY <4>1, <6>1 DEF HasAt, CR, LF
            <7>2. \A q \in p + 1 .. next(p) - 1 : q = p + 1
              BY <1>1, <7>1
            <7> HIDE DEF next
            <7> QED
              BY <6>1, <7>1, <7>2 DEF LineEnds
          <6>2. CASE ~(HasAt(document, p, CR) /\ HasAt(document, p + 1, LF))
            <7>1. next(p) = p + 1 /\ LineEnds(document, p + 1)
              BY <1>1, <4>1, <4>5, <6>2 DEF HasAt, LineEnds
            <7> QED
              BY <1>1, <7>1
          <6> QED
            BY <6>1, <6>2
        <5>2. behind[p] = [lines |-> behind[next(p)].lines + 1,
                           start |-> IF behind[next(p)].start = NoLocation
                                     THEN next(p) ELSE behind[next(p)].start]
          <6> HIDE DEF next
          <6> QED
            BY <4>2, <4>5
        <5> HIDE DEF next, n
        <5>3. next(p) <= location
          <6>1. p < location
            BY <1>1, <3>2
          <6>2. CASE next(p) = p + 1
            BY <1>1, <6>1, <6>2
          <6>3. CASE next(p) # p + 1
            <7>1. HasAt(document, p, CR) /\ HasAt(document, p + 1, LF) /\ next(p) = p + 2
              BY <6>3 DEF next
            <7>2. location # p + 1
              <8>1. ASSUME location = p + 1
                    PROVE  FALSE
                <9>1. /\ p + 1 < Len(document) /\ document[p + 1] = CR /\ document[p + 1 + 1] = LF
                  BY <7>1 DEF HasAt
                <9>2. location \in 1 .. Len(document) - 1
                  BY <1>1, <8>1, <9>1
                <9> QED
                  BY <8>1, <9>1, <9>2 DEF SplitsLineEnd
              <8> QED
                BY <8>1
            <7> QED
              BY <1>1, <6>1, <7>1, <7>2
          <6> QED
            BY <6>2, <6>3
        <5>4. p \in Nat /\ location \in Nat
          BY <1>1
        <5> QED
          BY <4>3, <5>1, <5>2, <5>3, <5>4, LineMore
      <4> QED
        BY <4>4, <4>5
    <3> QED
      BY <3>1, <3>2
  <2> QED
    BY <2>1, <2>2
<1>10. LinesFrom(document, 0, location, found)
  <2>1. n \in A
    <3>1. \A i \in 0 .. n - 1 : i \in 0 .. n
      BY <1>1
    <3>2. n \in 0 .. n
      BY <1>1
    <3> HIDE DEF A, n
    <3> QED
      BY <1>1, <1>8, <1>9, <3>1, <3>2, InductionUpTo
  <2>2. 0 \in 0 .. n /\ 0 >= n - n
    BY <1>1
  <2> HIDE DEF n
  <2> QED
    BY <2>1, <2>2
<1> HIDE DEF A, found
<1> DEFINE start == IF found.start = NoLocation THEN 0 ELSE found.start
           at2 == getLocationLineAndColumn(location)
<1>11. /\ start \in 0 .. location /\ (start = 0 \/ LineEnds(document, start))
       /\ \A q \in start + 1 .. location : ~LineEnds(document, q)
       /\ found.lines = Cardinality({q \in 1 .. start : LineEnds(document, q)}) /\ found.lines \in Nat
  <2>1. CASE /\ found = [lines |-> 0, start |-> NoLocation]
             /\ \A q \in 0 + 1 .. location : ~LineEnds(document, q)
    <3>1. start = 0 /\ found.lines = 0
      BY <2>1
    <3>2. start \in 0 .. location /\ \A q \in start + 1 .. location : ~LineEnds(document, q)
      BY <1>1, <2>1, <3>1
    <3>3. {q \in 1 .. 0 : LineEnds(document, q)} = {}
      OBVIOUS
    <3> HIDE DEF start
    <3>4. found.lines = Cardinality({q \in 1 .. start : LineEnds(document, q)})
      <4> DEFINE D == {q \in 1 .. start : LineEnds(document, q)}
      <4>1. D = {}
        BY <3>1, <3>3
      <4> HIDE DEF D
      <4> QED
        BY <3>1, <4>1, NoneAtAll, Zenon DEF D
    <3>5. found.lines \in Nat
      BY <3>1
    <3> QED
      BY <3>1, <3>2, <3>4, <3>5, Zenon
  <2>2. CASE /\ found.start \in 0 + 1 .. location /\ LineEnds(document, found.start)
             /\ \A q \in found.start + 1 .. location : ~LineEnds(document, q)
             /\ found.lines = Cardinality({q \in 0 + 1 .. found.start : LineEnds(document, q)})
             /\ found.lines \in Nat
    <3>1. start = found.start /\ start \in 0 .. location
      BY <1>1, <2>2 DEF NoLocation
    <3>7. \A q \in start + 1 .. location : ~LineEnds(document, q)
      BY <2>2, <3>1
    <3> HIDE DEF start
    <3> DEFINE D == {q \in 1 .. start : LineEnds(document, q)}
    <3>2. D = {q \in 0 + 1 .. found.start : LineEnds(document, q)}
      BY <3>1
    <3> HIDE DEF D
    <3>3. found.lines = Cardinality(D)
      BY <2>2, <3>2, Zenon
    <3>4. start = 0 \/ LineEnds(document, start)
      BY <2>2, <3>1, Zenon
    <3>5. found.lines = Cardinality({q \in 1 .. start : LineEnds(document, q)})
      BY <3>3, Zenon DEF D
    <3>6. found.lines \in Nat
      BY <2>2, Zenon
    <3> QED
      BY <3>1, <3>4, <3>5, <3>6, <3>7, Zenon
  <2> QED
    BY <1>10, <2>1, <2>2 DEF LinesFrom
<1>14. at2.line = found.lines + 1 /\ at2.column = location - start + 1
  BY <1>2
<1> HIDE DEF start, at2
<1>15. location \in Int /\ start \in Int /\ found.lines \in Int
  BY <1>1, <1>11
<1>12. at2.line - 1 = found.lines /\ location = start + at2.column - 1
  BY <1>14, <1>15
<1>13. PointsTo(document, location, at2)
  BY <1>11, <1>12 DEF PointsTo
<1> QED
  BY <1>13 DEF at2

-----------------------------------------------------------------------------
(****************************************************************************)
(* Where the decoding of a string finds a fault.                           *)
(****************************************************************************)
\* A part of a string, or a fault, between two locations.
PartIn(part, from, to) == part.number \in Int /\ part.end \in from .. to

LEMMA HexInt ==
  ASSUME NEW c \in Byte
  PROVE  HexDigit(c) \in Int
<1>1. /\ Ascii[17] = "0" /\ Ascii[34] = "A" /\ Ascii[66] = "a"
      /\ {17, 34, 66} \subseteq DOMAIN Ascii
  BY DEF Ascii
<1>2. C("0") \in Int /\ C("A") \in Int /\ C("a") \in Int
  BY <1>1, CodeBounds
<1> QED
  BY <1>2 DEF HexDigit, Byte

\* The bytes of a code point.
LEMMA UTF8Bytes ==
  ASSUME NEW cp \in Int
  PROVE  codePointToUTF8(cp) \in Seq(Int)
<1> DEFINE tail(n) == 128 + ((cp \div n) % 64)
           a == 192 + (cp \div 64)
           b == 224 + (cp \div 4096)
           c == 240 + (cp \div 262144)
<1>1. tail(1) \in Int /\ tail(64) \in Int /\ tail(4096) \in Int
  OBVIOUS
<1>2. a \in Int /\ b \in Int /\ c \in Int
  OBVIOUS
<1> DEFINE one == <<cp>>
           two == <<a, tail(1)>>
           three == <<b, tail(64), tail(1)>>
           four == <<c, tail(4096), tail(64), tail(1)>>
           none == <<>>
<1>3. codePointToUTF8(cp) =
           CASE cp <= 127 -> one
             [] 127 < cp /\ cp <= 2047 -> two
             [] 2047 < cp /\ cp <= 65535 -> three
             [] 65535 < cp /\ cp <= 1114111 -> four
             [] OTHER -> none
  BY DEF codePointToUTF8
<1> HIDE DEF tail, a, b, c
<1>4. none \in Seq(Int) /\ one \in Seq(Int) /\ two \in Seq(Int) /\ three \in Seq(Int)
  BY <1>1, <1>2
<1>5. four \in Seq(Int)
  BY <1>1, <1>2
<1> HIDE DEF none, one, two, three, four
<1> QED
  BY <1>3, <1>4, <1>5

\* Four digits, or why there are none.
LEMMA EscapeInText ==
  ASSUME NEW text \in Seq(Byte), NEW end \in 0 .. Len(text), NEW at \in 0 .. end
  PROVE  PartIn(decodeUnicodeEscapeSequence(text, at, end), at, end)
<1> DEFINE digit(i) == HexDigit(text[at + i])
           bad == {i \in 1 .. 4 : digit(i) = -1}
           number == 4096 * digit(1) + 256 * digit(2) + 16 * digit(3) + digit(4)
           few == NoPart("four digits expected", at)
           wrong == NoPart("hexadecimal digit expected", at + Min(bad))
           good4 == Part(number, at + 4)
           part == decodeUnicodeEscapeSequence(text, at, end)
<1>1. Len(text) \in Nat
  BY LenProperties
<1>2. part = CASE end - at < 4 -> few
               [] end - at >= 4 /\ bad # {} -> wrong
               [] OTHER -> good4
  BY DEF decodeUnicodeEscapeSequence
<1>3. bad \in SUBSET Nat /\ bad \subseteq 1 .. 4
  OBVIOUS
<1>4. end - at >= 4 => number \in Int
  <2> SUFFICES ASSUME end - at >= 4
               PROVE  number \in Int
    OBVIOUS
  <2>1. \A i \in 1 .. 4 : at + i \in 1 .. Len(text)
    BY <1>1
  <2>2. \A i \in 1 .. 4 : digit(i) \in Int
    BY <2>1, HexInt, ElementOfSeq
  <2> HIDE DEF digit
  <2> QED
    BY <2>2
<1> HIDE DEF number, bad
<1>5. /\ few.number = 0 /\ few.end = at
      /\ wrong.number = 0 /\ wrong.end = at + Min(bad)
      /\ good4.number = number /\ good4.end = at + 4
  BY DEF NoPart, Part
<1>6. bad # {} => Min(bad) \in 1 .. 4
  BY <1>3, LeastOf
<1>7. end - at >= 4 /\ bad # {} => at + Min(bad) \in at .. end
  BY <1>1, <1>6
<1>8. at \in at .. end /\ (end - at >= 4 => at + 4 \in at .. end)
  BY <1>1
<1> HIDE DEF few, wrong, good4, part
<1>9. \/ part = few
      \/ end - at >= 4 /\ bad # {} /\ part = wrong
      \/ end - at >= 4 /\ part = good4
  BY <1>1, <1>2
<1>10. PartIn(part, at, end)
  BY <1>4, <1>5, <1>7, <1>8, <1>9 DEF PartIn
<1> QED
  BY <1>10 DEF part

\* A code point, of one or two halves.
LEMMA PointInText ==
  ASSUME NEW text \in Seq(Byte), NEW end \in 0 .. Len(text), NEW at \in 0 .. end
  PROVE  PartIn(decodeUnicodeCodePoint(text, at, end), at, end)
<1> DEFINE first == decodeUnicodeEscapeSequence(text, at, end)
           next == first.end
           second == decodeUnicodeEscapeSequence(text, next + 2, end)
           half == SecondHalf(text, first, next, end)
           few == NoPart("six characters expected", next)
           wrong(n) == NoPart("expecting \\u", next + n)
           pair == Pair(first, second)
<1>1. Len(text) \in Nat /\ PartIn(first, at, end)
  BY LenProperties, EscapeInText
<1>2. next \in at .. end /\ first.number \in Int
  <2> HIDE DEF first
  <2> QED
    BY <1>1 DEF PartIn
<1>3. half =
        CASE end - next < 6 -> few
          [] end - next >= 6 /\ ~HasAt(text, next, C("\\")) -> wrong(1)
          [] end - next >= 6 /\ HasAt(text, next, C("\\")) /\ ~HasAt(text, next + 1, C("u")) -> wrong(2)
          [] OTHER -> pair
  BY Zenon DEF SecondHalf
<1>4. decodeUnicodeCodePoint(text, at, end) \in {first, half}
  BY DEF decodeUnicodeCodePoint, CodePoint
<1> HIDE DEF first
<1>5. end - next >= 6 => PartIn(second, next + 2, end)
  <2>1. end - next >= 6 => next + 2 \in 0 .. end
    BY <1>1, <1>2
  <2> HIDE DEF next
  <2> QED
    BY <2>1, EscapeInText
<1> HIDE DEF second, next, half
<1>6. /\ few.number = 0 /\ few.end = next
      /\ \A n \in 1 .. 2 : wrong(n).number = 0 /\ wrong(n).end = next + n
  BY DEF NoPart
<1>7. end - next >= 6 => pair.number \in Int /\ pair.end \in at .. end
  <2> SUFFICES ASSUME end - next >= 6
               PROVE  pair.number \in Int /\ pair.end \in at .. end
    OBVIOUS
  <2>1. second.number \in Int /\ second.end \in at .. end
    BY <1>1, <1>2, <1>5 DEF PartIn
  <2> DEFINE number == 65536 + 1024 * (first.number % 1024) + (second.number % 1024)
  <2>2. number \in Int
    BY <1>2, <2>1
  <2> HIDE DEF number
  <2>3. pair = second \/ (pair.number = number /\ pair.end = second.end)
    <3>1. pair = IF second.ok THEN Part(number, second.end) ELSE second
      BY DEF Pair, number
    <3>2. Part(number, second.end).number = number /\ Part(number, second.end).end = second.end
      BY DEF Part
    <3> HIDE DEF pair
    <3> QED
      BY <3>1, <3>2
  <2> HIDE DEF pair
  <2> QED
    BY <2>1, <2>2, <2>3
<1> HIDE DEF few, wrong, pair
<1>8. \/ half = few
      \/ end - next >= 6 /\ (half = wrong(1) \/ half = wrong(2) \/ half = pair)
  BY <1>1, <1>2, <1>3
<1>9. half.number \in Int /\ half.end \in at .. end
  <2>1. CASE half = few
    BY <1>1, <1>2, <1>6, <2>1
  <2>2. CASE end - next >= 6 /\ (half = wrong(1) \/ half = wrong(2))
    BY <1>1, <1>2, <1>6, <2>2
  <2>3. CASE end - next >= 6 /\ half = pair
    BY <1>7, <2>3
  <2> QED
    BY <1>8, <2>1, <2>2, <2>3
<1> QED
  BY <1>1, <1>4, <1>9 DEF PartIn

\* What decoding yields in a text: bytes, or a fault in it.
Messages(text, end) ==
    {"Empty escape sequence in string", "Bad escape sequence in string"}
    \cup {decodeUnicodeCodePoint(text, p, end).message : p \in 0 .. Len(text)}

Found == {Decoded("string", v) : v \in Seq(Int)}

Refused(text, end) == {Failed(m, x) : m \in Messages(text, end), x \in 0 .. Len(text)}

Decodings(text, end) == Found \cup Refused(text, end)

LEMMA FoundDecodes ==
  ASSUME NEW text, NEW end, NEW v \in Seq(Int)
  PROVE  Decoded("string", v) \in Decodings(text, end)
<1>1. Decoded("string", v) \in Found
  BY DEF Found
<1> QED
  BY <1>1, Zenon DEF Decodings

LEMMA FaultDecodes ==
  ASSUME NEW text, NEW end, NEW m \in Messages(text, end), NEW x \in 0 .. Len(text)
  PROVE  Failed(m, x) \in Decodings(text, end)
<1>1. Failed(m, x) \in Refused(text, end)
  BY DEF Refused
<1> QED
  BY <1>1, Zenon DEF Decodings

\* Bytes before the rest of a string.
Then(bytes, rest) == IF rest.ok THEN Decoded("string", bytes \o rest.val) ELSE rest

LEMMA ThenDecodes ==
  ASSUME NEW text, NEW end, NEW bytes \in Seq(Int), NEW rest \in Decodings(text, end)
  PROVE  Then(bytes, rest) \in Decodings(text, end)
<1>1. CASE rest \in Found
  <2>1. PICK v \in Seq(Int) : rest = Decoded("string", v)
    BY <1>1 DEF Found
  <2>2. rest.val = v /\ rest.ok
    BY <2>1 DEF Decoded
  <2>3. bytes \o v \in Seq(Int)
    BY ConcatProperties
  <2>4. Then(bytes, rest) = Decoded("string", bytes \o v)
    BY <2>2 DEF Then
  <2> QED
    BY <2>3, <2>4, FoundDecodes
<1>2. CASE rest \in Refused(text, end)
  <2>1. ~rest.ok
    BY <1>2 DEF Failed, Refused
  <2> QED
    BY <2>1 DEF Then
<1> QED
  BY <1>1, <1>2 DEF Decodings

LEMMA EscapesByte ==
  ASSUME NEW c \in Byte, c \in DOMAIN Escapes
  PROVE  Escapes[c] \in Int
<1> DEFINE code == CASE c = C("b") -> 8 [] c = C("f") -> 12 [] c = C("n") -> LF
                     [] c = C("r") -> CR [] c = C("t") -> Tab [] OTHER -> c
<1>1. Escapes[c] = code
  BY DEF Escapes
<1>2. c \in Int /\ 8 \in Int /\ 12 \in Int /\ LF \in Int /\ CR \in Int /\ Tab \in Int
  BY DEF Byte, LF, CR, Tab
<1>3. code \in {8, 12, LF, CR, Tab, c}
  BY Zenon
<1> QED
  BY <1>1, <1>2, <1>3

\* decodeString finds bytes, or a fault in the text.
LEMMA StringDecodes ==
  ASSUME NEW text \in Seq(Byte), NEW token, token.start \in Int, token.start >= 0, token.start < Len(text),
         token.end \in Int, token.end >= 1, token.end <= Len(text)
  PROVE  decodeString(text, token) \in Decodings(text, token.end - 1)
<1> DEFINE n == Len(text)
           end == token.end - 1
           S == Decodings(text, end)
           none == Decoded("string", <<>>)
           point(p) == decodeUnicodeCodePoint(text, p + 2, end)
           fault(p) == Failed(point(p).message, point(p).end)
           empty(p) == Failed("Empty escape sequence in string", p + 1)
           bad(p) == Failed("Bad escape sequence in string", p + 2)
           code(p) == codePointToUTF8(point(p).number)
           plain(p) == <<text[p + 1]>>
           escaped(p) == <<Escapes[text[p + 2]]>>
           at(p, f) ==
               IF p >= end \/ HasAt(text, p, C("\""))
               THEN none
               ELSE IF ~HasAt(text, p, C("\\"))
               THEN Then(plain(p), f[p + 1])
               ELSE CASE p + 1 = end -> empty(p)
                      [] p + 1 < end /\ text[p + 2] \in DOMAIN Escapes -> Then(escaped(p), f[p + 2])
                      [] p + 1 < end /\ text[p + 2] = C("u") ->
                             IF point(p).ok THEN Then(code(p), f[point(p).end]) ELSE fault(p)
                      [] OTHER -> bad(p)
           body(g) == [p \in 0 .. n |-> at(p, g)]
           from == CHOOSE g : g = body(g)
<1>1. n \in Nat /\ end \in 0 .. n /\ token.start + 1 \in 0 .. n
  BY LenProperties
<1>2. decodeString(text, token) = from[token.start + 1]
  BY DEF decodeString, Then

<1>3. \A w \in Seq(Int) : Decoded("string", w) \in S
  BY FoundDecodes
<1>4. \A m \in Messages(text, end), x \in 0 .. n : Failed(m, x) \in S
  BY FaultDecodes
<1>5. none \in S
  <2>1. <<>> \in Seq(Int)
    OBVIOUS
  <2> QED
    BY <1>3, <2>1
<1>6. \A p \in 0 .. n : p + 1 < end => p + 2 \in 0 .. n /\ p + 2 \in 0 .. end /\ text[p + 2] \in Byte
  BY <1>1, ElementOfSeq
<1>7. \A p \in 0 .. n : p < end => p + 1 \in 0 .. n /\ plain(p) \in Seq(Int) /\ empty(p) \in S
  <2> SUFFICES ASSUME NEW p \in 0 .. n, p < end
               PROVE  p + 1 \in 0 .. n /\ plain(p) \in Seq(Int) /\ empty(p) \in S
    OBVIOUS
  <2>1. p + 1 \in 0 .. n /\ p + 1 \in 1 .. n
    BY <1>1
  <2>2. text[p + 1] \in Byte
    BY <2>1, ElementOfSeq
  <2>3. text[p + 1] \in Int
    <3>1. \A b \in Byte : b \in Int
      BY ONLY DEF Byte
    <3> QED
      BY ONLY <2>2, <3>1
  <2>5. plain(p) \in Seq(Int)
    BY <2>3
  <2>4. "Empty escape sequence in string" \in Messages(text, end)
    BY Zenon DEF Messages
  <2> HIDE DEF S, plain, n
  <2> QED
    BY <1>4, <2>1, <2>4, <2>5
<1>8. \A p \in 0 .. n : p + 1 < end => bad(p) \in S
  <2>1. "Bad escape sequence in string" \in Messages(text, end)
    BY Zenon DEF Messages
  <2> HIDE DEF S
  <2> QED
    BY <1>4, <1>6, <2>1
<1>9. \A p \in 0 .. n : p + 1 < end /\ text[p + 2] \in DOMAIN Escapes => escaped(p) \in Seq(Int)
  <2> SUFFICES ASSUME NEW p \in 0 .. n, p + 1 < end, text[p + 2] \in DOMAIN Escapes
               PROVE  escaped(p) \in Seq(Int)
    OBVIOUS
  <2>1. Escapes[text[p + 2]] \in Int
    BY <1>6, EscapesByte
  <2> QED
    BY <2>1
<1>10. \A p \in 0 .. n : p + 1 < end =>
           point(p).end \in p + 2 .. n /\ code(p) \in Seq(Int) /\ fault(p) \in S
  <2> SUFFICES ASSUME NEW p \in 0 .. n, p + 1 < end
               PROVE  point(p).end \in p + 2 .. n /\ code(p) \in Seq(Int) /\ fault(p) \in S
    OBVIOUS
  <2>1. p + 2 \in 0 .. n /\ p + 2 \in 0 .. end /\ end \in 0 .. Len(text)
    BY <1>1, <1>6
  <2>2. PartIn(point(p), p + 2, end)
    <3> HIDE DEF end
    <3> QED
      BY <2>1, PointInText
  <2>3. point(p).message \in Messages(text, end)
    BY <2>1, Zenon DEF Messages
  <2> HIDE DEF point, S
  <2>4. point(p).end \in p + 2 .. end /\ point(p).number \in Int
    BY <2>2 DEF PartIn
  <2>5. point(p).end \in p + 2 .. n /\ point(p).end \in 0 .. n
    BY <1>1, <2>4
  <2>6. code(p) \in Seq(Int)
    BY <2>4, UTF8Bytes
  <2> QED
    BY <1>4, <2>3, <2>5, <2>6
<1> HIDE DEF none, plain, escaped, code, fault, empty, bad
<1>11. \A b \in Seq(Int), rest \in S : Then(b, rest) \in S
  BY ThenDecodes
<1>12. ASSUME NEW p \in 0 .. n, NEW g, \A q \in p + 1 .. n : g[q] \in S
       PROVE  at(p, g) \in S
  <2> HIDE DEF S, point
  <2>1. CASE p >= end \/ HasAt(text, p, C("\""))
    BY <1>5, <2>1
  <2>2. CASE ~(p >= end \/ HasAt(text, p, C("\""))) /\ ~HasAt(text, p, C("\\"))
    <3>1. at(p, g) = Then(plain(p), g[p + 1])
      BY <2>2, Zenon
    <3>2. p < end /\ p + 1 \in 0 .. n /\ plain(p) \in Seq(Int)
      <4>1. p < end
        <5> HIDE DEF at, n, end
        <5>1. ~(p >= end)
          BY <2>2
        <5> QED
          BY <1>1, <5>1
      <4> HIDE DEF at, n, end
      <4> QED
        BY <1>7, <4>1
    <3>3. p + 1 \in p + 1 .. n
      BY <1>1, <3>2
    <3> HIDE DEF at
    <3> QED
      BY <1>11, <1>12, <3>1, <3>2, <3>3
  <2>3. CASE ~(p >= end \/ HasAt(text, p, C("\""))) /\ HasAt(text, p, C("\\"))
    <3>1. at(p, g) =
              CASE p + 1 = end -> empty(p)
                [] p + 1 < end /\ text[p + 2] \in DOMAIN Escapes -> Then(escaped(p), g[p + 2])
                [] p + 1 < end /\ text[p + 2] = C("u") ->
                       IF point(p).ok THEN Then(code(p), g[point(p).end]) ELSE fault(p)
                [] OTHER -> bad(p)
      BY <2>3, Zenon
    <3>2. p < end /\ (p + 1 = end \/ p + 1 < end) /\ ~(p + 1 = end /\ p + 1 < end)
      <4> HIDE DEF at, n, end
      <4>1. ~(p >= end)
        BY <2>3
      <4> QED
        BY <1>1, <4>1
    <3>3. empty(p) \in S
      BY <1>7, <3>2
    <3>4. ASSUME p + 1 < end
          PROVE  /\ p + 2 \in 0 .. n /\ bad(p) \in S /\ fault(p) \in S
                 /\ text[p + 2] \in DOMAIN Escapes => Then(escaped(p), g[p + 2]) \in S
                 /\ Then(code(p), g[point(p).end]) \in S
      <4>1. p + 2 \in 0 .. n /\ bad(p) \in S /\ fault(p) \in S
        BY <1>6, <1>8, <1>10, <3>4
      <4>2. point(p).end \in p + 1 .. n /\ code(p) \in Seq(Int)
        BY <1>1, <1>10, <3>4
      <4>3. text[p + 2] \in DOMAIN Escapes => escaped(p) \in Seq(Int)
        BY <1>9, <3>4
      <4>4. g[p + 2] \in S /\ g[point(p).end] \in S
        <5>1. p + 2 \in p + 1 .. n
          BY <1>1, <4>1
        <5> QED
          BY <1>12, <4>2, <5>1
      <4> QED
        BY <1>11, <4>1, <4>2, <4>3, <4>4
    <3> HIDE DEF at, n, end
    <3>5. \/ at(p, g) = empty(p)
          \/ p + 1 < end /\ text[p + 2] \in DOMAIN Escapes /\ at(p, g) = Then(escaped(p), g[p + 2])
          \/ p + 1 < end /\ at(p, g) \in {Then(code(p), g[point(p).end]), fault(p)}
          \/ p + 1 < end /\ at(p, g) = bad(p)
      BY <3>1, <3>2, Zenon
    <3> QED
      BY <3>3, <3>4, <3>5, Zenon
  <2> QED
    BY <2>1, <2>2, <2>3
<1>13. ASSUME NEW p \in 0 .. n, NEW f \in [0 .. n -> S], NEW g \in [0 .. n -> S],
              \A q \in p + 1 .. n : f[q] = g[q]
       PROVE  at(p, f) = at(p, g)
  <2>1. p < end => f[p + 1] = g[p + 1]
    BY <1>1, <1>13
  <2>2. p + 1 < end => f[p + 2] = g[p + 2]
    BY <1>1, <1>13
  <2>3. p + 1 < end => f[point(p).end] = g[point(p).end]
    <3>1. p + 1 < end => point(p).end \in p + 1 .. n
      BY <1>1, <1>10
    <3> HIDE DEF point, end
    <3> QED
      BY <1>13, <3>1
  <2>4. ~(p >= end) => p < end
    BY <1>1
  <2> HIDE DEF S, point, n, end
  <2>5. CASE p >= end
    BY <2>5, Zenon
  <2>6. CASE p < end
    <3>1. CASE p + 1 < end
      <4>1. f[p + 1] = g[p + 1] /\ f[p + 2] = g[p + 2] /\ f[point(p).end] = g[point(p).end]
        BY <2>1, <2>2, <2>3, <2>6, <3>1
      <4> QED
        BY <4>1
    <3>2. CASE ~(p + 1 < end) /\ HasAt(text, p, C("\\"))
      <4>1. p + 1 = end
        BY <1>1, <2>6, <3>2 DEF end
      <4>2. \A h : at(p, h) = IF p >= end \/ HasAt(text, p, C("\"")) THEN none ELSE empty(p)
        BY <3>2, <4>1, Zenon
      <4> HIDE DEF at
      <4> QED
        BY <4>2, Zenon
    <3>3. CASE ~HasAt(text, p, C("\\"))
      <4>1. \A h : at(p, h) = IF p >= end \/ HasAt(text, p, C("\"")) THEN none ELSE Then(plain(p), h[p + 1])
        BY <3>3, Zenon
      <4> HIDE DEF at
      <4> QED
        BY <2>1, <2>6, <4>1, Zenon
    <3> QED
      BY <3>1, <3>2, <3>3, Zenon
  <2> QED
    BY <2>4, <2>5, <2>6, Zenon
<1>14. PICK f \in [0 .. n -> S] : \A p \in 0 .. n : f[p] = at(p, f)
  <2> DEFINE step == [x \in (0 .. n) \X [0 .. n -> S] |-> at(x[1], x[2])]
  <2> HIDE DEF at, n, S
  <2>1. \A p \in 0 .. n, g \in [0 .. n -> S] : step[<<p, g>>] = at(p, g)
    <3> SUFFICES ASSUME NEW p \in 0 .. n, NEW g \in [0 .. n -> S]
                 PROVE  step[<<p, g>>] = at(p, g)
      OBVIOUS
    <3>1. <<p, g>> \in (0 .. n) \X [0 .. n -> S]
      OBVIOUS
    <3> QED
      BY <3>1
  <2>2. step \in StepsBack(n, S)
    <3>1. ASSUME NEW x \in (0 .. n) \X [0 .. n -> S]
          PROVE  at(x[1], x[2]) \in S
      <4>1. x[1] \in 0 .. n /\ x[2] \in [0 .. n -> S] /\ \A q \in x[1] + 1 .. n : q \in 0 .. n
        BY <1>1
      <4> QED
        BY <1>12, <4>1
    <3> QED
      BY <3>1 DEF StepsBack
  <2> HIDE DEF step
  <2>3. LooksBehind(n, S, step)
    <3>1. ASSUME NEW p \in 0 .. n, NEW f \in [0 .. n -> S], NEW g \in [0 .. n -> S],
                 \A q \in p + 1 .. n : f[q] = g[q]
          PROVE  step[<<p, f>>] = step[<<p, g>>]
      <4>1. step[<<p, f>>] = at(p, f) /\ step[<<p, g>>] = at(p, g)
        BY <2>1, Zenon
      <4>2. at(p, f) = at(p, g)
        BY <1>13, <3>1, Zenon
      <4> QED
        BY <4>1, <4>2, Zenon
    <3> QED
      BY <3>1 DEF LooksBehind
  <2>4. PICK f \in [0 .. n -> S] : \A p \in 0 .. n : f[p] = step[<<p, f>>]
    <3>1. n \in Nat /\ none \in S
      BY <1>1, <1>5
    <3> QED
      BY <2>2, <2>3, <3>1, RecursionBack
  <2> QED
    BY <2>1, <2>4
<1>15. from = body(from)
  <2> HIDE DEF at
  <2>1. f = body(f)
    BY <1>14
  <2> HIDE DEF body
  <2> QED
    BY <2>1
<1> HIDE DEF from
<1>16. \A p \in 0 .. n : from[p] = at(p, from)
  <2> HIDE DEF at
  <2> QED
    BY <1>15
<1> DEFINE A == {p \in 0 .. n : from[p] \in S}
<1> HIDE DEF at, n, S
<1>17. ASSUME NEW p \in 0 .. n, \A q \in p + 1 .. n : q \in A
       PROVE  p \in A
  BY <1>12, <1>16, <1>17
<1>18. \A p \in 0 .. n : p \in A
  <2> HIDE DEF A
  <2> QED
    BY <1>1, <1>17, InductionBack
<1> QED
  BY <1>1, <1>2, <1>18 DEF S

-----------------------------------------------------------------------------
(****************************************************************************)
(* The offsets of the Values in a tree.                                    *)
(****************************************************************************)
\* Which Values readObject and readArray are still reading: those of some calls
\* on a path.
Opened(p, path, calls) == \E k \in 0 .. calls - 1 : p = SubSeq(path, 1, k)

\* A place where a line can be counted to.
Fits(location) == location \in 0 .. Len(document) /\ ~SplitsLineEnd(location)

\* Where a Value may begin: in the text, but for a null that was left out.
Starts == {l \in Int : features.allowDroppedNullPlaceholders \/ Fits(l)}

\* The offsets of a Value.
Spot(value) ==
    /\ {"start", "limit"} \subseteq DOMAIN value
    /\ value.start \in Starts /\ value.limit \in Int

LEMMA StartsInt == Starts \subseteq Int
BY DEF Starts

LEMMA FitStarts ==
  ASSUME NEW l, Fits(l)
  PROVE  l \in Starts
<1>1. l \in Int
  BY DEF Fits
<1> QED
  BY <1>1 DEF Starts

\* The beginning of a text always fits.
LEMMA ZeroFits ==
  ASSUME Len(document) \in Nat
  PROVE  Fits(0)
BY DEF Fits, SplitsLineEnd

\* Each Value ends behind its beginning, or is still being read and begins before
\* the location that is reached.
Placed(tree, path, calls, at) ==
    \A p \in DOMAIN tree :
        /\ Spot(tree[p])
        /\ tree[p].start <= tree[p].limit \/ Opened(p, path, calls)
        /\ Opened(p, path, calls) => tree[p].start <= at

\* Reading on.
LEMMA PlacedOn ==
  ASSUME NEW tree, NEW path, NEW calls, NEW at \in Int, NEW on \in Int, on >= at,
         Placed(tree, path, calls, at)
  PROVE  Placed(tree, path, calls, on)
<1>1. ASSUME NEW p \in DOMAIN tree
      PROVE  /\ Spot(tree[p])
             /\ tree[p].start <= tree[p].limit \/ Opened(p, path, calls)
             /\ Opened(p, path, calls) => tree[p].start <= on
  <2>1. /\ Spot(tree[p])
        /\ tree[p].start <= tree[p].limit \/ Opened(p, path, calls)
        /\ Opened(p, path, calls) => tree[p].start <= at
    BY DEF Placed
  <2>2. tree[p].start \in Int
    BY <2>1, StartsInt DEF Spot
  <2> QED
    BY <2>1, <2>2
<1> QED
  BY <1>1 DEF Placed

\* The same Values are still being read.
LEMMA PlacedSame ==
  ASSUME NEW tree, NEW path, NEW calls, NEW at, Placed(tree, path, calls, at),
         NEW other, NEW less, \A p : Opened(p, other, less) <=> Opened(p, path, calls)
  PROVE  Placed(tree, other, less, at)
BY DEF Placed

\* A tree whose offsets are those of another.
LEMMA PlacedAlike ==
  ASSUME NEW tree, NEW path, NEW calls, NEW at, Placed(tree, path, calls, at),
         NEW other, DOMAIN other \subseteq DOMAIN tree,
         \A p \in DOMAIN other :
             /\ DOMAIN other[p] = DOMAIN tree[p]
             /\ other[p].start = tree[p].start /\ other[p].limit = tree[p].limit
  PROVE  Placed(other, path, calls, at)
<1>1. ASSUME NEW p \in DOMAIN other
      PROVE  /\ Spot(other[p])
             /\ other[p].start <= other[p].limit \/ Opened(p, path, calls)
             /\ Opened(p, path, calls) => other[p].start <= at
  <2>1. /\ Spot(tree[p])
        /\ tree[p].start <= tree[p].limit \/ Opened(p, path, calls)
        /\ Opened(p, path, calls) => tree[p].start <= at
    BY DEF Placed
  <2> QED
    BY <2>1 DEF Spot
<1> QED
  BY <1>1 DEF Placed

\* A comment leaves the offsets alone,
LEMMA CommentPlaced ==
  ASSUME NEW tree, NEW path, NEW calls, NEW at, Placed(tree, path, calls, at),
         NEW on, NEW comment, NEW slot
  PROVE  Placed(setComment(tree, on, comment, slot), path, calls, at)
<1> DEFINE text == IF comment # <<>> /\ Last(comment) = LF THEN Front(comment) ELSE comment
           other == setComment(tree, on, comment, slot)
<1>1. other = [tree EXCEPT ![on].comments[slot] = text]
  BY DEF setComment
<1>2. DOMAIN other = DOMAIN tree
  BY <1>1
<1> HIDE DEF other, text
<1>3. ASSUME NEW p \in DOMAIN other
      PROVE  /\ DOMAIN other[p] = DOMAIN tree[p]
             /\ other[p].start = tree[p].start /\ other[p].limit = tree[p].limit
  <2>1. Spot(tree[p])
    BY <1>2 DEF Placed
  <2>2. other[p] = tree[p] \/ other[p] = [tree[p] EXCEPT !.comments = [@ EXCEPT ![slot] = text]]
    BY <1>1, <1>2
  <2> QED
    BY <2>1, <2>2 DEF Spot
<1>4. Placed(other, path, calls, at)
  BY <1>2, <1>3, PlacedAlike
<1> QED
  BY <1>4 DEF other

\* and so does another payload.
LEMMA SwapPlaced ==
  ASSUME NEW tree, NEW path, NEW calls, NEW at, Placed(tree, path, calls, at),
         NEW on, NEW type, NEW val
  PROVE  Placed(swapPayload(tree, on, type, val), path, calls, at)
<1> DEFINE other == swapPayload(tree, on, type, val)
<1>1. DOMAIN other \subseteq DOMAIN tree
  BY SwapPaths
<1>2. \A p \in DOMAIN other : other[p] = IF p = on THEN [tree[p] EXCEPT !.type = type, !.val = val] ELSE tree[p]
  BY DEF swapPayload
<1> HIDE DEF other
<1>3. ASSUME NEW p \in DOMAIN other
      PROVE  /\ DOMAIN other[p] = DOMAIN tree[p]
             /\ other[p].start = tree[p].start /\ other[p].limit = tree[p].limit
  <2>1. Spot(tree[p])
    BY <1>1 DEF Placed
  <2>2. other[p] = tree[p] \/ other[p] = [tree[p] EXCEPT !.type = type, !.val = val]
    BY <1>2
  <2> QED
    BY <2>1, <2>2 DEF Spot
<1>4. Placed(other, path, calls, at)
  BY <1>1, <1>3, PlacedAlike
<1> QED
  BY <1>4 DEF other

\* A Value that is no longer being read, or was not, gets its offsets.
LEMMA OffsetPlaced ==
  ASSUME NEW tree, NEW path, NEW calls, NEW at, Placed(tree, path, calls, at),
         NEW on, ~Opened(on, path, calls), NEW start \in Starts, NEW limit \in Int, start <= limit
  PROVE  Placed(setOffsets(tree, on, start, limit), path, calls, at)
<1> DEFINE other == setOffsets(tree, on, start, limit)
<1>1. DOMAIN other = DOMAIN tree
  BY DEF setOffsets
<1>2. \A p \in DOMAIN tree : other[p] = IF p = on THEN [tree[p] EXCEPT !.start = start, !.limit = limit] ELSE tree[p]
  BY DEF setOffsets
<1> HIDE DEF other
<1>3. ASSUME NEW p \in DOMAIN tree
      PROVE  /\ Spot(other[p])
             /\ other[p].start <= other[p].limit \/ Opened(p, path, calls)
             /\ Opened(p, path, calls) => other[p].start <= at
  <2>1. /\ Spot(tree[p])
        /\ tree[p].start <= tree[p].limit \/ Opened(p, path, calls)
        /\ Opened(p, path, calls) => tree[p].start <= at
    BY DEF Placed
  <2>2. CASE p = on
    <3>1. other[p] = [tree[p] EXCEPT !.start = start, !.limit = limit]
      BY <1>2, <2>2
    <3>2. Spot(other[p]) /\ other[p].start = start /\ other[p].limit = limit
      BY <2>1, <3>1 DEF Spot
    <3> QED
      BY <2>2, <3>2
  <2>3. CASE p # on
    BY <1>2, <2>1, <2>3
  <2> QED
    BY <2>2, <2>3
<1>4. Placed(other, path, calls, at)
  BY <1>1, <1>3 DEF Placed
<1> QED
  BY <1>4 DEF other

\* A Value at a key: a new one has no offsets yet.
LEMMA ResolvePlaced ==
  ASSUME NEW tree, NEW path, NEW calls, NEW at \in Nat, Placed(tree, path, calls, at),
         NEW on, NEW key, Len(document) \in Nat
  PROVE  Placed(resolveReference(tree, on, key), path, calls, at)
<1> DEFINE other == resolveReference(tree, on, key)
<1>1. \A p \in DOMAIN other : other[p] = IF p \in DOMAIN tree THEN tree[p] ELSE Null
  BY DEF resolveReference
<1>2. Spot(Null) /\ Null.start = 0 /\ Null.limit = 0
  BY ZeroFits, FitStarts DEF Spot, Null, Node
<1> HIDE DEF other
<1>3. ASSUME NEW p \in DOMAIN other
      PROVE  /\ Spot(other[p])
             /\ other[p].start <= other[p].limit \/ Opened(p, path, calls)
             /\ Opened(p, path, calls) => other[p].start <= at
  <2>1. CASE p \in DOMAIN tree
    BY <1>1, <2>1 DEF Placed
  <2>2. CASE p \notin DOMAIN tree
    <3>1. other[p] = Null
      BY <1>1, <2>2
    <3> QED
      BY <1>2, <3>1
  <2> QED
    BY <2>1, <2>2
<1>4. Placed(other, path, calls, at)
  BY <1>3 DEF Placed
<1> QED
  BY <1>4 DEF other

\* One more container is being read.
LEMMA OpenedMore ==
  ASSUME NEW path, NEW n \in Nat
  PROVE  \A p : Opened(p, path, n + 1) <=> Opened(p, path, n) \/ p = SubSeq(path, 1, n)
<1>1. \A k \in 0 .. (n + 1) - 1 : k \in 0 .. n - 1 \/ k = n
  OBVIOUS
<1>2. n \in 0 .. (n + 1) - 1 /\ \A k \in 0 .. n - 1 : k \in 0 .. (n + 1) - 1
  OBVIOUS
<1> QED
  BY <1>1, <1>2, Zenon DEF Opened

\* A container begins: the Value at the path is being read from here on.
LEMMA BeginPlaced ==
  ASSUME NEW tree, NEW path, IsSeq(path), NEW at, Placed(tree, path, Len(path), at),
         NEW start \in Starts, start <= at
  PROVE  Placed([tree EXCEPT ![path].start = start], path, Len(path) + 1, at)
<1> DEFINE other == [tree EXCEPT ![path].start = start]
<1>1. Len(path) \in Nat /\ SubSeq(path, 1, Len(path)) = path
  BY Whole
<1>2. \A p : Opened(p, path, Len(path) + 1) <=> Opened(p, path, Len(path)) \/ p = path
  BY <1>1, OpenedMore
<1>3. DOMAIN other = DOMAIN tree
  OBVIOUS
<1>4. \A p \in DOMAIN tree : other[p] = IF p = path THEN [tree[p] EXCEPT !.start = start] ELSE tree[p]
  OBVIOUS
<1> HIDE DEF other
<1>5. ASSUME NEW p \in DOMAIN tree
      PROVE  /\ Spot(other[p])
             /\ other[p].start <= other[p].limit \/ Opened(p, path, Len(path) + 1)
             /\ Opened(p, path, Len(path) + 1) => other[p].start <= at
  <2>1. /\ Spot(tree[p])
        /\ tree[p].start <= tree[p].limit \/ Opened(p, path, Len(path))
        /\ Opened(p, path, Len(path)) => tree[p].start <= at
    BY DEF Placed
  <2>2. CASE p = path
    <3>1. other[p] = [tree[p] EXCEPT !.start = start]
      BY <1>4, <2>2
    <3>2. Spot(other[p]) /\ other[p].start = start
      BY <2>1, <3>1 DEF Spot
    <3> QED
      BY <1>2, <2>2, <3>2
  <2>3. CASE p # path
    BY <1>2, <1>4, <2>1, <2>3
  <2> QED
    BY <2>2, <2>3
<1>6. Placed(other, path, Len(path) + 1, at)
  BY <1>3, <1>5 DEF Placed
<1> QED
  BY <1>6 DEF other

\* A container ends.
LEMMA EndPlaced ==
  ASSUME NEW tree, NEW path, IsSeq(path), NEW at, Placed(tree, path, Len(path) + 1, at),
         at \in Int, NEW limit \in Int, at <= limit
  PROVE  Placed([tree EXCEPT ![path].limit = limit], path, Len(path), limit)
<1> DEFINE other == [tree EXCEPT ![path].limit = limit]
<1>1. Len(path) \in Nat /\ SubSeq(path, 1, Len(path)) = path
  BY Whole
<1>2. \A p : Opened(p, path, Len(path) + 1) <=> Opened(p, path, Len(path)) \/ p = path
  BY <1>1, OpenedMore
<1>3. DOMAIN other = DOMAIN tree
  OBVIOUS
<1>4. \A p \in DOMAIN tree : other[p] = IF p = path THEN [tree[p] EXCEPT !.limit = limit] ELSE tree[p]
  OBVIOUS
<1> HIDE DEF other
<1>5. ASSUME NEW p \in DOMAIN tree
      PROVE  /\ Spot(other[p])
             /\ other[p].start <= other[p].limit \/ Opened(p, path, Len(path))
             /\ Opened(p, path, Len(path)) => other[p].start <= limit
  <2>1. /\ Spot(tree[p])
        /\ tree[p].start <= tree[p].limit \/ Opened(p, path, Len(path) + 1)
        /\ Opened(p, path, Len(path) + 1) => tree[p].start <= at
    BY DEF Placed
  <2>2. tree[p].start \in Int /\ tree[p].limit \in Int
    BY <2>1, StartsInt DEF Spot
  <2>3. CASE p = path
    <3>1. other[p] = [tree[p] EXCEPT !.limit = limit]
      BY <1>4, <2>3
    <3>2. Spot(other[p]) /\ other[p].start = tree[p].start /\ other[p].limit = limit
      BY <2>1, <3>1 DEF Spot
    <3>3. tree[p].start <= at
      BY <1>2, <2>1, <2>3
    <3> QED
      BY <2>2, <3>2, <3>3
  <2>4. CASE p # path
    <3>1. other[p] = tree[p]
      BY <1>4, <2>4
    <3>2. Opened(p, path, Len(path) + 1) <=> Opened(p, path, Len(path))
      BY <1>2, <2>4
    <3> QED
      BY <2>1, <2>2, <3>1, <3>2
  <2> QED
    BY <2>3, <2>4
<1>6. Placed(other, path, Len(path), limit)
  BY <1>3, <1>5 DEF Placed
<1> QED
  BY <1>6 DEF other

-----------------------------------------------------------------------------
(****************************************************************************)
(* What keeps the offsets in order and the errors in the text.             *)
(****************************************************************************)
\* What else an error may refer to: a location in the text, or none.
Seen(location) == location = NoLocation \/ location \in 0 .. Len(document)

\* An error lies in the text, where a line can be counted to unless it is one
\* that the code has no place for.
Located(e) ==
    /\ e.start \in Int /\ e.end \in Int
    /\ e.start <= e.end /\ e.end <= Len(document)
    /\ ~Unplaced(e) => Fits(e.start) /\ Seen(e.extra)

\* The inductive invariants.
Offsets ==
    /\ Placed(root, node, Len(frames), current)
    /\ pc \in {"finish", "done"} => frames = <<>>

Faults ==
    /\ document \in Seq(Byte)
    /\ IsSeq(errors) /\ \A i \in 1 .. Len(errors) : Located(errors[i])

Forward == current \in Nat /\ current' \in Nat /\ current' >= current

\* What a token denotes, or a fault in the text.
Told(value) == ~value.ok => Seen(value.extra)

LEMMA OpenedFront ==
  ASSUME NEW s, IsSeq(s), s # <<>>
  PROVE  \A p : Opened(p, Front(s), Len(s)) <=> Opened(p, s, Len(s))
<1>1. \A k \in 0 .. Len(s) - 1 : SubSeq(Front(s), 1, k) = SubSeq(s, 1, k)
  BY FrontOf
<1> QED
  BY <1>1, Zenon DEF Opened

LEMMA OpenedAppend ==
  ASSUME NEW s, NEW e, IsSeq(s)
  PROVE  \A p : Opened(p, Append(s, e), Len(s) + 1) <=> Opened(p, s, Len(s) + 1)
<1>1. \A k \in 0 .. Len(s) : SubSeq(Append(s, e), 1, k) = SubSeq(s, 1, k)
  BY AppendTo
<1>2. (Len(s) + 1) - 1 = Len(s)
  BY Whole
<1> QED
  BY <1>1, <1>2, Zenon DEF Opened

\* The Value being read is not one of those that are.
LEMMA NotOpened ==
  ASSUME NEW s, IsSeq(s)
  PROVE  ~Opened(s, s, Len(s))
<1>1. PICK S : s \in Seq(S)
  BY DEF IsSeq
<1>2. Len(s) \in Nat
  BY Whole
<1>3. ASSUME NEW k \in 0 .. Len(s) - 1
      PROVE  SubSeq(s, 1, k) # s
  <2>1. k \in 0 .. Len(s) /\ k # Len(s)
    BY <1>2
  <2>2. Len(SubSeq(s, 1, k)) = k
    BY <1>1, <2>1, PrefixOf
  <2> QED
    BY <2>1, <2>2
<1> QED
  BY <1>3 DEF Opened

\* The text and the settings are the same.
LEMMA StartsSame ==
  ASSUME UNCHANGED input
  PROVE  Starts' = Starts
BY DEF input, Starts, Fits, SplitsLineEnd

LEMMA PlacedNext ==
  ASSUME UNCHANGED input, Placed(root', node', Len(frames'), current')
  PROVE  Placed(root, node, Len(frames), current)'
<1>1. Starts' = Starts
  BY StartsSame
<1> QED
  BY <1>1 DEF Placed, Spot

\* A step that leaves the stacks alone.
LEMMA StayOffsets ==
  ASSUME Walk, Forward, UNCHANGED input, node' = node, Len(frames') = Len(frames),
         Placed(root', node, Len(frames), current), pc' \in {"finish", "done"} => frames' = <<>>
  PROVE  Offsets'
<1>1. current \in Int /\ current' \in Int
  BY DEF Forward
<1>2. Placed(root', node, Len(frames), current')
  BY <1>1, PlacedOn DEF Forward
<1> QED
  BY <1>2, PlacedNext DEF Offsets

\* A readValue returns.
LEMMA ReturnOffsets ==
  ASSUME IsSeq(node), NEW outer, IsSeq(outer), Len(outer) = Len(node),
         NEW successful, Return(outer, successful), Placed(root', node, Len(node), current'),
         UNCHANGED input
  PROVE  Offsets'
<1>1. Len(node) = 0 <=> node = <<>>
  BY Whole
<1>2. Len(outer) = 0 <=> outer = <<>>
  BY Whole
<1>3. frames' = outer
  BY DEF Return
<1>4. CASE outer = <<>>
  <2>1. node' = <<>> /\ node = <<>>
    BY <1>1, <1>2, <1>4 DEF Return
  <2> QED
    BY <1>3, <1>4, <2>1, PlacedNext DEF Offsets
<1>5. CASE outer # <<>>
  <2>1. node' = Front(node) /\ node # <<>> /\ pc' \in {"recover", "comma", "next"}
    BY <1>1, <1>2, <1>5 DEF Return
  <2>2. \A p : Opened(p, node', Len(node)) <=> Opened(p, node, Len(node))
    BY <2>1, OpenedFront
  <2>3. Placed(root', node', Len(node), current')
    BY <2>2, PlacedSame
  <2> QED
    BY <1>3, <2>1, <2>3, PlacedNext DEF Offsets
<1> QED
  BY <1>4, <1>5

\* A readValue of something that is no container.
LEMMA ValueOffsets ==
  ASSUME Walk, Forward, pc = "value", NEW successful, Return(frames, successful),
         Placed(root', node, Len(node), current), UNCHANGED input
  PROVE  Offsets'
<1>1. IsSeq(node) /\ IsSeq(frames) /\ Len(frames) = Len(node)
  BY Stacks DEF Walk
<1>2. Placed(root', node, Len(node), current')
  BY PlacedOn DEF Forward
<1> QED
  BY <1>1, <1>2, ReturnOffsets

\* readObject or readArray.
LEMMA CloseOffsets ==
  ASSUME Walk, Offsets, Forward, pc \notin Settled, NEW successful, NEW end, Close(successful, end),
         UNCHANGED input
  PROVE  Offsets'
<1>1. /\ IsSeq(node) /\ IsSeq(frames) /\ frames # <<>> /\ Len(frames) = Len(node) + 1 /\ Len(node) \in Nat
  BY Stacks DEF Walk
<1>2. IsSeq(Front(frames)) /\ Len(Front(frames)) = Len(node)
  BY <1>1, FrontOf
<1>3. end = current' /\ Return(Front(frames), successful) /\ root' = [root EXCEPT ![node].limit = end]
  BY DEF Close
<1>4. Placed(root, node, Len(node) + 1, current)
  BY <1>1 DEF Offsets
<1>5. Placed(root', node, Len(node), current')
  <2>1. current \in Int /\ end \in Int /\ current <= end
    BY <1>3 DEF Forward
  <2>2. Placed([root EXCEPT ![node].limit = end], node, Len(node), end)
    BY <1>1, <1>4, <2>1, EndPlaced
  <2> QED
    BY <1>3, <2>2
<1> QED
  BY <1>1, <1>2, <1>3, <1>5, ReturnOffsets

\* A comment.
LEMMA AddCommentOffsets ==
  ASSUME Offsets, NEW tok, NEW same, AddComment(tok, same)
  PROVE  Placed(root', node, Len(frames), current)
<1>1. root' = root \/ \E text : root' = setComment(root, lastValue, text, AfterOnSameLine)
  BY DEF AddComment
<1> QED
  BY <1>1, CommentPlaced DEF Offsets

LEMMA CommentedOffsets ==
  ASSUME Offsets
  PROVE  Placed(Commented, node, Len(frames), current)
<1>1. Commented = root \/ Commented = setComment(root, node, commentsBefore, Before)
  BY DEF Commented
<1> QED
  BY <1>1, CommentPlaced DEF Offsets

\* A value that is found between two locations.
LEMMA BecomeOffsets ==
  ASSUME Walk, Offsets, pc = "value", NEW type, NEW val, NEW start \in Starts, NEW limit \in Int,
         start <= limit, Become(type, val, start, limit)
  PROVE  Placed(root', node, Len(node), current)
<1>1. IsSeq(node) /\ Len(frames) = Len(node)
  BY Stacks DEF Walk
<1>2. Placed(swapPayload(Commented, node, type, val), node, Len(node), current)
  BY <1>1, CommentedOffsets, SwapPlaced
<1> QED
  BY <1>1, <1>2, NotOpened, OffsetPlaced DEF Become

\* Errors as they are, and with one more.
LEMMA SameFaults ==
  ASSUME Faults, UNCHANGED input, UNCHANGED errors
  PROVE  Faults'
BY DEF Faults, Located, Seen, Fits, SplitsLineEnd, Unplaced, input

LEMMA AddFaults ==
  ASSUME Faults, UNCHANGED input, NEW message, NEW tok, NEW extra, addError(message, tok, extra),
         Located([message |-> message, start |-> tok.start, end |-> tok.end, extra |-> extra])
  PROVE  Faults'
<1> DEFINE e == [message |-> message, start |-> tok.start, end |-> tok.end, extra |-> extra]
<1>1. errors' = Append(errors, e) /\ document' = document
  BY DEF addError, input
<1>2. Located(e)
  OBVIOUS
<1> HIDE DEF e
<1>3. PICK T : errors \in Seq(T)
  BY DEF Faults, IsSeq
<1> DEFINE S == T \cup {e}
<1>4. errors \in Seq(S) /\ e \in S
  BY <1>3, SeqMonotonic
<1> HIDE DEF S
<1>5. /\ errors' \in Seq(S) /\ Len(errors') = Len(errors) + 1 /\ Len(errors) \in Nat
      /\ errors'[Len(errors) + 1] = e
      /\ \A i \in 1 .. Len(errors) : errors'[i] = errors[i]
  BY <1>1, <1>4, AppendProperties, LenProperties
<1>6. ASSUME NEW i \in 1 .. Len(errors')
      PROVE  Located(errors'[i])
  <2>1. i \in 1 .. Len(errors) \/ i = Len(errors) + 1
    BY <1>5
  <2> QED
    BY <1>2, <1>5, <2>1 DEF Faults
<1>7. IsSeq(errors')
  BY <1>5 DEF IsSeq
<1>8. (\A i \in 1 .. Len(errors) : Located(errors[i]))'
  BY <1>6 DEF Located, Seen, Fits, SplitsLineEnd, Unplaced, input
<1> QED
  BY <1>1, <1>7, <1>8 DEF Faults

\* A token that was read begins at a character that is no blank.
ReadIn(token) == InText(token, document, current) /\ Fits(token.start)

\* A token begins behind the blanks, and no line ends inside what it begins with.
LEMMA BlanksSkipped ==
  ASSUME Position
  PROVE  Fits(skipSpaces(document, current))
<1> DEFINE start == skipSpaces(document, current)
           blanks == {C(" "), Tab, CR, LF}
<1>1. Len(document) \in Nat
  BY TextLen DEF Position
<1>2. LF \in blanks
  OBVIOUS
<1>3. start = Span(document, current, blanks)
  BY DEF skipSpaces
<1> HIDE DEF start, blanks
<1>4. start \in current .. Len(document)
  BY <1>3, SpanBounds DEF Position
<1>5. start = Len(document) \/ document[start + 1] \notin blanks
  BY <1>3, SpanStops DEF Position
<1>6. start \in 0 .. Len(document) /\ ~SplitsLineEnd(start)
  BY <1>1, <1>2, <1>4, <1>5 DEF SplitsLineEnd, Position
<1> QED
  BY <1>6 DEF Fits, start

\* Where the tokens of either reader begin.
LEMMA TokenStarts ==
  ASSUME NEW text, NEW from
  PROVE  /\ readToken(text, from).start = skipSpaces(text, from)
         /\ OurReadToken(text, from).start = skipSpaces(text, from)
<1> DEFINE start == skipSpaces(text, from)
           at == start + 1
           c == IF start = Len(text) THEN 0 ELSE text[at]
<1>1. \A type, end : Token(type, start, end).start = start
  BY DEF Token
<1>2. \A type, part : Checked(type, start, part).start = start
  BY DEF Checked, Token
<1>3. \A type, rest : Word(type, text, start, rest).start = start
  BY DEF Word, Token
<1>4. SignedToken(text, start).start = start
  <2> DEFINE end == match(text, at + 1, Text(<<"n", "f", "i", "n", "i", "t", "y">>))
  <2>1. SignedToken(text, start) =
          CASE ~HasAt(text, at, C("I")) -> Token("Number", start, readNumber(text, at))
            [] HasAt(text, at, C("I")) /\ features.allowSpecialFloats /\ end > at + 1 ->
                   Token(IF HasAt(text, start, C("-")) THEN "NegInf" ELSE "PosInf", start, end)
            [] OTHER -> Token("Error", start, at + 1)
    BY DEF SignedToken
  <2> HIDE DEF start, end, at
  <2> QED BY <1>1, <2>1
<1>5. readToken(text, from) =
        CASE c = 0 -> Token("EndOfStream", start, IF start = Len(text) THEN start ELSE at)
          [] c \in DOMAIN Punctuation -> Token(Punctuation[c], start, at)
          [] c = C("\"") -> Checked("String", start, readString(text, at, c))
          [] c = C("/") -> Checked("Comment", start, readComment(text, at))
          [] c \in Digits \cup {C("-")} -> Token("Number", start, readNumber(text, at))
          [] c = C("t") -> Word("True", text, start, Text(<<"r", "u", "e">>))
          [] c = C("f") -> Word("False", text, start, Text(<<"a", "l", "s", "e">>))
          [] c = C("n") -> Word("Null", text, start, Text(<<"u", "l", "l">>))
          [] OTHER -> Token("Error", start, at)
  BY DEF readToken
<1>6. OurReadToken(text, from) =
        CASE c = C("'") /\ features.allowSingleQuotes ->
                 Checked("String", start, readString(text, start + 1, c))
          [] c \in {C("-"), C("+")} -> SignedToken(text, start)
          [] c = C("N") /\ features.allowSpecialFloats ->
                 Word("NaN", text, start, Text(<<"a", "N">>))
          [] c = C("I") /\ features.allowSpecialFloats ->
                 Word("PosInf", text, start, Text(<<"n", "f", "i", "n", "i", "t", "y">>))
          [] OTHER -> readToken(text, from)
  BY DEF OurReadToken
<1> HIDE DEF start, at, c
<1>7. readToken(text, from).start = start
  BY <1>1, <1>2, <1>3, <1>5
<1>8. OurReadToken(text, from).start = start
  BY <1>2, <1>3, <1>4, <1>6, <1>7
<1> QED
  BY <1>7, <1>8 DEF start

LEMMA TokenRead ==
  ASSUME Position
  PROVE  ReadIn(readToken(document, current))
<1>1. InText(readToken(document, current), document, current)
  BY TokenInText DEF Position
<1> QED
  BY <1>1, BlanksSkipped, TokenStarts DEF ReadIn

LEMMA OurTokenRead ==
  ASSUME Position
  PROVE  ReadIn(OurReadToken(document, current))
<1>1. InText(OurReadToken(document, current), document, current)
  BY OurTokenInText DEF Position
<1> QED
  BY <1>1, BlanksSkipped, TokenStarts DEF ReadIn

\* At a token of the text.
LEMMA TokenFaults ==
  ASSUME Faults, Position, UNCHANGED input, NEW message, NEW token, ReadIn(token),
         NEW extra, addError(message, token, extra), Seen(extra)
  PROVE  Faults'
<1>1. Len(document) \in Nat /\ current \in Nat
  BY TextLen DEF Position
<1>2. /\ token.start \in Int /\ token.end \in Int /\ token.start <= token.end /\ token.end <= Len(document)
  BY <1>1 DEF ReadIn, InText
<1>3. Located([message |-> message, start |-> token.start, end |-> token.end, extra |-> extra])
  BY <1>2 DEF Located, ReadIn
<1> QED
  BY <1>3, AddFaults

LEMMA NoExtra == Seen(NoLocation)
BY DEF Seen

-----------------------------------------------------------------------------
(***************************************************************************)
(* What the actions do to both.                                            *)
(***************************************************************************)
Sound == Offsets /\ Faults

LEMMA CommentLocates ==
  ASSUME Walk, Sound, Forward, NEW token, NEW same, Comment(token, same)
  PROVE  Sound'
<1>1. Placed(root', node, Len(frames), current)
  BY AddCommentOffsets DEF Comment, Sound
<1>2. node' = node /\ frames' = frames /\ (pc' = pc \/ pc' = "commented")
  BY DEF Comment, Stay
<1>3. pc' \in {"finish", "done"} => frames' = <<>>
  BY <1>2 DEF Sound, Offsets
<1>4. UNCHANGED input /\ UNCHANGED errors
  BY DEF Comment
<1> QED
  BY <1>1, <1>2, <1>3, <1>4, StayOffsets, SameFaults DEF Sound

LEMMA ReadScalarLocates ==
  ASSUME Walk, Sound, Position, Forward, NEW token, ReadIn(token),
         NEW value, Told(value), ReadScalar(token, value)
  PROVE  Sound'
<1>1. /\ pc = "value" /\ Return(frames, value.ok) /\ UNCHANGED input
      /\ IF value.ok
         THEN /\ Become(value.type, value.val, token.start, token.end)
              /\ UNCHANGED errors
         ELSE /\ root' = Commented
              /\ addError(value.message, token, value.extra)
  BY DEF ReadScalar, AtValue
<1>2. Len(document) \in Nat /\ current \in Nat
  BY TextLen DEF Position
<1>3. token.start \in Starts /\ token.end \in Int /\ token.start <= token.end
  BY <1>2, FitStarts DEF ReadIn, InText
<1>4. Len(frames) = Len(node)
  BY <1>1, Stacks
<1>5. Placed(root', node, Len(node), current)
  <2>1. CASE value.ok
    BY <1>1, <1>3, <2>1, BecomeOffsets DEF Sound
  <2>2. CASE ~value.ok
    BY <1>1, <1>4, <2>2, CommentedOffsets DEF Sound
  <2> QED
    BY <2>1, <2>2
<1>6. Faults'
  <2>1. CASE value.ok
    BY <1>1, <2>1, SameFaults DEF Sound
  <2>2. CASE ~value.ok
    BY <1>1, <2>2, TokenFaults DEF Sound, Told
  <2> QED
    BY <2>1, <2>2
<1> QED
  BY <1>1, <1>5, <1>6, ValueOffsets DEF Sound

LEMMA OpenLocates ==
  ASSUME Walk, Sound, Position, Forward, NEW token, ReadIn(token), Open(token)
  PROVE  Sound'
<1> DEFINE type == IF token.type = "ObjectBegin" THEN "object" ELSE "array"
           frame == [type |-> type, name |-> <<>>, index |-> 0]
           tree == swapPayload(Commented, node, type, <<>>)
<1>1. /\ pc = "value" /\ UNCHANGED input /\ UNCHANGED errors /\ node' = node
      /\ current' = token.end /\ pc' \in {"name", "element"}
      /\ frames' = Append(frames, frame) /\ root' = [tree EXCEPT ![node].start = token.start]
  BY DEF Open, AtValue
<1>2. Len(document) \in Nat /\ current \in Nat
  BY TextLen DEF Position
<1>3. token.start \in Starts /\ token.end \in Int /\ token.start <= token.end /\ current <= token.end
  BY <1>2, FitStarts DEF ReadIn, InText
<1>4. IsSeq(node) /\ IsSeq(frames) /\ Len(frames) = Len(node) /\ Len(node) \in Nat
  BY <1>1, Stacks DEF Walk
<1>5. Placed(tree, node, Len(node), current)
  BY <1>4, CommentedOffsets, SwapPlaced DEF Sound
<1> HIDE DEF tree, frame
<1>6. Placed(tree, node, Len(node), token.end)
  BY <1>2, <1>3, <1>5, PlacedOn
<1>7. Placed([tree EXCEPT ![node].start = token.start], node, Len(node) + 1, token.end)
  BY <1>3, <1>4, <1>6, BeginPlaced
<1>8. Len(frames') = Len(node) + 1
  BY <1>1, <1>4, AppendTo
<1>9. Offsets'
  BY <1>1, <1>7, <1>8, PlacedNext DEF Offsets
<1> QED
  BY <1>1, <1>9, SameFaults DEF Sound

LEMMA ReadDroppedNullLocates ==
  ASSUME Walk, Sound, Position, Forward, NEW token, ReadDroppedNull(token)
  PROVE  Sound'
<1>1. /\ pc = "value" /\ UNCHANGED input /\ UNCHANGED errors /\ Return(frames, TRUE)
      /\ Become("null", <<>>, current' - 1, current')
      /\ features.allowDroppedNullPlaceholders
  BY DEF ReadDroppedNull, AtValue
<1>2. current' - 1 \in Int /\ current' \in Int /\ current' - 1 <= current'
  <2>1. \A n \in Nat : n - 1 \in Int /\ n \in Int /\ n - 1 <= n
    OBVIOUS
  <2> QED
    BY ONLY <2>1, Forward DEF Forward
<1>4. current' - 1 \in Starts
  BY <1>1, <1>2 DEF Starts
<1>3. Placed(root', node, Len(node), current)
  BY <1>1, <1>2, <1>4, BecomeOffsets DEF Sound
<1> QED
  BY <1>1, <1>3, ValueOffsets, SameFaults DEF Sound

LEMMA NotAValueLocates ==
  ASSUME Walk, Sound, Position, Forward, NEW token, ReadIn(token), NotAValue(token)
  PROVE  Sound'
<1>1. /\ pc = "value" /\ UNCHANGED input /\ Return(frames, FALSE)
      /\ root' = setOffsets(Commented, node, token.start, token.end)
      /\ addError("value, object or array expected", token, NoLocation)
  BY DEF NotAValue, AtValue
<1>2. Len(document) \in Nat /\ current \in Nat
  BY TextLen DEF Position
<1>3. token.start \in Starts /\ token.end \in Int /\ token.start <= token.end
  BY <1>2, FitStarts DEF ReadIn, InText
<1>4. IsSeq(node) /\ Len(frames) = Len(node)
  BY <1>1, Stacks DEF Walk
<1>5. Placed(Commented, node, Len(node), current)
  BY <1>4, CommentedOffsets DEF Sound
<1>6. Placed(root', node, Len(node), current)
  BY <1>1, <1>3, <1>4, <1>5, NotOpened, OffsetPlaced
<1>7. Faults'
  BY <1>1, NoExtra, TokenFaults DEF Sound
<1> QED
  BY <1>1, <1>6, <1>7, ValueOffsets DEF Sound

\* addErrorAndRecover.
LEMMA FailLocates ==
  ASSUME Walk, Sound, Position, Forward, NEW token, ReadIn(token),
         NEW message, NEW extra, Fail(token, message, extra), UNCHANGED input,
         Seen(extra)
  PROVE  Sound'
<1>1. /\ addError(message, token, extra) /\ root' = root /\ node' = node /\ frames' = frames
      /\ pc' = "recover"
  BY DEF Fail, Stay
<1>2. Placed(root', node, Len(frames), current)
  BY <1>1 DEF Sound, Offsets
<1>3. Offsets'
  BY <1>1, <1>2, StayOffsets
<1> QED
  BY <1>1, <1>3, TokenFaults DEF Sound

\* A step that leaves the tree alone in a container, and adds no error.
LEMMA PlainLocates ==
  ASSUME Walk, Sound, Forward, UNCHANGED input, UNCHANGED errors, root' = root, node' = node,
         Len(frames') = Len(frames), pc' \notin {"finish", "done"}
  PROVE  Sound'
<1>1. Placed(root', node, Len(frames), current)
  BY DEF Sound, Offsets
<1> QED
  BY <1>1, StayOffsets, SameFaults DEF Sound

LEMMA CloseLocates ==
  ASSUME Walk, Sound, Forward, pc \notin Settled, NEW successful, NEW end, Close(successful, end),
         UNCHANGED input, UNCHANGED errors
  PROVE  Sound'
BY CloseOffsets, SameFaults DEF Sound

LEMMA ReadNameLocates ==
  ASSUME Walk, Sound, Position, Forward, NEW token, ReadIn(token),
         NEW name, Told(name), NEW mayEnd, ReadName(token, name, mayEnd)
  PROVE  Sound'
<1>1. pc \notin Settled /\ UNCHANGED input
  BY PointsOf DEF ReadName
<1>2. \/ Close(TRUE, token.end) /\ UNCHANGED errors
      \/ /\ frames' = [frames EXCEPT ![Len(frames)].name = name.val]
         /\ pc' = "colon" /\ UNCHANGED <<node, ok, errors, root, notes>>
      \/ ~name.ok /\ Fail(token, name.message, name.extra)
      \/ Fail(token, "Missing '}' or object member name", NoLocation)
  BY DEF ReadName
<1>3. CASE Close(TRUE, token.end) /\ UNCHANGED errors
  BY <1>1, <1>3, CloseLocates
<1>4. CASE /\ frames' = [frames EXCEPT ![Len(frames)].name = name.val]
           /\ pc' = "colon" /\ UNCHANGED <<node, ok, errors, root, notes>>
  <2>1. Len(frames') = Len(frames)
    BY <1>1, <1>4, Stacks, FrameKeeps DEF Walk
  <2> QED
    BY <1>1, <1>4, <2>1, PlainLocates
<1>5. CASE ~name.ok /\ Fail(token, name.message, name.extra)
  BY <1>1, <1>5, FailLocates DEF Told
<1>6. CASE Fail(token, "Missing '}' or object member name", NoLocation)
  BY <1>1, <1>6, FailLocates, NoExtra
<1> QED
  BY <1>2, <1>3, <1>4, <1>5, <1>6

LEMMA ReadColonLocates ==
  ASSUME Walk, Sound, Position, Forward, NEW token, ReadIn(token),
         NEW same, ReadColon(token, same)
  PROVE  Sound'
<1>1. pc = "colon" /\ pc \notin Settled /\ UNCHANGED input
  BY PointsOf DEF ReadColon
<1>2. CASE token.type = "MemberSeparator"
  <2>1. /\ root' = resolveReference(root, node, Inner.name) /\ node' = Append(node, Inner.name)
        /\ pc' = "value" /\ frames' = frames /\ UNCHANGED errors
    BY <1>2 DEF ReadColon
  <2>2. IsSeq(node) /\ Len(frames) = Len(node) + 1
    BY <1>1, Stacks DEF Walk
  <2>3. Placed(root', node, Len(frames), current)
    BY <2>1, TextLen, ResolvePlaced DEF Sound, Offsets, Forward, Position
  <2>4. Placed(root', node', Len(frames'), current)
    BY <2>1, <2>2, <2>3, OpenedAppend, PlacedSame
  <2>5. Placed(root', node', Len(frames'), current')
    BY <2>4, PlacedOn DEF Forward
  <2>6. Offsets'
    BY <1>1, <2>1, <2>5, PlacedNext DEF Offsets
  <2> QED
    BY <1>1, <2>1, <2>6, SameFaults DEF Sound
<1>3. CASE token.type # "MemberSeparator"
  <2>1. /\ addError("Missing ':' after object member name", token, NoLocation)
        /\ pc' = "recover" /\ node' = node /\ frames' = frames
        /\ AddComment(token, same) \/ root' = root
    BY <1>3 DEF ReadColon, Stay
  <2>2. Placed(root', node, Len(frames), current)
    <3>1. CASE AddComment(token, same)
      BY <3>1, AddCommentOffsets DEF Sound
    <3>2. CASE root' = root
      BY <3>2 DEF Sound, Offsets
    <3> QED
      BY <2>1, <3>1, <3>2
  <2>3. Offsets'
    BY <1>1, <2>1, <2>2, StayOffsets
  <2>4. Faults'
    BY <1>1, <2>1, NoExtra, TokenFaults DEF Sound
  <2> QED
    BY <2>3, <2>4 DEF Sound
<1> QED
  BY <1>2, <1>3

LEMMA ReadCommaLocates ==
  ASSUME Walk, Sound, Position, Forward, NEW token, ReadIn(token), ReadComma(token)
  PROVE  Sound'
<1>1. pc \notin Settled /\ UNCHANGED input
  BY PointsOf DEF ReadComma
<1>2. \/ Close(TRUE, token.end) /\ UNCHANGED errors
      \/ Stay("name") /\ UNCHANGED <<root, errors, notes>>
      \/ Fail(token, "Missing ',' or '}' in object declaration", NoLocation)
  BY DEF ReadComma
<1>3. CASE Close(TRUE, token.end) /\ UNCHANGED errors
  BY <1>1, <1>3, CloseLocates
<1>4. CASE Stay("name") /\ UNCHANGED <<root, errors, notes>>
  BY <1>1, <1>4, PlainLocates DEF Stay
<1>5. CASE Fail(token, "Missing ',' or '}' in object declaration", NoLocation)
  BY <1>1, <1>5, FailLocates, NoExtra
<1> QED
  BY <1>2, <1>3, <1>4, <1>5

LEMMA ReadElementLocates ==
  ASSUME Walk, Sound, Position, Forward, NEW mayEnd, ReadElement(mayEnd)
  PROVE  Sound'
<1>1. pc = "element" /\ pc \notin Settled /\ UNCHANGED input /\ UNCHANGED errors
  BY PointsOf DEF ReadElement
<1>2. \/ \E end : Close(TRUE, end)
      \/ /\ root' = resolveReference(root, node, Index(Inner.index))
         /\ node' = Append(node, Index(Inner.index))
         /\ frames' = [frames EXCEPT ![Len(frames)].index = @ + 1]
         /\ pc' = "value"
  BY DEF ReadElement
<1>3. CASE \E end : Close(TRUE, end)
  BY <1>1, <1>3, CloseLocates
<1>4. CASE /\ root' = resolveReference(root, node, Index(Inner.index))
           /\ node' = Append(node, Index(Inner.index))
           /\ frames' = [frames EXCEPT ![Len(frames)].index = @ + 1]
           /\ pc' = "value"
  <2>1. IsSeq(node) /\ Len(frames) = Len(node) + 1 /\ IsSeq(frames) /\ frames # <<>>
    BY <1>1, Stacks DEF Walk
  <2>2. Len(frames') = Len(frames)
    BY <1>4, <2>1, FrameKeeps
  <2>3. Placed(root', node, Len(frames), current)
    BY <1>4, TextLen, ResolvePlaced DEF Sound, Offsets, Forward, Position
  <2>4. Placed(root', node', Len(frames'), current)
    BY <1>4, <2>1, <2>2, <2>3, OpenedAppend, PlacedSame
  <2>5. Placed(root', node', Len(frames'), current')
    BY <2>4, PlacedOn DEF Forward
  <2>6. Offsets'
    BY <1>1, <1>4, <2>5, PlacedNext DEF Offsets
  <2> QED
    BY <1>1, <2>6, SameFaults DEF Sound
<1> QED
  BY <1>2, <1>3, <1>4

LEMMA ReadNextLocates ==
  ASSUME Walk, Sound, Position, Forward, NEW token, ReadIn(token), ReadNext(token)
  PROVE  Sound'
<1>1. pc \notin Settled /\ UNCHANGED input
  BY PointsOf DEF ReadNext
<1>2. \/ Close(TRUE, token.end) /\ UNCHANGED errors
      \/ Stay("element") /\ UNCHANGED <<root, errors, notes>>
      \/ Fail(token, "Missing ',' or ']' in array declaration", NoLocation)
  BY DEF ReadNext
<1>3. CASE Close(TRUE, token.end) /\ UNCHANGED errors
  BY <1>1, <1>3, CloseLocates
<1>4. CASE Stay("element") /\ UNCHANGED <<root, errors, notes>>
  BY <1>1, <1>4, PlainLocates DEF Stay
<1>5. CASE Fail(token, "Missing ',' or ']' in array declaration", NoLocation)
  BY <1>1, <1>5, FailLocates, NoExtra
<1> QED
  BY <1>2, <1>3, <1>4, <1>5

LEMMA RecoverLocates ==
  ASSUME Walk, Sound, Forward, NEW token, Recover(token)
  PROVE  Sound'
<1>1. pc \notin Settled /\ UNCHANGED input /\ UNCHANGED errors
  BY PointsOf DEF Recover
<1>2. Close(FALSE, token.end) \/ (Stay("recover") /\ UNCHANGED <<root, notes>>)
  BY DEF Recover
<1> QED
  BY <1>1, <1>2, CloseLocates, PlainLocates DEF Stay

LEMMA ThrowLocates ==
  ASSUME Walk, Sound, Forward, Throw
  PROVE  Sound'
BY PlainLocates DEF Throw

\* The error of strictRoot is about the whole text.
LEMMA FinishLocates ==
  ASSUME Walk, Sound, Position, Forward, NEW token, NEW begin \in Int, begin <= 0, Finish(token, begin)
  PROVE  Sound'
<1> DEFINE whole == Token("Error", begin, Len(document))
<1>1. /\ pc = "finish" /\ node' = node /\ frames' = frames /\ UNCHANGED input
      /\ root' = root \/ root' = setComment(root, <<>>, commentsBefore, After)
      /\ UNCHANGED errors \/ addError("must be either an array or an object", whole, NoLocation)
  BY DEF Finish
<1>2. Placed(root', node, Len(frames), current)
  BY <1>1, CommentPlaced DEF Sound, Offsets
<1>3. frames' = <<>>
  BY <1>1 DEF Sound, Offsets
<1>4. Len(document) \in Nat
  BY TextLen DEF Position
<1>5. whole.start = begin /\ whole.end = Len(document)
  BY DEF Token
<1> HIDE DEF whole
<1>6. Faults'
  <2>1. CASE UNCHANGED errors
    BY <1>1, <2>1, SameFaults DEF Sound
  <2>2. CASE addError("must be either an array or an object", whole, NoLocation)
    <3> DEFINE e == [message |-> "must be either an array or an object",
                     start |-> whole.start, end |-> whole.end, extra |-> NoLocation]
    <3>1. /\ e.start = begin /\ e.end = Len(document) /\ e.extra = NoLocation
          /\ e.message = "must be either an array or an object"
      BY <1>5
    <3> HIDE DEF e
    <3>2. Unplaced(e) \/ Fits(e.start)
      <4>1. begin < 0 \/ begin = 0
        OBVIOUS
      <4>2. CASE begin < 0
        BY <3>1, <4>2 DEF Unplaced
      <4>3. CASE begin = 0
        BY <1>4, <3>1, <4>3, ZeroFits
      <4> QED
        BY <4>1, <4>2, <4>3
    <3>3. begin \in Int /\ Len(document) \in Int /\ begin <= Len(document)
      BY <1>4
    <3>4. Seen(e.extra)
      BY <3>1, NoExtra
    <3>5. Located(e)
      <4>1. e.start \in Int /\ e.end \in Int /\ e.start <= e.end /\ e.end <= Len(document)
        <5>1. e.start = begin /\ e.end = Len(document)
          BY <3>1
        <5> QED
          BY ONLY <3>3, <5>1
      <4>2. ~Unplaced(e) => Fits(e.start) /\ Seen(e.extra)
        BY <3>2, <3>4, Zenon
      <4> QED
        BY <4>1, <4>2, Zenon DEF Located
    <3> QED
      BY <1>1, <2>2, <3>5, AddFaults DEF Sound, e
  <2> QED
    BY <1>1, <2>1, <2>2
<1> QED
  BY <1>1, <1>2, <1>3, <1>6, StayOffsets DEF Sound

\* When parse() has returned no Value is being read any more.
LEMMA PushLocates ==
  ASSUME Walk, Sound, Position, NEW path \in DOMAIN root, NEW extra \in {{}, {<<>>}}, pushError(path, extra)
  PROVE  Sound'
<1> DEFINE tok == Token("Error", root[path].start, root[path].limit)
           see == IF extra = {} THEN NoLocation ELSE root[CHOOSE p \in extra : TRUE].start
           e == [message |-> "pushed", start |-> tok.start, end |-> tok.end, extra |-> see]
<1>1. /\ pc = "done" /\ addError("pushed", tok, see) /\ UNCHANGED <<input, current, root, place, notes>>
      /\ root[path].limit <= Len(document)
  BY DEF pushError
<1>2. frames = <<>> /\ Len(frames) = 0
  BY <1>1, EmptyPath DEF Sound, Offsets
<1>3. \A p : ~Opened(p, node, 0)
  BY DEF Opened
<1>4. \A p \in DOMAIN root : root[p].start \in Starts /\ root[p].limit \in Int /\ root[p].start <= root[p].limit
  BY <1>2, <1>3 DEF Sound, Offsets, Placed, Spot
<1>5. tok.start = root[path].start /\ tok.end = root[path].limit
  BY DEF Token
<1>6. <<>> \in DOMAIN root
  <2>1. 0 \in 0 .. Len(node)
    BY Whole DEF Walk
  <2>2. SubSeq(node, 1, 0) \in DOMAIN root
    BY <2>1 DEF Walk, IsPath
  <2>3. SubSeq(node, 1, 0) = <<>>
    BY SubSeqEmpty
  <2> QED
    BY ONLY <2>2, <2>3
<1>7. see = NoLocation \/ see \in Starts
  <2>1. CASE extra = {}
    BY <2>1
  <2>2. CASE extra = {<<>>}
    <3>1. (CHOOSE p \in {<<>>} : TRUE) = <<>>
      OBVIOUS
    <3>2. see = root[<<>>].start
      BY <2>2, <3>1
    <3> QED
      BY <1>4, <1>6, <2>2, <3>2
  <2> QED
    BY <2>1, <2>2
<1>10. e.message = "pushed" /\ e.start = tok.start /\ e.end = tok.end /\ e.extra = see
  OBVIOUS
<1> HIDE DEF tok, see, e
<1>11. ~Unplaced(e) => Fits(e.start) /\ Seen(e.extra)
  BY <1>4, <1>5, <1>7, <1>10 DEF Unplaced, Starts, Fits, Seen
<1>12. Located(e)
  BY <1>1, <1>4, <1>5, <1>10, <1>11, StartsInt DEF Located
<1>8. Faults'
  BY <1>1, <1>12, AddFaults DEF Sound, e
<1>9. Offsets'
  BY <1>1, PlacedNext DEF Sound, Offsets, place
<1> QED
  BY <1>8, <1>9 DEF Sound

\* What is decoded is no fault.
LEMMA DecodedTold ==
  ASSUME NEW type, NEW val
  PROVE  Told(Decoded(type, val))
BY DEF Told, Decoded

\* A token that is read, with what a scalar or a name denotes.
LEMMA StringTold ==
  ASSUME Faults, Position, NEW token, ReadIn(token), token.type = "String"
  PROVE  Told(decodeString(document, token))
<1> DEFINE value == decodeString(document, token)
<1>1. Len(document) \in Nat /\ current \in Nat /\ document \in Seq(Byte)
  BY TextLen DEF Position, Faults
<1>2. /\ token.start \in Int /\ token.start >= 0 /\ token.start < Len(document)
      /\ token.end \in Int /\ token.end >= 1 /\ token.end <= Len(document)
  BY <1>1 DEF ReadIn, InText
<1>3. value \in Decodings(document, token.end - 1)
  BY <1>1, <1>2, StringDecodes
<1> HIDE DEF value
<1>4. ASSUME value \in Found
      PROVE  Told(value)
  <2>1. PICK v \in Seq(Int) : value = Decoded("string", v)
    BY <1>4 DEF Found
  <2> QED
    BY <2>1, DecodedTold, Zenon
<1>5. ASSUME value \in Refused(document, token.end - 1)
      PROVE  Told(value)
  <2>1. PICK m \in Messages(document, token.end - 1), x \in 0 .. Len(document) : value = Failed(m, x)
    BY <1>5 DEF Refused
  <2>2. value.extra = x
    BY ONLY <2>1 DEF Failed
  <2>3. x \in 0 .. Len(document)
    BY ONLY <2>1
  <2> QED
    BY ONLY <2>2, <2>3 DEF Told, Seen
<1>6. Told(value)
  BY <1>3, <1>4, <1>5 DEF Decodings
<1> QED
  BY <1>6 DEF value

\* A number that cannot be read refers to nothing else.
LEMMA NumberTold ==
  ASSUME NEW token
  PROVE  Told(decodeNumber(document, token))
<1>1. ASSUME NEW text
      PROVE  Told(StreamedDouble(text))
  <2>1. \E x, y : StreamedDouble(text) \in {Failed("is not a number", NoLocation), Decoded("real", x), Decoded("real", y)}
    BY Zenon DEF StreamedDouble
  <2>2. Told(Failed("is not a number", NoLocation))
    BY NoExtra DEF Told, Failed
  <2> QED
    BY <2>1, <2>2, DecodedTold, Zenon
<1>2. \/ decodeNumber(document, token) = decodeDouble(document, token)
      \/ \E t, x : decodeNumber(document, token) = Decoded(t, x)
  <2> DEFINE negative == HasAt(document, token.start, C("-"))
             digits == Slice(document, token.start + (IF negative THEN 1 ELSE 0), token.end)
             value == Accumulated(digits, IF negative THEN maxLargestInt + 1 ELSE maxLargestUInt)
             real == (\E i \in DOMAIN digits : digits[i] \notin Digits) \/ value = -1
             below == Decoded("int", <<-value>>)
             above == Decoded(IF value <= maxInt THEN "int" ELSE "uint", <<value>>)
  <2>1. decodeNumber(document, token) =
            CASE real -> decodeDouble(document, token) [] negative -> below [] OTHER -> above
    BY DEF decodeNumber
  <2>2. \E t, x : below = Decoded(t, x)
    OBVIOUS
  <2>3. \E t, x : above = Decoded(t, x)
    OBVIOUS
  <2> HIDE DEF real, below, above
  <2> QED
    BY <2>1, <2>2, <2>3, Zenon
<1> QED
  BY <1>1, <1>2, DecodedTold, Zenon DEF decodeDouble

LEMMA DenotedTold ==
  ASSUME Faults, Position, NEW token, ReadIn(token)
  PROVE  Told(Denoted(token))
<1>1. CASE token.type = "String"
  <2>1. Denoted(token) = decodeString(document, token)
    BY <1>1 DEF Denoted
  <2> QED
    BY <1>1, <2>1, StringTold
<1>2. CASE token.type # "String"
  <2>1. \/ Denoted(token) = decodeNumber(document, token)
        \/ \E t, x : Denoted(token) = Decoded(t, x)
    BY <1>2, Zenon DEF Denoted
  <2> QED
    BY <2>1, NumberTold, DecodedTold, Zenon
<1> QED
  BY <1>1, <1>2

LEMMA NameTold ==
  ASSUME Faults, Position, NEW token, ReadIn(token)
  PROVE  Told(NameOf(token))
<1>1. CASE token.type = "String"
  BY <1>1, StringTold DEF NameOf
<1>2. CASE token.type # "String"
  <2>1. \/ NameOf(token) = decodeNumber(document, token)
        \/ \E t, x : NameOf(token) = Decoded(t, x)
    BY <1>2, Zenon DEF NameOf, NumberName
  <2> QED
    BY <2>1, NumberTold, DecodedTold, Zenon
<1> QED
  BY <1>1, <1>2

LEMMA NarrowedTold ==
  ASSUME NEW token
  PROVE  Told(OurDecodeNumber(document, token))
<1>1. \/ OurDecodeNumber(document, token) = decodeNumber(document, token)
      \/ \E t, x : OurDecodeNumber(document, token) = Decoded(t, x)
  BY Zenon DEF OurDecodeNumber, Narrowed
<1> QED
  BY <1>1, NumberTold, DecodedTold, Zenon

LEMMA OurDenotedTold ==
  ASSUME Faults, Position, NEW token, ReadIn(token)
  PROVE  Told(OurDenoted(token))
<1>1. \/ OurDenoted(token) = OurDecodeNumber(document, token)
      \/ OurDenoted(token) = Denoted(token)
      \/ \E t, x : OurDenoted(token) = Decoded(t, x)
  BY Zenon DEF OurDenoted
<1> QED
  BY <1>1, NarrowedTold, DenotedTold, DecodedTold, Zenon

LEMMA OurNameTold ==
  ASSUME Faults, Position, NEW token, ReadIn(token)
  PROVE  Told(OurNameOf(token))
<1>1. CASE token.type = "String"
  BY <1>1, StringTold DEF OurNameOf
<1>2. CASE token.type # "String"
  <2>1. \/ OurNameOf(token) = OurDecodeNumber(document, token)
        \/ \E t, x : OurNameOf(token) = Decoded(t, x)
    BY <1>2, Zenon DEF OurNameOf, NumberName
  <2> QED
    BY <2>1, NarrowedTold, DecodedTold, Zenon
<1> QED
  BY <1>1, <1>2

\* The null that parse() begins with.
LEMMA LeafPlaced ==
  ASSUME NEW path, NEW at \in Nat, Len(document) \in Nat
  PROVE  Placed(Leaf("null", <<>>), path, 0, at)
<1> DEFINE tree == Leaf("null", <<>>)
<1>1. \A p \in DOMAIN tree : tree[p] = Null
  BY DEF Leaf, Null
<1>2. Spot(Null) /\ Null.start = 0 /\ Null.limit = 0
  BY ZeroFits, FitStarts DEF Spot, Null, Node
<1> HIDE DEF tree
<1>3. Placed(tree, path, 0, at)
  BY <1>1, <1>2 DEF Placed
<1> QED
  BY <1>3 DEF tree

\* No errors in a text.
LEMMA Faultless ==
  /\ IsSeq(<<>>)
  /\ \A i \in 1 .. Len(<<>>) : FALSE
BY EmptyPath

LEMMA InitLocates == Init => Sound
<1> SUFFICES ASSUME Init
             PROVE  Sound
  OBVIOUS
<1>1. /\ document = <<>> /\ current = 0 /\ root = Leaf("null", <<>>)
      /\ frames = <<>> /\ errors = <<>>
  BY DEF Init
<1>2. Len(frames) = 0 /\ 0 \in Nat
  BY <1>1, EmptyPath
<1>3. Placed(root, node, Len(frames), current)
  BY <1>1, <1>2, LeafPlaced, EmptyPath
<1>4. Offsets
  BY <1>1, <1>3 DEF Offsets
<1>5. document \in Seq(Byte)
  BY <1>1
<1>6. Faults
  BY <1>1, <1>5, Faultless, Zenon DEF Faults
<1> QED
  BY <1>4, <1>6 DEF Sound

\* parse() begins: the errors of the text before it are gone.
LEMMA ParseLocates ==
  ASSUME Position, MayParse, NEW doc \in Documents[parses + 1], NEW collectComments,
         NEW text, text \in {doc, SubSeq(doc, SkippedBom(doc) + 1, Len(doc))},
         Parse(text, collectComments)
  PROVE  Sound'
<1>1. parses + 1 \in 1 .. Len(Documents)
  <2>1. Len(Documents) \in Nat
    BY JsonReaderAssumption, LenProperties
  <2> QED
    BY <2>1 DEF MayParse, Position
<1>2. doc \in Seq(Byte)
  BY <1>1, JsonReaderAssumption, ElementOfSeq
<1>3. Len(doc) \in Nat
  BY <1>2, LenProperties
<1>4. SubSeq(doc, SkippedBom(doc) + 1, Len(doc)) \in Seq(Byte)
  <2> DEFINE n == SkippedBom(doc)
  <2>1. n \in Nat
    BY DEF SkippedBom, Mark
  <2> HIDE DEF n
  <2>2. \A i \in n + 1 .. Len(doc) : doc[i] \in Byte
    BY <1>2, <1>3, <2>1, ElementOfSeq
  <2>3. SubSeq(doc, n + 1, Len(doc)) \in Seq(Byte)
    BY <1>3, <2>1, <2>2, SubSeqProperties
  <2> QED
    BY <2>3 DEF n
<1>5. /\ document' = text /\ current' = 0 /\ root' = Leaf("null", <<>>)
      /\ frames' = <<>> /\ errors' = <<>>
  BY DEF Parse
<1>6. Len(frames') = 0 /\ 0 \in Nat
  BY <1>5, EmptyPath
<1>9. document' \in Seq(Byte)
  BY <1>2, <1>4, <1>5
<1>7. Placed(root, node, Len(frames), current)'
  <2>1. Len(document') \in Nat
    BY <1>9, LenProperties
  <2>2. 0 \in Starts'
    BY <2>1 DEF Starts, Fits, SplitsLineEnd
  <2>3. \A p \in DOMAIN root' : root'[p] = Null
    BY <1>5 DEF Leaf, Null
  <2>4. Spot(Null)' /\ Null.start = 0 /\ Null.limit = 0
    BY <2>2 DEF Spot, Null, Node
  <2> QED
    BY <1>5, <1>6, <2>3, <2>4 DEF Placed
<1>8. Offsets'
  BY <1>5, <1>7 DEF Offsets
<1>10. Faults'
  BY <1>5, <1>9, Faultless, Zenon DEF Faults
<1> QED
  BY <1>8, <1>10 DEF Sound

\* Reading on.
LEMMA MovesForward ==
  ASSUME Position, Position' /\ Moves
  PROVE  Forward
<1>1. current \in Nat /\ current' \in Nat
  <2>1. Len(document) \in Nat /\ Len(document') \in Nat
    BY TextLen DEF Position
  <2>2. current \in 0 .. Len(document) /\ current' \in 0 .. Len(document')
    BY DEF Position
  <2> QED
    BY <2>1, <2>2
<1>2. current' > current \/ current' = current
  BY DEF Moves
<1> QED
  BY <1>1, <1>2 DEF Forward

\* The steps that take a token, of either reader.
LEMMA TokenLocates ==
  ASSUME Walk, Position, Sound, NEW token, ReadIn(token),
         NEW value, Told(value), NEW name, Told(name), NEW same, NEW mayEnd, NEW begin \in Int, begin <= 0,
         \/ Comment(token, same) \/ ReadScalar(token, value) \/ Open(token)
         \/ ReadDroppedNull(token) \/ NotAValue(token) \/ ReadName(token, name, mayEnd)
         \/ ReadColon(token, same) \/ ReadComma(token) \/ ReadNext(token) \/ Recover(token)
         \/ Finish(token, begin)
  PROVE  Sound'
<1>14. InText(token, document, current)
  BY DEF ReadIn
<1>1. Position' /\ Moves
  <2>1. CASE ReadName(token, name, mayEnd)
    BY <1>14, <2>1, StepMoves
  <2>2. CASE ReadDroppedNull(token)
    BY <1>14, <2>2, ReadDroppedNullMoves
  <2>3. CASE Finish(token, begin)
    BY <1>14, <2>3, StepMoves
  <2>4. CASE \/ Comment(token, same) \/ ReadScalar(token, value) \/ Open(token) \/ NotAValue(token)
             \/ ReadColon(token, same) \/ ReadComma(token) \/ ReadNext(token) \/ Recover(token)
    BY <1>14, <2>4, StepMoves
  <2> QED
    BY <2>1, <2>2, <2>3, <2>4
<1>2. Forward
  BY <1>1, MovesForward
<1>3. CASE Comment(token, same)
  BY <1>2, <1>3, CommentLocates
<1>4. CASE ReadScalar(token, value)
  BY <1>2, <1>4, ReadScalarLocates
<1>5. CASE Open(token)
  BY <1>2, <1>5, OpenLocates
<1>6. CASE ReadDroppedNull(token)
  BY <1>2, <1>6, ReadDroppedNullLocates
<1>7. CASE NotAValue(token)
  BY <1>2, <1>7, NotAValueLocates
<1>8. CASE ReadName(token, name, mayEnd)
  BY <1>2, <1>8, ReadNameLocates
<1>9. CASE ReadColon(token, same)
  BY <1>2, <1>9, ReadColonLocates
<1>10. CASE ReadComma(token)
  BY <1>2, <1>10, ReadCommaLocates
<1>11. CASE ReadNext(token)
  BY <1>2, <1>11, ReadNextLocates
<1>12. CASE Recover(token)
  BY <1>2, <1>12, RecoverLocates
<1>13. CASE Finish(token, begin)
  BY <1>2, <1>13, FinishLocates
<1> QED
  BY <1>3, <1>4, <1>5, <1>6, <1>7, <1>8, <1>9, <1>10, <1>11, <1>12, <1>13

LEMMA SoundSame ==
  ASSUME Sound, UNCHANGED <<input, current, root, place, errors>>
  PROVE  Sound'
<1>1. Offsets'
  BY PlacedNext DEF Sound, Offsets, place
<1> QED
  BY <1>1, SameFaults DEF Sound

\* Every step of Reader.
LEMMA NextLocates == Walk /\ Position /\ Sound /\ [Next]_vars => Sound'
<1> SUFFICES ASSUME Walk, Position, Sound, [Next]_vars
             PROVE  Sound'
  OBVIOUS
<1>1. CASE UNCHANGED vars
  BY <1>1, SoundSame DEF vars, place
<1>2. ASSUME MayParse, NEW doc \in Documents[parses + 1], NEW collectComments, Parse(doc, collectComments)
      PROVE  Sound'
  BY <1>2, ParseLocates
<1>3. ASSUME Step
      PROVE  Sound'
  <2>1. CASE Throw
    BY <2>1, ThrowMoves, MovesForward, ThrowLocates
  <2>2. CASE ReadElement(MayEndAtElement)
    BY <2>2, ReadElementMoves, MovesForward, ReadElementLocates
  <2>3. CASE \E token \in {readToken(document, current)} :
                 \/ Comment(token, OnSameLine(token))
                 \/ ReadScalar(token, Denoted(token))
                 \/ Open(token) \/ ReadDroppedNull(token) \/ NotAValue(token)
                 \/ ReadName(token, NameOf(token), MayEndAtName)
                 \/ ReadColon(token, OnSameLine(token))
                 \/ ReadComma(token) \/ ReadNext(token) \/ Recover(token) \/ Finish(token, 0)
    <3> DEFINE token == readToken(document, current)
    <3>1. ReadIn(token)
      BY TokenRead
    <3>2. \/ Comment(token, OnSameLine(token))
          \/ ReadScalar(token, Denoted(token))
          \/ Open(token) \/ ReadDroppedNull(token) \/ NotAValue(token)
          \/ ReadName(token, NameOf(token), MayEndAtName)
          \/ ReadColon(token, OnSameLine(token))
          \/ ReadComma(token) \/ ReadNext(token) \/ Recover(token) \/ Finish(token, 0)
      BY <2>3
    <3> HIDE DEF token
    <3>3. Told(Denoted(token)) /\ Told(NameOf(token))
      BY <3>1, DenotedTold, NameTold DEF Sound
    <3>4. 0 \in Int /\ 0 <= 0
      OBVIOUS
    <3> QED
      BY <3>1, <3>2, <3>3, <3>4, TokenLocates
  <2> QED
    BY <1>3, <2>1, <2>2, <2>3 DEF Step
<1>4. ASSUME NEW path \in DOMAIN root, NEW extra \in {{}, {<<>>}}, pushError(path, extra)
      PROVE  Sound'
  BY <1>4, PushLocates
<1> QED
  BY <1>1, <1>2, <1>3, <1>4 DEF Next

\* An invariant that holds says what the property does.
LEMMA SoundSuffices == Position /\ Sound => ErrorPointsAtToken
<1> SUFFICES ASSUME Position, Sound
             PROVE  ErrorPointsAtToken
  OBVIOUS
<1>1. IsSeq(document) /\ DOMAIN errors = 1 .. Len(errors)
  BY LenProperties DEF Position, Sound, Faults, IsSeq
<1> DEFINE ends(p) == document[p] = LF \/ (document[p] = CR /\ ~HasAt(document, p, LF))
           begins(p, line) == /\ p = 0 \/ ends(p)
                              /\ line - 1 = Cardinality({q \in 1 .. p : ends(q)})
           points(location, at) ==
               \E p \in 0 .. location : /\ begins(p, at.line) /\ location = p + at.column - 1
                                       /\ \A q \in p + 1 .. location : ~ends(q)
<1>2. ASSUME NEW location \in 0 .. Len(document), ~SplitsLineEnd(location)
      PROVE  points(location, getLocationLineAndColumn(location))
  <2>1. PointsTo(document, location, getLocationLineAndColumn(location))
    BY <1>1, <1>2, LocationFound
  <2> HIDE DEF ends
  <2>2. \A p : ends(p) <=> LineEnds(document, p)
    BY DEF ends, LineEnds
  <2> QED
    BY <2>1, <2>2, Zenon DEF PointsTo
<1> HIDE DEF points
<1>3. ASSUME NEW i \in DOMAIN errors
      PROVE  LET message == getFormattedErrorMessages[i]
             IN  /\ errors[i].start <= errors[i].end /\ errors[i].end <= Len(document)
                 /\ ~Unplaced(errors[i]) =>
                        /\ points(errors[i].start, message.at)
                        /\ message.see # <<>> /\ ~SplitsLineEnd(errors[i].extra) =>
                               /\ errors[i].extra <= Len(document)
                               /\ points(errors[i].extra, message.see[1])
  <2>1. Located(errors[i])
    BY <1>1 DEF Sound, Faults
  <2> DEFINE message == getFormattedErrorMessages[i]
  <2>2. /\ message.at = getLocationLineAndColumn(errors[i].start)
        /\ message.see # <<>> => /\ message.see[1] = getLocationLineAndColumn(errors[i].extra)
                                /\ errors[i].extra # NoLocation
    BY DEF getFormattedErrorMessages
  <2> HIDE DEF message
  <2>3. /\ errors[i].start <= errors[i].end /\ errors[i].end <= Len(document)
        /\ ~Unplaced(errors[i]) => Fits(errors[i].start) /\ Seen(errors[i].extra)
    BY <2>1 DEF Located
  <2>4. ASSUME ~Unplaced(errors[i])
        PROVE  points(errors[i].start, message.at)
    <3>1. errors[i].start \in 0 .. Len(document) /\ ~SplitsLineEnd(errors[i].start)
      BY <2>3, <2>4 DEF Fits
    <3> QED
      BY <1>2, <2>2, <3>1, Zenon
  <2>5. ASSUME ~Unplaced(errors[i]), message.see # <<>>, ~SplitsLineEnd(errors[i].extra)
        PROVE  errors[i].extra <= Len(document) /\ points(errors[i].extra, message.see[1])
    <3>1. errors[i].extra \in 0 .. Len(document)
      BY <2>2, <2>3, <2>5 DEF Seen
    <3>2. points(errors[i].extra, message.see[1])
      BY <1>2, <2>2, <2>5, <3>1, Zenon
    <3>3. Len(document) \in Nat
      BY <1>1, TextLen
    <3> QED
      BY <3>1, <3>2, <3>3
  <2> QED
    BY <2>3, <2>4, <2>5 DEF message
<1> QED
  BY <1>3 DEF ErrorPointsAtToken, points

\* Each error of Reader lies in the text and is reported at the line and column
\* where it begins, counted from 1, also when it is one that an application has
\* added: for every text, setting and limit.  Only those that an application adds
\* to Values where nulls may be left out have no such place.
THEOREM ReaderErrorPoints == Spec => []ErrorPointsAtToken
<1>1. Walk /\ Position /\ [Next]_vars => Position'
  BY NextMoves
<1>2. Spec => []Walk
  BY ReaderWalks
<1>3. Spec => [](Position /\ Sound)
  BY <1>1, <1>2, InitPlaces, InitLocates, NextLocates, PTL DEF Spec
<1> QED
  BY <1>3, SoundSuffices, PTL

-----------------------------------------------------------------------------
(***************************************************************************)
(* OurReader.                                                              *)
(***************************************************************************)

\* What OurReader reads otherwise: "Duplicate key" for a name, and something
\* behind the end.  An error of strictRoot begins before the mark, if any.
LEMMA OurNextLocates ==
  ASSUME Walk, Position, Sound, bom \in Nat, [OurNext]_ourVars
  PROVE  Sound' /\ bom' \in Nat
<1>1. bom' \in Nat
  <2>1. bom' = bom \/ \E doc : bom' = SkippedBom(doc)
    BY DEF OurNext, OurParse, OurStep, OurThrow, OurReadElement, OurComment, OurReadScalar,
           OurOpen, OurReadDroppedNull, OurNotAValue, OurReadName, OurReadColon, OurReadComma,
           OurReadNext, OurRecover, OurFinish, Unmarked, Completed, CompletedIf, ourVars
  <2> QED
    BY <2>1 DEF SkippedBom, Mark
<1>2. ASSUME UNCHANGED ourVars
      PROVE  Sound'
  BY <1>2, SoundSame DEF ourVars, vars
<1>3. ASSUME MayParse, NEW doc \in Documents[parses + 1], NEW collectComments, OurParse(doc, collectComments)
      PROVE  Sound'
  BY <1>3, ParseLocates DEF OurParse
<1>4. ASSUME OurThrow
      PROVE  Sound'
  BY <1>4, ThrowMoves, MovesForward, ThrowLocates DEF OurThrow
<1>5. ASSUME OurReadElement
      PROVE  Sound'
  BY <1>5, ReadElementMoves, MovesForward, ReadElementLocates DEF OurReadElement
<1>6. ASSUME NEW token, ReadIn(token), pc = "name", IsDup(token, OurNameOf(token)),
             Fail(token, "Duplicate key", NoLocation), UNCHANGED input
      PROVE  Sound'
  <2>1. token.type # "EndOfStream" /\ current' = token.end
    BY <1>6 DEF IsDup, IsName, Fail
  <2>2. Forward
    BY <1>6, <2>1, TokenMoves, MovesForward DEF ReadIn
  <2> QED
    BY <1>6, <2>2, FailLocates, NoExtra
<1>7. ASSUME NEW token, ReadIn(token), pc = "finish", token.type # "EndOfStream",
             addError("Extra non-whitespace after JSON value", token, NoLocation),
             pc' = "done", current' = token.end, UNCHANGED <<input, node, frames, root, notes>>
      PROVE  Sound'
  <2>1. Forward
    BY <1>7, TokenMoves, MovesForward DEF ReadIn
  <2>2. Placed(root', node, Len(frames), current) /\ frames' = <<>>
    BY <1>7 DEF Sound, Offsets
  <2>3. Offsets'
    BY <1>7, <2>1, <2>2, StayOffsets
  <2> QED
    BY <1>7, <2>3, NoExtra, TokenFaults DEF Sound
<1>8. ASSUME \E token \in {OurReadToken(document, current)} :
               \/ OurComment(token) \/ OurReadScalar(token) \/ OurOpen(token)
               \/ OurReadDroppedNull(token) \/ OurNotAValue(token)
               \/ OurReadName(token, OurNameOf(token)) \/ OurReadColon(token) \/ OurReadComma(token)
               \/ OurReadNext(token) \/ OurRecover(token) \/ OurFinish(token)
      PROVE  Sound'
  <2> DEFINE token == OurReadToken(document, current)
  <2>1. ReadIn(token)
    BY OurTokenRead
  <2>2. \/ OurComment(token) \/ OurReadScalar(token) \/ OurOpen(token)
        \/ OurReadDroppedNull(token) \/ OurNotAValue(token)
        \/ OurReadName(token, OurNameOf(token)) \/ OurReadColon(token) \/ OurReadComma(token)
        \/ OurReadNext(token) \/ OurRecover(token) \/ OurFinish(token)
    BY <1>8
  <2> HIDE DEF token
  <2>3. Told(OurDenoted(token)) /\ Told(OurNameOf(token))
    BY <2>1, OurDenotedTold, OurNameTold DEF Sound
  <2>4. -bom \in Int /\ -bom <= 0
    OBVIOUS
  <2>5. \/ Comment(token, OurOnSameLine(token)) \/ ReadScalar(token, OurDenoted(token)) \/ Open(token)
        \/ ReadDroppedNull(token) \/ NotAValue(token) \/ ReadName(token, OurNameOf(token), OurMayEndAtName)
        \/ ReadColon(token, OurOnSameLine(token)) \/ ReadComma(token) \/ ReadNext(token) \/ Recover(token)
        \/ Finish(token, -bom)
        \/ /\ pc = "name" /\ IsDup(token, OurNameOf(token))
           /\ Fail(token, "Duplicate key", NoLocation) /\ UNCHANGED input
        \/ /\ pc = "finish" /\ token.type # "EndOfStream"
           /\ addError("Extra non-whitespace after JSON value", token, NoLocation)
           /\ pc' = "done" /\ current' = token.end /\ UNCHANGED <<input, node, frames, root, notes>>
    BY <2>2 DEF OurComment, OurReadScalar, OurOpen, OurReadDroppedNull, OurNotAValue, OurReadName,
                OurReadColon, OurReadComma, OurReadNext, OurRecover, OurFinish
  <2> QED
    BY <1>6, <1>7, <2>1, <2>3, <2>4, <2>5, TokenLocates
<1> QED
  BY <1>1, <1>2, <1>3, <1>4, <1>5, <1>8 DEF OurNext, OurStep

\* The same of OurReader, whose locations count from behind a byte order mark:
\* only strictRoot's error behind one has no such place.
THEOREM OurReaderErrorPoints == OurSpec => []ErrorPointsAtToken
<1> DEFINE Inv == Position /\ Sound /\ bom \in Nat
<1>1. OurInit => Inv
  BY InitPlaces, InitLocates DEF OurInit
<1>2. Walk /\ Inv /\ [OurNext]_ourVars => Inv'
  BY OurNextMoves, OurNextLocates
<1>3. Inv => ErrorPointsAtToken
  BY SoundSuffices
<1>4. OurSpec => []Walk
  BY OurReaderWalks
<1> HIDE DEF Inv
<1> QED
  BY <1>1, <1>2, <1>3, <1>4, PTL DEF OurSpec
=============================================================================
