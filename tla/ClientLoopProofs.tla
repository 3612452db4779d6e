--------------------------- MODULE ClientLoopProofs ---------------------------
(***************************************************************************)
(* Proofs about the client's loop, for every buffer, socket, listing and   *)
(* file, and for a prompt server and a patient user where they say so.     *)
(***************************************************************************)
EXTENDS ClientLoop, SequenceTheorems, Induction

-----------------------------------------------------------------------------
(***************************************************************************)
(* What there is of a file in a text.                                      *)
(***************************************************************************)

\* The recursion of Own has a function: what there is up to each byte.
LEMMA OwnDef ==
  ASSUME NEW text \in Seq(Bytes)
  PROVE  \E upto \in [0 .. Len(text) -> Seq(Contents)] :
             /\ upto[0] = <<>>
             /\ \A i \in 1 .. Len(text) :
                   upto[i] = IF text[i] \in Contents THEN Append(upto[i - 1], text[i])
                             ELSE upto[i - 1]
             /\ Own(text) = upto[Len(text)]
<1> DEFINE n == Len(text)
           S == Seq(Contents)
           next(v, i) == IF text[i] \in Contents THEN Append(v, text[i]) ELSE v
           body(g) == [i \in 0 .. n |-> IF i = 0 THEN <<>> ELSE next(g[i - 1], i)]
           upto == CHOOSE g : g = body(g)
           step == [x \in (1 .. n) \X S |-> next(x[2], x[1])]
<1>0. n \in Nat /\ <<>> \in S
  OBVIOUS
<1>1. \A i \in 1 .. n, v \in S : next(v, i) \in S
  <2> HIDE DEF n
  <2> QED
    OBVIOUS
<1>2. step \in Steps(n, S)
  <2> HIDE DEF n, next, S
  <2> QED
    BY <1>1 DEF Steps
<1>3. PICK f \in [0 .. n -> S] : f[0] = <<>> /\ \A i \in 1 .. n : f[i] = step[<<i, f[i - 1]>>]
  <2> HIDE DEF step, n, S
  <2>1. PICK f : f \in Recursive(n, S, <<>>, step)
    BY <1>0, <1>2, Recursion
  <2> QED
    BY <2>1 DEF Recursive
<1>4. f = body(f)
  <2>1. \A i \in 1 .. n : f[i] = next(f[i - 1], i)
    <3> HIDE DEF next, n, S
    <3>1. \A i \in 1 .. n : f[i - 1] \in S
      BY <1>0
    <3> QED
      BY <1>3, <3>1
  <2> HIDE DEF n, next
  <2>2. \A i \in 0 .. n : f[i] = IF i = 0 THEN <<>> ELSE next(f[i - 1], i)
    BY <1>0, <1>3, <2>1
  <2> QED
    BY <2>2
<1>5. upto = body(upto)
  <2> HIDE DEF body
  <2> QED
    BY <1>4
<1>6. /\ upto[0] = <<>>
      /\ \A i \in 1 .. n : upto[i] = next(upto[i - 1], i)
  <2> HIDE DEF upto, n, next
  <2> QED
    BY <1>0, <1>5
<1>7. upto \in [0 .. n -> S]
  <2> DEFINE A == {i \in 0 .. n : upto[i] \in S}
  <2> HIDE DEF upto, n, next
  <2>1. 0 \in A
    <3>1. upto[0] \in S /\ 0 \in 0 .. n
      BY <1>0, <1>6
    <3> QED
      BY <3>1
  <2>2. ASSUME NEW i \in 0 .. n - 1, i \in A
        PROVE  i + 1 \in A
    <3>1. i + 1 \in 1 .. n /\ i + 1 \in 0 .. n /\ (i + 1) - 1 = i
      BY <1>0
    <3>2. upto[i + 1] = next(upto[i], i + 1)
      BY <3>1, <1>6
    <3>3. upto[i + 1] \in S
      BY <2>2, <3>1, <3>2, <1>1
    <3> QED
      BY <3>1, <3>3
  <2>3. \A i \in 0 .. n : i \in A
    <3> HIDE DEF A
    <3> QED
      BY <2>1, <2>2, <1>0, InductionUpTo
  <2> QED
    BY <2>3, <1>5
<1>8. Own(text) = upto[n]
  BY DEF Own
<1> HIDE DEF upto
<1> QED
  BY <1>6, <1>7, <1>8

\* A sequence of a file's bytes, no longer than the text.
LEMMA OwnType ==
  ASSUME NEW text \in Seq(Bytes)
  PROVE  Own(text) \in Seq(Contents) /\ Len(Own(text)) \in 0 .. Len(text)
<1> DEFINE n == Len(text)
<1>1. PICK W \in [0 .. n -> Seq(Contents)] :
         /\ W[0] = <<>>
         /\ \A i \in 1 .. n : W[i] = IF text[i] \in Contents THEN Append(W[i - 1], text[i]) ELSE W[i - 1]
         /\ Own(text) = W[n]
  BY OwnDef
<1>2. n \in Nat
  OBVIOUS
<1> DEFINE A == {i \in 0 .. n : Len(W[i]) \in 0 .. i}
<1> HIDE DEF n
<1>3. 0 \in A
  <2>1. Len(W[0]) = 0 /\ 0 \in 0 .. n
    BY <1>1, <1>2
  <2> QED
    BY <2>1
<1>4. ASSUME NEW i \in 0 .. n - 1, i \in A
      PROVE  i + 1 \in A
  <2>1. i + 1 \in 1 .. n /\ i + 1 \in 0 .. n /\ (i + 1) - 1 = i /\ i \in 0 .. n
    BY <1>2
  <2>2. W[i + 1] = IF text[i + 1] \in Contents THEN Append(W[i], text[i + 1]) ELSE W[i]
    BY <1>1, <2>1
  <2>3. W[i] \in Seq(Contents) /\ Len(W[i]) \in 0 .. i
    BY <1>4, <2>1
  <2>4. Len(W[i + 1]) \in {Len(W[i]), Len(W[i]) + 1}
    BY <2>2, <2>3
  <2>5. Len(W[i + 1]) \in 0 .. i + 1
    BY <2>1, <2>3, <2>4
  <2> QED
    BY <2>1, <2>5
<1>5. n \in A
  <2> HIDE DEF A
  <2>1. n \in 0 .. n
    BY <1>2
  <2> QED
    BY <1>2, <1>3, <1>4, <2>1, InductionUpTo
<1>6. W[n] \in Seq(Contents) /\ Len(W[n]) \in 0 .. n
  BY <1>2, <1>5
<1> QED
  BY <1>1, <1>6 DEF n

\* A sequence behind another, by a name of its own.
Both(s, t) == s \o t

LEMMA BothAppend ==
  ASSUME NEW S, NEW s \in Seq(S), NEW t \in Seq(S), NEW c \in S
  PROVE  Append(Both(s, t), c) = Both(s, Append(t, c))
BY DEF Both

\* Of two texts, one behind the other.
LEMMA OwnConcat ==
  ASSUME NEW s \in Seq(Bytes), NEW t \in Seq(Bytes)
  PROVE  Own(s \o t) = Own(s) \o Own(t)
<1> DEFINE r == s \o t
           n == Len(s)
           m == Len(t)
<1>1. /\ n \in Nat /\ m \in Nat /\ r \in Seq(Bytes) /\ Len(r) = n + m
      /\ \A i \in 1 .. n : r[i] = s[i]
      /\ \A i \in 1 .. m : r[n + i] = t[i]
  OBVIOUS
<1>2. PICK U \in [0 .. n -> Seq(Contents)] :
         /\ U[0] = <<>>
         /\ \A i \in 1 .. n : U[i] = IF s[i] \in Contents THEN Append(U[i - 1], s[i]) ELSE U[i - 1]
         /\ Own(s) = U[n]
  BY OwnDef
<1>3. PICK V \in [0 .. m -> Seq(Contents)] :
         /\ V[0] = <<>>
         /\ \A i \in 1 .. m : V[i] = IF t[i] \in Contents THEN Append(V[i - 1], t[i]) ELSE V[i - 1]
         /\ Own(t) = V[m]
  BY OwnDef
<1>4. PICK W \in [0 .. n + m -> Seq(Contents)] :
         /\ W[0] = <<>>
         /\ \A i \in 1 .. n + m :
               W[i] = IF r[i] \in Contents THEN Append(W[i - 1], r[i]) ELSE W[i - 1]
         /\ Own(r) = W[n + m]
  <2> HIDE DEF r, n, m
  <2> QED
    BY <1>1, OwnDef
<1> HIDE DEF r, n, m
<1>5. W[n] = U[n]
  <2> DEFINE A == {i \in 0 .. n : W[i] = U[i]}
  <2>1. 0 \in A
    BY <1>1, <1>2, <1>4
  <2>2. ASSUME NEW i \in 0 .. n - 1, i \in A
        PROVE  i + 1 \in A
    <3>1. i + 1 \in 1 .. n /\ i + 1 \in 0 .. n /\ (i + 1) - 1 = i /\ i + 1 \in 1 .. n + m
      BY <1>1
    <3>2. W[i + 1] = IF s[i + 1] \in Contents THEN Append(W[i], s[i + 1]) ELSE W[i]
      BY <1>1, <1>4, <3>1
    <3>3. U[i + 1] = IF s[i + 1] \in Contents THEN Append(U[i], s[i + 1]) ELSE U[i]
      BY <1>2, <3>1
    <3>4. W[i] = U[i]
      BY <2>2
    <3>5. W[i + 1] = U[i + 1]
      BY <3>2, <3>3, <3>4
    <3> QED
      BY <3>1, <3>5
  <2>3. n \in A
    <3> HIDE DEF A
    <3>1. n \in 0 .. n
      BY <1>1
    <3> QED
      BY <1>1, <2>1, <2>2, <3>1, InductionUpTo
  <2> QED
    BY <2>3
<1>6. W[n + m] = Both(U[n], V[m])
  <2> DEFINE A == {i \in 0 .. m : W[n + i] = Both(U[n], V[i])}
  <2>0. n \in 0 .. n /\ U[n] \in Seq(Contents) /\ 0 \in 0 .. m /\ n + 0 = n
    BY <1>1
  <2>1. 0 \in A
    <3>1. Both(U[n], <<>>) = U[n]
      BY <2>0, ConcatEmptySeq DEF Both
    <3> QED
      BY <1>3, <1>5, <2>0, <3>1
  <2>2. ASSUME NEW i \in 0 .. m - 1, i \in A
        PROVE  i + 1 \in A
    <3>1. /\ i + 1 \in 1 .. m /\ i + 1 \in 0 .. m /\ (i + 1) - 1 = i /\ i \in 0 .. m
          /\ n + (i + 1) \in 1 .. n + m /\ n + (i + 1) - 1 = n + i
      BY <1>1
    <3>2. r[n + (i + 1)] = t[i + 1]
      BY <1>1, <3>1
    <3>3. W[n + (i + 1)] = IF t[i + 1] \in Contents THEN Append(W[n + i], t[i + 1]) ELSE W[n + i]
      <4> DEFINE k == n + (i + 1)
      <4>1. k \in 1 .. n + m /\ k - 1 = n + i /\ r[k] = t[i + 1]
        <5>1. k \in 1 .. n + m /\ k - 1 = n + i
          BY <1>1, <3>1
        <5>2. r[k] = t[i + 1]
          BY <3>2
        <5> HIDE DEF k
        <5> QED
          BY <5>1, <5>2
      <4> HIDE DEF k
      <4>2. W[k] = IF r[k] \in Contents THEN Append(W[k - 1], r[k]) ELSE W[k - 1]
        BY <1>4, <4>1
      <4>3. W[k] = IF t[i + 1] \in Contents THEN Append(W[n + i], t[i + 1]) ELSE W[n + i]
        BY <4>1, <4>2
      <4> QED
        BY <4>3 DEF k
    <3>4. V[i + 1] = IF t[i + 1] \in Contents THEN Append(V[i], t[i + 1]) ELSE V[i]
      BY <1>3, <3>1
    <3>5. W[n + i] = Both(U[n], V[i]) /\ V[i] \in Seq(Contents)
      BY <2>2, <3>1
    <3>6. \A c \in Contents : Append(Both(U[n], V[i]), c) = Both(U[n], Append(V[i], c))
      BY <2>0, <3>5, BothAppend
    <3>7. W[n + (i + 1)] = Both(U[n], V[i + 1])
      BY <3>3, <3>4, <3>5, <3>6
    <3> QED
      BY <3>1, <3>7
  <2>3. m \in A
    <3> HIDE DEF A
    <3>1. m \in 0 .. m
      BY <1>1
    <3> QED
      BY <1>1, <2>1, <2>2, <3>1, InductionUpTo
  <2> QED
    BY <2>3
<1> QED
  BY <1>2, <1>3, <1>4, <1>6 DEF r, Both

\* A text of nothing else is its own.
LEMMA OwnAll ==
  ASSUME NEW s \in Seq(Contents)
  PROVE  Own(s) = s
<1> DEFINE n == Len(s)
<1>0. s \in Seq(Bytes) /\ n \in Nat /\ \A i \in 1 .. n : s[i] \in Contents
  <2>1. Contents \subseteq Bytes
    BY DEF Bytes
  <2> QED
    BY <2>1, SeqMonotonic
<1>1. PICK W \in [0 .. n -> Seq(Contents)] :
         /\ W[0] = <<>>
         /\ \A i \in 1 .. n : W[i] = IF s[i] \in Contents THEN Append(W[i - 1], s[i]) ELSE W[i - 1]
         /\ Own(s) = W[n]
  BY <1>0, OwnDef
<1> DEFINE A == {i \in 0 .. n : Len(W[i]) = i /\ \A j \in 1 .. i : W[i][j] = s[j]}
<1> HIDE DEF n
<1>2. 0 \in A
  <2>1. Len(W[0]) = 0 /\ 0 \in 0 .. n
    BY <1>0, <1>1
  <2> QED
    BY <2>1
<1>3. ASSUME NEW i \in 0 .. n - 1, i \in A
      PROVE  i + 1 \in A
  <2>1. i + 1 \in 1 .. n /\ i + 1 \in 0 .. n /\ (i + 1) - 1 = i /\ i \in 0 .. n
    BY <1>0
  <2>2. W[i + 1] = Append(W[i], s[i + 1]) /\ s[i + 1] \in Contents
    BY <1>0, <1>1, <2>1
  <2>3. W[i] \in Seq(Contents) /\ Len(W[i]) = i /\ \A j \in 1 .. i : W[i][j] = s[j]
    BY <1>3, <2>1
  <2>4. Len(W[i + 1]) = i + 1
    BY <2>2, <2>3
  <2>5. \A j \in 1 .. i + 1 : W[i + 1][j] = s[j]
    BY <2>2, <2>3, <2>1
  <2> QED
    BY <2>1, <2>4, <2>5
<1>4. n \in A
  <2> HIDE DEF A
  <2>1. n \in 0 .. n
    BY <1>0
  <2> QED
    BY <1>0, <1>2, <1>3, <2>1, InductionUpTo
<1>5. W[n] \in Seq(Contents) /\ Len(W[n]) = Len(s) /\ \A j \in 1 .. Len(s) : W[n][j] = s[j]
  BY <1>0, <1>4 DEF n
<1> DEFINE w == W[n]
<1> HIDE DEF w
<1>6. w = s
  <2>1. w \in Seq(Contents) /\ Len(w) = Len(s) /\ \A j \in 1 .. Len(s) : w[j] = s[j]
    BY <1>5 DEF w
  <2> QED
    BY <2>1, SeqEqual
<1> QED
  BY <1>1, <1>6 DEF w

\* And a text with nothing of a file has none.
LEMMA OwnNone ==
  ASSUME NEW s \in Seq(Bytes), ~Has(s, Contents)
  PROVE  Own(s) = <<>>
<1> DEFINE n == Len(s)
<1>0. n \in Nat /\ \A i \in 1 .. n : s[i] \notin Contents
  BY DEF Has
<1>1. PICK W \in [0 .. n -> Seq(Contents)] :
         /\ W[0] = <<>>
         /\ \A i \in 1 .. n : W[i] = IF s[i] \in Contents THEN Append(W[i - 1], s[i]) ELSE W[i - 1]
         /\ Own(s) = W[n]
  BY OwnDef
<1> DEFINE A == {i \in 0 .. n : W[i] = <<>>}
<1> HIDE DEF n
<1>2. 0 \in A
  BY <1>0, <1>1
<1>3. ASSUME NEW i \in 0 .. n - 1, i \in A
      PROVE  i + 1 \in A
  <2>1. i + 1 \in 1 .. n /\ i + 1 \in 0 .. n /\ (i + 1) - 1 = i
    BY <1>0
  <2>2. W[i + 1] = W[i]
    BY <1>0, <1>1, <2>1
  <2> QED
    BY <1>3, <2>1, <2>2
<1>4. n \in A
  <2> HIDE DEF A
  <2>1. n \in 0 .. n
    BY <1>0
  <2> QED
    BY <1>0, <1>2, <1>3, <2>1, InductionUpTo
<1> QED
  BY <1>1, <1>4

\* The bytes of files.
OfFiles == Contents \cup {"NUL"}

\* What strlen() makes of a piece: its bytes without a NUL, and perhaps junk.
\* Nothing is added to what there is of the file, and without a NUL nothing is
\* lost.
LEMMA CStringOf ==
  ASSUME NEW piece \in Seq(OfFiles), NEW over \in Nat
  PROVE  LET c == CString(piece, over)
         IN  /\ c \in Seq(Contents \cup {"junk"}) /\ c \in Seq(Bytes)
             /\ IsText(piece) => Own(c) = piece
             /\ Len(Own(c)) \in 0 .. Len(piece)
<1> DEFINE nul == {i \in DOMAIN piece : piece[i] = "NUL"}
           c == CString(piece, over)
           Sent == Contents \cup {"junk"}
<1>0. /\ Len(piece) \in Nat /\ DOMAIN piece = 1 .. Len(piece)
      /\ \A i \in 1 .. Len(piece) : piece[i] \in OfFiles
      /\ Sent \subseteq Bytes /\ Contents \subseteq Sent /\ "junk" \notin Contents /\ "NUL" \notin Contents
  BY ClientLoopAssumption DEF Bytes
<1>1. IsText(piece) <=> nul = {}
  BY <1>0 DEF IsText, Has
<1>2. CASE nul # {}
  <2>1. PICK i \in nul : \A j \in nul : i <= j
    <3>1. nul \in SUBSET Nat
      BY <1>0
    <3> HIDE DEF nul
    <3> QED
      BY <1>2, <3>1, LeastNumber
  <2> DEFINE least == CHOOSE k \in nul : \A j \in nul : k <= j
  <2>2. least \in nul /\ \A j \in nul : least <= j
    <3> HIDE DEF nul
    <3> QED
      BY <2>1
  <2>3. least \in 1 .. Len(piece)
    BY <1>0, <2>2
  <2>4. \A j \in 1 .. least - 1 : j \in 1 .. Len(piece) /\ piece[j] \in Contents
    <3> TAKE j \in 1 .. least - 1
    <3>1. j \in 1 .. Len(piece) /\ j < least
      BY <1>0, <2>3
    <3>2. piece[j] # "NUL"
      BY <1>0, <2>2, <2>3, <3>1
    <3> QED
      BY <1>0, <3>1, <3>2 DEF OfFiles
  <2>5. c = SubSeq(piece, 1, least - 1)
    BY <1>2 DEF CString
  <2> HIDE DEF least, c
  <2>6. c \in Seq(Contents) /\ Len(c) = least - 1
    <3>1. least - 1 \in Int /\ 1 \in Int /\ (IF 1 <= least - 1 THEN least - 1 - 1 + 1 ELSE 0) = least - 1
      BY <1>0, <2>3
    <3>2. \A j \in 1 .. least - 1 : piece[j] \in Contents
      BY <2>4
    <3> QED
      BY <2>5, <3>1, <3>2, SubSeqProperties
  <2>7. Own(c) = c
    BY <2>6, OwnAll
  <2>8. c \in Seq(Sent) /\ c \in Seq(Bytes)
    <3> HIDE DEF Sent
    <3>1. Contents \subseteq Bytes
      BY <1>0
    <3> QED
      BY <1>0, <2>6, <3>1, SeqMonotonic
  <2>9. Len(c) \in 0 .. Len(piece)
    BY <1>0, <2>3, <2>6
  <2> QED
    BY <1>1, <1>2, <2>7, <2>8, <2>9 DEF c
<1>3. CASE nul = {}
  <2>1. piece \in Seq(Contents)
    <3>1. \A i \in 1 .. Len(piece) : piece[i] \in Contents
      BY <1>0, <1>3 DEF OfFiles
    <3>2. piece \in [1 .. Len(piece) -> Contents]
      BY <1>0, <3>1
    <3> QED
      BY <1>0, <3>2
  <2>2. Own(piece) = piece
    BY <2>1, OwnAll
  <2> DEFINE junk == [i \in 1 .. over |-> "junk"]
  <2>3. junk \in Seq(Sent) /\ junk \in Seq(Bytes)
    <3>1. junk \in [1 .. over -> {"junk"}]
      OBVIOUS
    <3> HIDE DEF junk
    <3>2. junk \in Seq({"junk"}) /\ {"junk"} \subseteq Bytes
      BY <1>0, <3>1
    <3> QED
      BY <3>2, SeqMonotonic
  <2>4. Own(junk) = <<>>
    <3>1. DOMAIN junk = 1 .. over /\ \A i \in 1 .. over : junk[i] = "junk"
      OBVIOUS
    <3> HIDE DEF junk
    <3>2. ~Has(junk, Contents)
      BY <1>0, <3>1 DEF Has
    <3> QED
      BY <2>3, <3>2, OwnNone
  <2>5. piece \in Seq(Sent) /\ piece \in Seq(Bytes)
    <3> HIDE DEF Sent
    <3>1. Contents \subseteq Bytes
      BY <1>0
    <3> QED
      BY <1>0, <2>1, <3>1, SeqMonotonic
  <2>6. c = piece \/ c = piece \o junk
    BY <1>3 DEF CString
  <2> HIDE DEF junk, c, nul, Sent
  <2>7. piece \o junk \in Seq(Sent) /\ piece \o junk \in Seq(Bytes)
    BY <2>3, <2>5
  <2>8. Own(piece \o junk) = piece
    <3>1. Own(piece \o junk) = piece \o <<>>
      BY <2>2, <2>3, <2>4, <2>5, OwnConcat
    <3>2. piece \o <<>> = piece
      BY <2>1, ConcatEmptySeq
    <3> QED
      BY <3>1, <3>2
  <2>9. Own(c) = piece /\ c \in Seq(Sent) /\ c \in Seq(Bytes) /\ Len(piece) \in 0 .. Len(piece)
    <3>1. Len(piece) \in 0 .. Len(piece)
      BY <1>0
    <3>2. CASE c = piece
      BY <2>2, <2>5, <3>1, <3>2
    <3>3. CASE c = piece \o junk
      <4> DEFINE both == piece \o junk
      <4>1. c = both /\ Own(both) = piece /\ both \in Seq(Sent) /\ both \in Seq(Bytes)
        BY <2>7, <2>8, <3>3
      <4> HIDE DEF both
      <4> QED
        BY <3>1, <4>1
    <3> QED
      BY <2>6, <3>2, <3>3
  <2>10. Len(Own(c)) \in 0 .. Len(piece)
    BY <2>9
  <2> QED
    BY <2>9, <2>10 DEF c, Sent
<1> QED
  BY <1>2, <1>3

-----------------------------------------------------------------------------
(***************************************************************************)
(* The pieces of a file.                                                   *)
(***************************************************************************)

\* How many there are, and where each ends.
Count(text) == (Len(text) \div BUFFER_SIZE) + 1

End(text, n) == IF n * BUFFER_SIZE < Len(text) THEN n * BUFFER_SIZE ELSE Len(text)

\* Each begins within the file, and where the one before it ends; the last ends
\* with the file.
LEMMA PieceBounds ==
  ASSUME NEW text \in Seq(OfFiles)
  PROVE  /\ Count(text) \in Nat \ {0}
         /\ \A n \in 1 .. Count(text) :
               /\ (n - 1) * BUFFER_SIZE \in 0 .. Len(text)
               /\ End(text, n) \in (n - 1) * BUFFER_SIZE .. Len(text)
               /\ n # Count(text) => End(text, n) = n * BUFFER_SIZE
         /\ End(text, Count(text)) = Len(text)
<1> DEFINE B == BUFFER_SIZE
           l == Len(text)
           d == l \div B
<1>0. l \in Nat /\ B \in Nat /\ B > 0
  BY ClientLoopAssumption
<1> HIDE DEF B, l
<1>1. d \in Nat /\ d * B <= l /\ l < (d + 1) * B
  BY <1>0
<1> HIDE DEF d
<1>2. Count(text) = d + 1
  BY DEF Count, d, l, B
<1>3. ASSUME NEW n \in 0 .. d
      PROVE  n * B \in 0 .. l
  <2>1. n * B <= d * B /\ n * B \in Nat /\ d * B \in Nat
    BY <1>0, <1>1
  <2> HIDE DEF B
  <2> QED
    BY <1>0, <1>1, <2>1
<1>4. ASSUME NEW n \in 1 .. d + 1
      PROVE  /\ (n - 1) * B \in 0 .. l
             /\ End(text, n) \in (n - 1) * B .. l
             /\ n # d + 1 => End(text, n) = n * B
  <2>1. n - 1 \in 0 .. d /\ n \in Nat
    BY <1>1
  <2>2. (n - 1) * B \in 0 .. l
    BY <2>1, <1>3
  <2>3. n * B \in Nat /\ n * B = (n - 1) * B + B
    BY <1>0, <2>1
  <2>4. End(text, n) = IF n * B < l THEN n * B ELSE l
    BY DEF End, B, l
  <2>5. n # d + 1 => n * B \in 0 .. l
    <3>1. n # d + 1 => n \in 0 .. d
      BY <1>1, <2>1
    <3> QED
      BY <3>1, <1>3
  <2> QED
    BY <1>0, <2>2, <2>3, <2>4, <2>5
<1>5. End(text, d + 1) = l
  <2>1. End(text, d + 1) = IF (d + 1) * B < l THEN (d + 1) * B ELSE l
    BY DEF End, B, l
  <2> QED
    BY <1>0, <1>1, <2>1
<1> QED
  BY <1>1, <1>2, <1>4, <1>5 DEF l, B

\* Each is sent as a text, which has of the file what the piece has of it, if
\* that is a text, and never more.
LEMMA PiecesOf ==
  ASSUME NEW text \in Seq(OfFiles), NEW over \in Nat
  PROVE  LET p == Pieces(text, over)
         IN  /\ DOMAIN p = 1 .. Count(text)
             /\ p \in Seq([channel : {"data"}, text : Seq(Bytes)])
             /\ Len(p) = Count(text)
             /\ \A n \in 1 .. Count(text) :
                   /\ p[n].channel = "data"
                   /\ p[n].text \in Seq(Contents \cup {"junk"}) /\ p[n].text \in Seq(Bytes)
                   /\ IsText(text) =>
                         Own(p[n].text) = SubSeq(text, (n - 1) * BUFFER_SIZE + 1, End(text, n))
                   /\ Len(Own(p[n].text)) \in 0 .. End(text, n) - (n - 1) * BUFFER_SIZE
<1> DEFINE p == Pieces(text, over)
           N == Count(text)
           piece(n) == SubSeq(text, (n - 1) * BUFFER_SIZE + 1, End(text, n))
           Item == [channel : {"data"}, text : Seq(Bytes)]
<1>1. N \in Nat /\ DOMAIN p = 1 .. N /\ \A n \in 1 .. N : p[n] = Data(CString(piece(n), over))
  BY PieceBounds DEF Pieces, Count, End
<1> HIDE DEF p, N
<1>2. ASSUME NEW n \in 1 .. N
      PROVE  /\ p[n] \in Item
             /\ p[n].channel = "data"
             /\ p[n].text \in Seq(Contents \cup {"junk"}) /\ p[n].text \in Seq(Bytes)
             /\ IsText(text) => Own(p[n].text) = piece(n)
             /\ Len(Own(p[n].text)) \in 0 .. End(text, n) - (n - 1) * BUFFER_SIZE
  <2> DEFINE a == (n - 1) * BUFFER_SIZE
             e == End(text, n)
             q == piece(n)
  <2>1. a \in 0 .. Len(text) /\ e \in a .. Len(text)
    BY PieceBounds DEF N
  <2>2. q = SubSeq(text, a + 1, e)
    OBVIOUS
  <2> HIDE DEF a, e, q
  <2>3. q \in Seq(OfFiles) /\ Len(q) = e - a /\ \A i \in 1 .. e - a : q[i] = text[a + i]
    <3>1. \A i \in a + 1 .. e : text[i] \in OfFiles
      BY <2>1
    <3>2. /\ a + 1 \in Int /\ e \in Int /\ (IF a + 1 <= e THEN e - (a + 1) + 1 ELSE 0) = e - a
          /\ \A i \in 1 .. e - a : a + 1 + i - 1 = a + i
      BY <2>1
    <3>3. /\ q \in Seq(OfFiles) /\ Len(q) = e - a
          /\ \A i \in 1 .. e - a : q[i] = text[a + 1 + i - 1]
      BY <2>2, <3>1, <3>2, SubSeqProperties
    <3> QED
      BY <3>2, <3>3
  <2>4. IsText(text) => IsText(q)
    <3>1. DOMAIN text = 1 .. Len(text) /\ DOMAIN q = 1 .. Len(q)
      BY <2>3
    <3>2. \A i \in 1 .. e - a : a + i \in 1 .. Len(text)
      BY <2>1
    <3> QED
      BY <2>3, <3>1, <3>2 DEF IsText, Has
  <2> DEFINE c == CString(q, over)
  <2>5. /\ c \in Seq(Contents \cup {"junk"}) /\ c \in Seq(Bytes)
        /\ IsText(q) => Own(c) = q
        /\ Len(Own(c)) \in 0 .. Len(q)
    BY <2>3, CStringOf
  <2> HIDE DEF c
  <2>6. p[n] = Data(c)
    BY <1>1 DEF c, q
  <2>7. p[n].channel = "data" /\ p[n].text = c /\ p[n] \in Item
    BY <2>5, <2>6 DEF Data
  <2> QED
    BY <2>3, <2>4, <2>5, <2>7 DEF q, e, a
<1>3. p \in Seq(Item) /\ Len(p) = N
  <2>1. p \in [1 .. N -> Item]
    <3>1. p = [n \in 1 .. N |-> p[n]]
      BY DEF p, Pieces, N, Count
    <3> QED
      BY <3>1, <1>2
  <2> HIDE DEF Item
  <2> QED
    BY <1>1, <2>1
<1> QED
  BY <1>1, <1>2, <1>3 DEF p, N

-----------------------------------------------------------------------------
(***************************************************************************)
(* Types.                                                                  *)
(***************************************************************************)

\* What the server still sends: a reply, or bytes on the data channel.
ReplyItems == [channel : {"command"}, text : Replies]
DataItems == [channel : {"data"}, text : Seq(Bytes)]
Items == ReplyItems \cup DataItems

\* The types, and what is in the buffers where the client does not use them.
ClientType ==
    /\ lines \in Seq(Lines) /\ todo \in Seq(Items) /\ replies \in Seq(Replies)
    /\ stream \in Seq(Bytes) /\ Len(stream) <= Capacity
    /\ pc \in {"recv command", "recv data", "show", "read"}
    /\ buffer \in Seq(Replies) /\ buffer_data \in Seq(Bytes)
    /\ pc \in {"recv command", "read"} => buffer = <<>>
    /\ pc # "show" => buffer_data = <<>>
    /\ data_transfer \in BOOLEAN /\ file_transfer \in BOOLEAN
    /\ file \in Seq(OfFiles) /\ got \in Seq(Bytes)
    /\ waited \in BOOLEAN /\ lostListing \in BOOLEAN /\ shownFile \in BOOLEAN

\* What Reply and Data make.
LEMMA ItemsMade ==
  /\ \A text \in Replies : Reply(text) \in ReplyItems /\ Reply(text).channel = "command"
                           /\ Reply(text).text = text
  /\ \A text \in Seq(Bytes) : Data(text) \in DataItems /\ Data(text).channel = "data"
                              /\ Data(text).text = text
BY DEF Reply, Data, ReplyItems, DataItems

\* An item is one or the other.
LEMMA ItemKinds ==
  ASSUME NEW item \in Items
  PROVE  /\ item.channel \in {"command", "data"}
         /\ item.channel = "command" => item \in ReplyItems /\ item.text \in Replies
         /\ item.channel = "data" => item \in DataItems /\ item.text \in Seq(Bytes)
BY DEF Items, ReplyItems, DataItems

\* An ls is answered with the reply and a listing.
LEMMA LsTodo ==
  ASSUME Ls
  PROVE  /\ todo' \in Seq(Items) /\ Len(todo') = 2
         /\ todo'[1] = Reply("List") /\ todo'[2].channel = "data"
         /\ todo'[2].text \in Seq({"listing"})
         /\ file' = <<>>
<1>1. PICK n \in Listings : todo' = <<Reply("List"), Data([i \in 1 .. n |-> "listing"])>>
  BY DEF Ls
<1> DEFINE text == [i \in 1 .. n |-> "listing"]
<1>2. text \in Seq({"listing"})
  <2>1. n \in Nat
    BY ClientLoopAssumption
  <2>2. text \in [1 .. n -> {"listing"}]
    OBVIOUS
  <2> HIDE DEF text
  <2> QED
    BY <2>1, <2>2
<1> HIDE DEF text
<1>3. text \in Seq(Bytes)
  <2>1. {"listing"} \subseteq Bytes
    BY DEF Bytes
  <2> QED
    BY <1>2, <2>1, SeqMonotonic
<1> DEFINE r == Reply("List")
           d == Data(text)
<1>4. r \in Items /\ d \in Items /\ d.channel = "data" /\ d.text = text
  BY <1>3, ItemsMade DEF Items, Replies
<1>5. todo' = <<r, d>>
  BY <1>1 DEF text
<1> HIDE DEF r, d
<1>6. todo' \in Seq(Items) /\ Len(todo') = 2 /\ todo'[1] = r /\ todo'[2] = d
  BY <1>4, <1>5
<1>7. file' = <<>>
  BY DEF Ls
<1> QED
  BY <1>2, <1>4, <1>6, <1>7 DEF r

\* A retr with the pieces of a file, and then the reply.
LEMMA RetrTodo ==
  ASSUME Retr
  PROVE  /\ todo' \in Seq(Items) /\ file' \in Seq(OfFiles)
         /\ Len(todo') = Count(file') + 1
         /\ todo'[Len(todo')] = Reply("Successful Download")
         /\ \A n \in 1 .. Count(file') :
               /\ todo'[n].channel = "data"
               /\ todo'[n].text \in Seq(Contents \cup {"junk"}) /\ todo'[n].text \in Seq(Bytes)
               /\ IsText(file') =>
                     Own(todo'[n].text) = SubSeq(file', (n - 1) * BUFFER_SIZE + 1, End(file', n))
               /\ Len(Own(todo'[n].text)) \in 0 .. End(file', n) - (n - 1) * BUFFER_SIZE
<1>1. PICK text \in Files, over \in Overrun :
        todo' = Append(Pieces(text, over), Reply("Successful Download")) /\ file' = text
  BY DEF Retr
<1>2. text \in Seq(OfFiles) /\ over \in Nat
  BY ClientLoopAssumption DEF OfFiles
<1> DEFINE p == Pieces(text, over)
           r == Reply("Successful Download")
           N == Count(text)
<1>3. /\ p \in Seq(DataItems)
      /\ Len(p) = N
      /\ \A n \in 1 .. N :
            /\ p[n].channel = "data"
            /\ p[n].text \in Seq(Contents \cup {"junk"}) /\ p[n].text \in Seq(Bytes)
            /\ IsText(text) =>
                  Own(p[n].text) = SubSeq(text, (n - 1) * BUFFER_SIZE + 1, End(text, n))
            /\ Len(Own(p[n].text)) \in 0 .. End(text, n) - (n - 1) * BUFFER_SIZE
  BY <1>2, PiecesOf DEF DataItems
<1>4. r \in Items
  BY ItemsMade DEF Items, Replies
<1>5. N \in Nat
  BY <1>2, PieceBounds
<1> HIDE DEF p, r, N
<1>6. p \in Seq(Items)
  <2>1. DataItems \subseteq Items
    BY DEF Items
  <2> QED
    BY <1>3, <2>1, SeqMonotonic
<1>7. todo' = Append(p, r)
  BY <1>1 DEF p, r
<1>8. todo' \in Seq(Items) /\ Len(todo') = N + 1 /\ todo'[N + 1] = r /\ \A n \in 1 .. N : todo'[n] = p[n]
  BY <1>3, <1>4, <1>5, <1>6, <1>7
<1> QED
  BY <1>1, <1>2, <1>3, <1>8 DEF r, N

\* Every other one with a reply.
LEMMA OtherTodo ==
  ASSUME Other
  PROVE  /\ todo' \in Seq(Items) /\ Len(todo') = 1
         /\ todo'[1].channel = "command"
         /\ file' = <<>>
<1> DEFINE r == Reply("another")
<1>1. todo' = <<r>> /\ file' = <<>>
  BY DEF Other
<1>2. r \in Items /\ r.channel = "command"
  BY ItemsMade DEF Items, Replies
<1> HIDE DEF r
<1> QED
  BY <1>1, <1>2

\* A sequence cut in two.
LEMMA Cut ==
  ASSUME NEW S, NEW s \in Seq(S), NEW m \in 0 .. Len(s)
  PROVE  /\ SubSeq(s, 1, m) \in Seq(S) /\ SubSeq(s, m + 1, Len(s)) \in Seq(S)
         /\ Len(SubSeq(s, 1, m)) = m
         /\ SubSeq(s, 1, m) \o SubSeq(s, m + 1, Len(s)) = s
<1>1. /\ 1 \in 1 .. Len(s) + 1 /\ m \in 1 - 1 .. Len(s) /\ Len(s) \in m .. Len(s)
  OBVIOUS
<1>2. SubSeq(s, 1, m) \o SubSeq(s, m + 1, Len(s)) = SubSeq(s, 1, Len(s))
  BY <1>1, ConcatAdjacentSubSeq
<1>3. SubSeq(s, 1, Len(s)) = s
  BY SubSeqFull
<1>4. SubSeq(s, 1, m) \in Seq(S) /\ SubSeq(s, m + 1, Len(s)) \in Seq(S) /\ Len(SubSeq(s, 1, m)) = m
  OBVIOUS
<1> QED
  BY <1>2, <1>3, <1>4

\* What is taken out of the stream at a time, and what stays in it.
LEMMA TakenOf ==
  ASSUME stream \in Seq(Bytes)
  PROVE  LET rest == SubSeq(stream, Len(Taken) + 1, Len(stream))
         IN  /\ Taken \in Seq(Bytes) /\ rest \in Seq(Bytes)
             /\ Taken \o rest = stream
<1> DEFINE l == Len(stream)
           m == IF l < BUFFER_SIZE THEN l ELSE BUFFER_SIZE
           rest == SubSeq(stream, m + 1, l)
<1>1. l \in Nat /\ m \in 0 .. l
  BY ClientLoopAssumption
<1>2. Taken = SubSeq(stream, 1, m)
  <2>1. CASE l < BUFFER_SIZE
    <3>1. Taken = stream /\ m = l
      BY <2>1 DEF Taken
    <3>2. SubSeq(stream, 1, Len(stream)) = stream
      OBVIOUS
    <3> QED
      BY <3>1, <3>2
  <2>2. CASE ~(l < BUFFER_SIZE)
    BY <2>2 DEF Taken
  <2> QED
    BY <2>1, <2>2
<1> HIDE DEF m
<1>3. Len(Taken) = m
  BY <1>1, <1>2
<1>4. SubSeq(stream, 1, m) \in Seq(Bytes) /\ rest \in Seq(Bytes) /\ SubSeq(stream, 1, m) \o rest = stream
  BY <1>1, Cut
<1> QED
  BY <1>2, <1>3, <1>4

\* What send() takes of the bytes it is given goes into the stream, and the rest
\* stays the first that is to be sent.
LEMMA SentData ==
  ASSUME ClientType, SendData
  PROVE  /\ todo # <<>> /\ todo[1].channel = "data" /\ todo[1].text \in Seq(Bytes)
         /\ \E sent \in Seq(Bytes), left \in Seq(Bytes) :
               /\ sent \o left = todo[1].text
               /\ stream' = stream \o sent /\ stream' \in Seq(Bytes) /\ Len(stream') <= Capacity
               /\ todo' \in Seq(Items)
               /\ \/ /\ left = <<>>
                     /\ Len(todo') = Len(todo) - 1
                     /\ \A i \in 1 .. Len(todo') : todo'[i] = todo[i + 1]
                  \/ /\ Len(todo') = Len(todo)
                     /\ todo'[1].channel = "data" /\ todo'[1].text = left
                     /\ \A i \in 2 .. Len(todo') : todo'[i] = todo[i]
<1> DEFINE item == todo[1]
           text == item.text
           room == Capacity - Len(stream)
           n == IF room < Len(text) THEN room ELSE Len(text)
           sent == SubSeq(text, 1, n)
           left == SubSeq(text, n + 1, Len(text))
<1>1. todo \in Seq(Items) /\ todo # <<>> /\ stream \in Seq(Bytes) /\ Capacity \in Nat /\ Len(stream) <= Capacity
  BY ClientLoopAssumption DEF ClientType, SendData
<1>2. item \in Items /\ Head(todo) = item /\ Len(todo) \in Nat \ {0} /\ Len(stream) \in Nat
  BY <1>1
<1>3. item.channel = "data"
  BY <1>2 DEF SendData
<1>4. text \in Seq(Bytes) /\ item \in DataItems
  BY <1>2, <1>3, ItemKinds
<1>5. Len(text) \in Nat
  BY <1>4
<1>6. /\ stream' = stream \o sent
      /\ todo' = IF n = Len(text) THEN Tail(todo) ELSE [todo EXCEPT ![1].text = left]
  <2> DEFINE took(first) ==
               LET m == IF Capacity - Len(stream) < Len(first) THEN Capacity - Len(stream) ELSE Len(first)
               IN  /\ stream' = stream \o SubSeq(first, 1, m)
                   /\ todo' = IF m = Len(first) THEN Tail(todo)
                              ELSE [todo EXCEPT ![1].text = SubSeq(first, m + 1, Len(first))]
  <2>1. took(Head(todo).text)
    BY Zenon DEF SendData
  <2>2. took(text)
    <3> HIDE DEF took
    <3> QED
      BY <1>2, <2>1
  <2> QED
    BY <2>2, Zenon
<1> HIDE DEF item
<1>7. n \in 0 .. Len(text) /\ n <= room
  BY <1>1, <1>2, <1>5
<1>8. /\ sent \in Seq(Bytes) /\ left \in Seq(Bytes) /\ Len(sent) = n /\ sent \o left = text
  <2> HIDE DEF n, text
  <2> QED
    BY <1>4, <1>7, Cut
<1> HIDE DEF sent, text
<1>9. stream' \in Seq(Bytes) /\ Len(stream') <= Capacity
  <2>1. stream' \in Seq(Bytes) /\ Len(stream') = Len(stream) + n
    <3>1. stream \in Seq(Bytes) /\ sent \in Seq(Bytes) /\ Len(sent) = n
      BY <1>1, <1>8
    <3>2. stream \o sent \in Seq(Bytes) /\ Len(stream \o sent) = Len(stream) + n
      BY <3>1
    <3> QED
      BY <1>6, <3>2
  <2> QED
    BY <1>1, <1>2, <1>7, <2>1
<1>10. CASE n = Len(text)
  <2>1. left = <<>>
    BY <1>4, <1>5, <1>10
  <2>2. todo' = Tail(todo)
    BY <1>6, <1>10
  <2>3. /\ todo' \in Seq(Items) /\ Len(todo') = Len(todo) - 1
        /\ \A i \in 1 .. Len(todo') : todo'[i] = todo[i + 1]
    BY <1>1, <2>2, HeadTailProperties
  <2> HIDE DEF left, n
  <2> QED
    BY <1>1, <1>3, <1>4, <1>6, <1>8, <1>9, <2>1, <2>3 DEF item, text
<1>11. CASE n # Len(text)
  <2>1. todo' = [todo EXCEPT ![1].text = left]
    BY <1>6, <1>11
  <2> HIDE DEF left
  <2>2. todo' = [todo EXCEPT ![1] = [item EXCEPT !.text = left]]
    BY <2>1 DEF item
  <2> DEFINE new == [item EXCEPT !.text = left]
  <2>3. new \in Items /\ new.channel = "data" /\ new.text = left
    <3>1. new \in DataItems /\ new.channel = "data" /\ new.text = left
      BY <1>4, <1>8 DEF DataItems
    <3> QED
      BY <3>1 DEF Items
  <2> HIDE DEF new, n
  <2>4. /\ todo' \in Seq(Items) /\ Len(todo') = Len(todo) /\ todo'[1] = new
        /\ \A i \in 2 .. Len(todo') : todo'[i] = todo[i]
    <3>1. todo' = [todo EXCEPT ![1] = new]
      BY <2>2 DEF new
    <3> QED
      BY <1>1, <1>2, <2>3, <3>1
  <2> QED
    BY <1>1, <1>3, <1>4, <1>6, <1>8, <1>9, <2>3, <2>4 DEF item, text
<1> QED
  BY <1>10, <1>11

\* A reply is the next to be sent, and leaves the rest.
LEMMA SentReply ==
  ASSUME ClientType, SendReply
  PROVE  /\ todo # <<>> /\ todo[1].channel = "command" /\ todo[1].text \in Replies
         /\ replies' = Append(replies, todo[1].text) /\ replies' \in Seq(Replies)
         /\ todo' \in Seq(Items) /\ Len(todo') = Len(todo) - 1
         /\ \A i \in 1 .. Len(todo') : todo'[i] = todo[i + 1]
<1>1. todo \in Seq(Items) /\ todo # <<>> /\ replies \in Seq(Replies) /\ Head(todo).channel = "command"
  BY DEF ClientType, SendReply
<1>2. Head(todo) = todo[1] /\ todo[1] \in Items
  BY <1>1
<1>3. todo[1].text \in Replies
  BY <1>1, <1>2, ItemKinds
<1>4. todo' = Tail(todo) /\ replies' = Append(replies, todo[1].text)
  BY <1>2 DEF SendReply
<1>5. replies' \in Seq(Replies)
  BY <1>1, <1>3, <1>4
<1>6. /\ todo' \in Seq(Items) /\ Len(todo') = Len(todo) - 1
      /\ \A i \in 1 .. Len(todo') : todo'[i] = todo[i + 1]
  BY <1>1, <1>4, HeadTailProperties
<1> QED
  BY <1>1, <1>2, <1>3, <1>4, <1>5, <1>6

LEMMA TypeInit == Init => ClientType
<1> SUFFICES ASSUME Init PROVE ClientType
  OBVIOUS
<1>1. \A S : <<>> \in Seq(S)
  OBVIOUS
<1>2. Len(stream) <= Capacity
  <2>1. Capacity \in Nat
    BY ClientLoopAssumption
  <2>2. stream = <<>>
    BY DEF Init
  <2> QED
    BY <2>1, <2>2
<1>3. /\ lines \in Seq(Lines) /\ todo \in Seq(Items) /\ replies \in Seq(Replies) /\ stream \in Seq(Bytes)
      /\ buffer \in Seq(Replies) /\ buffer_data \in Seq(Bytes)
      /\ file \in Seq(OfFiles) /\ got \in Seq(Bytes)
  BY <1>1, Zenon DEF Init
<1> QED
  BY <1>2, <1>3 DEF Init, ClientType

LEMMA TypeNext == ClientType /\ [Next]_vars => ClientType'
<1> SUFFICES ASSUME ClientType, [Next]_vars
             PROVE  ClientType'
  OBVIOUS
<1>0. \A S : <<>> \in Seq(S)
  OBVIOUS
<1>1. CASE Serve
  <2>1. lines # <<>> /\ lines' = Tail(lines) /\ got' = <<>> /\ waited' = FALSE /\ shownFile' = FALSE
        /\ UNCHANGED <<replies, stream, pc, buffer, buffer_data, data_transfer, file_transfer, lostListing>>
    BY <1>1 DEF Serve, client
  <2>2. lines' \in Seq(Lines)
    <3>1. lines \in Seq(Lines)
      BY DEF ClientType
    <3> QED
      BY <2>1, <3>1, HeadTailProperties
  <2>3. todo' \in Seq(Items) /\ file' \in Seq(OfFiles)
    <3>1. CASE Ls
      BY <1>0, <3>1, LsTodo, Zenon
    <3>2. CASE Retr
      BY <3>2, RetrTodo, Zenon
    <3>3. CASE Other
      BY <1>0, <3>3, OtherTodo, Zenon
    <3> QED
      BY <1>1, <3>1, <3>2, <3>3 DEF Serve
  <2>4. got' \in Seq(Bytes)
    BY <1>0, <2>1, Zenon
  <2> QED
    BY <2>1, <2>2, <2>3, <2>4 DEF ClientType
<1>2. CASE SendReply
  <2>1. todo' \in Seq(Items) /\ replies' \in Seq(Replies)
    BY <1>2, SentReply
  <2> QED
    BY <1>2, <2>1 DEF SendReply, client, history, ClientType
<1>3. CASE SendData
  <2>1. todo' \in Seq(Items) /\ stream' \in Seq(Bytes) /\ Len(stream') <= Capacity
    BY <1>3, SentData, Zenon
  <2> QED
    BY <1>3, <2>1 DEF SendData, client, history, ClientType
<1>4. CASE RecvCommand
  <2>1. buffer' \in Seq(Replies) /\ replies' \in Seq(Replies)
    <3>1. replies' = <<>> /\ buffer' \in {replies, <<>>} /\ replies \in Seq(Replies)
      BY <1>4 DEF RecvCommand, ClientType
    <3> QED
      BY <1>0, <3>1, Zenon
  <2>2. waited' \in BOOLEAN
    BY <1>4 DEF RecvCommand, ClientType
  <2> QED
    BY <1>4, <2>1, <2>2 DEF RecvCommand, server, ClientType
<1>5. CASE RecvData
  <2>0. stream \in Seq(Bytes) /\ Len(stream) <= Capacity /\ got \in Seq(Bytes)
    BY DEF ClientType
  <2>1. Taken \in Seq(Bytes) /\ stream' \in Seq(Bytes) /\ Taken \o stream' = stream
    BY <1>5, <2>0, TakenOf DEF RecvData
  <2>2. Len(stream') <= Capacity
    <3>1. Len(Taken \o stream') = Len(Taken) + Len(stream') /\ Len(Taken) \in Nat /\ Len(stream') \in Nat
      BY <2>1
    <3> QED
      BY <2>0, <2>1, <3>1, ClientLoopAssumption
  <2>3. got' \in Seq(Bytes) /\ buffer_data' \in Seq(Bytes)
    <3>1. got' = got \o Taken /\ buffer_data' = Taken
      BY <1>5 DEF RecvData
    <3>2. got \o Taken \in Seq(Bytes)
      BY <2>0, <2>1, ConcatProperties
    <3> QED
      BY <2>1, <3>1, <3>2
  <2> QED
    BY <1>5, <2>1, <2>2, <2>3 DEF RecvData, server, ClientType
<1>6. CASE Show
  <2>1. Announced[1] \in BOOLEAN /\ Announced[2] \in BOOLEAN
    BY DEF Announced, ClientType
  <2>2. data_transfer' \in BOOLEAN /\ file_transfer' \in BOOLEAN
    BY <1>6, <2>1 DEF Show
  <2>3. lostListing' \in BOOLEAN /\ shownFile' \in BOOLEAN
    BY <1>6 DEF Show, ClientType
  <2>4. buffer' = <<>> /\ buffer_data' = <<>>
    BY <1>6 DEF Show
  <2>5. buffer' \in Seq(Replies) /\ buffer_data' \in Seq(Bytes)
    BY <1>0, <2>4, Zenon
  <2> QED
    BY <1>6, <2>2, <2>3, <2>4, <2>5 DEF Show, server, ClientType
<1>7. CASE Read
  <2>1. lines' \in Seq(Lines)
    <3>1. \A line \in Lines : <<line>> \in Seq(Lines)
      OBVIOUS
    <3>2. lines' = lines \/ \E line \in Lines : lines' = <<line>>
      BY <1>7 DEF Read
    <3> QED
      BY <3>1, <3>2 DEF ClientType
  <2> QED
    BY <1>7, <2>1 DEF Read, history, ClientType
<1>8. CASE UNCHANGED vars
  BY <1>8 DEF vars, server, client, history, ClientType
<1> QED
  BY <1>1, <1>2, <1>3, <1>4, <1>5, <1>6, <1>7, <1>8 DEF Next, Server, Client

\* Every variable keeps its type, for all constants: in the client's loop a
\* buffer holds something only between the recv() that fills it and the lines
\* that print it, and the sockets hold no more than they can.
THEOREM ClientTypeCorrect == Spec => []ClientType
<1>1. Init => ClientType
  BY TypeInit
<1>2. ClientType /\ [Next]_vars => ClientType'
  BY TypeNext
<1> QED
  BY <1>1, <1>2, PTL DEF Spec

-----------------------------------------------------------------------------
(***************************************************************************)
(* Downloads.                                                              *)
(***************************************************************************)

\* A patient user's line finds nothing under way.
Quiet == lines # <<>> => /\ Len(lines) = 1
                         /\ todo = <<>> /\ replies = <<>> /\ stream = <<>>

\* What there is of a file is the file up to the end of a piece, if the file is a
\* text, and never more.
Whole(text, own, n) ==
    /\ IsText(text) => own = SubSeq(text, 1, End(text, n))
    /\ Len(own) <= End(text, n)

\* And in the bytes sent for a piece, what is in the piece.
Carries(text, own, n) ==
    /\ IsText(text) => own = SubSeq(text, (n - 1) * BUFFER_SIZE + 1, End(text, n))
    /\ Len(own) <= End(text, n) - (n - 1) * BUFFER_SIZE

\* Where a download of a text is, when so much came and these are still to be
\* sent: there is none; a piece is being sent, and what came is whole up to it;
\* or all have been sent.
NoneArrives(text, came, items) ==
    /\ text = <<>> /\ Own(came) = <<>>
    /\ \A i \in 1 .. Len(items) : items[i].channel = "data" => Own(items[i].text) = <<>>

PieceArrives(text, came, items, n) ==
    /\ Len(items) = Count(text) - n + 2
    /\ items[Len(items)].channel = "command"
    /\ \A i \in 1 .. Len(items) - 1 : items[i].channel = "data"
    /\ \A i \in 2 .. Len(items) - 1 : Carries(text, Own(items[i].text), n + i - 1)
    /\ Whole(text, Own(came \o items[1].text), n)

AllArrived(text, came, items) ==
    /\ \A i \in 1 .. Len(items) : items[i].channel = "command"
    /\ Whole(text, Own(came), Count(text))

Arrives(text, came, items) ==
    \/ NoneArrives(text, came, items)
    \/ \E n \in 1 .. Count(text) : PieceArrives(text, came, items, n)
    \/ AllArrived(text, came, items)

Arriving == Arrives(file, got \o stream, todo)

\* Concatenation is associative, for the bytes of a channel.
LEMMA Grouped ==
  \A s, t, u \in Seq(Bytes) : (s \o t) \o u = s \o (t \o u)
BY ConcatAssociative

\* Items that are the others without the first.
Shifted(items, rest) ==
    /\ Len(items) \in Nat \ {0} /\ Len(rest) = Len(items) - 1
    /\ \A i \in 1 .. Len(rest) : rest[i] = items[i + 1]

\* A piece behind those before it.
LEMMA OnePieceMore ==
  ASSUME NEW text \in Seq(OfFiles), NEW n \in 1 .. Count(text), n # Count(text),
         NEW before \in Seq(Contents), NEW own \in Seq(Contents),
         Whole(text, before, n), Carries(text, own, n + 1)
  PROVE  Whole(text, before \o own, n + 1)
<1> DEFINE l == Len(text)
           e == End(text, n)
           f == End(text, n + 1)
<1>1. /\ n \in Nat /\ n + 1 \in 1 .. Count(text) /\ (n + 1) - 1 = n
      /\ e = n * BUFFER_SIZE /\ e \in 0 .. l /\ f \in e .. l /\ l \in Nat
  <2>1. n \in Nat /\ n + 1 \in 1 .. Count(text) /\ (n + 1) - 1 = n /\ l \in Nat
    BY PieceBounds
  <2>2. e = n * BUFFER_SIZE
    BY PieceBounds
  <2>3. n * BUFFER_SIZE \in 0 .. l /\ f \in n * BUFFER_SIZE .. l
    BY <2>1, PieceBounds
  <2> QED
    BY <2>1, <2>2, <2>3
<1>2. /\ IsText(text) => own = SubSeq(text, e + 1, f)
      /\ Len(own) <= f - e
  BY <1>1 DEF Carries
<1>3. /\ IsText(text) => before = SubSeq(text, 1, e)
      /\ Len(before) <= e
  BY DEF Whole
<1> HIDE DEF e, f, l
<1>4. SubSeq(text, 1, e) \o SubSeq(text, e + 1, f) = SubSeq(text, 1, f)
  <2>1. 1 \in 1 .. Len(text) + 1 /\ e \in 1 - 1 .. Len(text) /\ f \in e .. Len(text)
    BY <1>1 DEF l
  <2> QED
    BY <2>1, ConcatAdjacentSubSeq
<1> DEFINE both == before \o own
<1>5. IsText(text) => both = SubSeq(text, 1, f)
  BY <1>2, <1>3, <1>4
<1>6. Len(both) <= f
  <2>1. Len(both) = Len(before) + Len(own) /\ Len(before) \in Nat /\ Len(own) \in Nat
    OBVIOUS
  <2> HIDE DEF both
  <2> QED
    BY <1>1, <1>2, <1>3, <2>1
<1> QED
  BY <1>5, <1>6 DEF Whole, f

\* send() on the first of the items keeps the place.
LEMMA ArrivesData ==
  ASSUME NEW text \in Seq(OfFiles), NEW came \in Seq(Bytes), NEW items \in Seq(Items),
         NEW rest \in Seq(Items), NEW sent \in Seq(Bytes), NEW left \in Seq(Bytes),
         items # <<>>, items[1].channel = "data", items[1].text \in Seq(Bytes),
         sent \o left = items[1].text,
         \/ left = <<>> /\ Shifted(items, rest)
         \/ /\ Len(rest) = Len(items)
            /\ rest[1].channel = "data" /\ rest[1].text = left
            /\ \A i \in 2 .. Len(rest) : rest[i] = items[i],
         Arrives(text, came, items)
  PROVE  Arrives(text, came \o sent, rest)
<1> DEFINE first == items[1].text
           more == came \o sent
<1>1. /\ Len(items) \in Nat \ {0} /\ Len(rest) \in Nat
      /\ first \in Seq(Bytes) /\ more \in Seq(Bytes) /\ first = sent \o left
  OBVIOUS
<1>2. Own(more) = Own(came) \o Own(sent) /\ Own(first) = Own(sent) \o Own(left)
  BY OwnConcat
<1>3. Own(came) \in Seq(Contents) /\ Own(sent) \in Seq(Contents) /\ Own(left) \in Seq(Contents)
  BY OwnType
<1>4. more \o left = came \o first
  <2>1. (came \o sent) \o left = came \o (sent \o left)
    BY Grouped, Zenon
  <2> QED
    BY <1>1, <2>1
<1>5. left = <<>> => more = came \o first
  <2>1. left = <<>> => sent \o left = sent
    BY ConcatEmptySeq
  <2> QED
    BY <1>1, <2>1
<1> HIDE DEF more, first
<1>6. CASE NoneArrives(text, came, items)
  <2>1. Own(first) = <<>> /\ Own(came) = <<>> /\ text = <<>>
    <3>1. 1 \in 1 .. Len(items) /\ items[1].channel = "data"
      BY <1>1
    <3> QED
      BY <1>6, <3>1 DEF NoneArrives, first
  <2>2. Own(sent) = <<>> /\ Own(left) = <<>>
    <3> DEFINE a == Own(sent)
               b == Own(left)
    <3>1. a \in Seq(Contents) /\ b \in Seq(Contents) /\ a \o b = <<>>
      BY <1>2, <1>3, <2>1
    <3> HIDE DEF a, b
    <3>2. Len(a \o b) = Len(a) + Len(b) /\ Len(a) \in Nat /\ Len(b) \in Nat
      BY <3>1
    <3>3. Len(a) = 0 /\ Len(b) = 0
      BY <3>1, <3>2
    <3>4. a = <<>> /\ b = <<>>
      BY <3>1, <3>3
    <3> QED
      BY <3>4 DEF a, b
  <2>3. Own(more) = <<>>
    BY <1>2, <2>1, <2>2
  <2>4. ASSUME NEW i \in 1 .. Len(rest), rest[i].channel = "data"
        PROVE  Own(rest[i].text) = <<>>
    <3>1. CASE Shifted(items, rest)
      <4>1. i + 1 \in 1 .. Len(items) /\ rest[i] = items[i + 1]
        BY <1>1, <3>1 DEF Shifted
      <4> QED
        BY <1>6, <2>4, <4>1 DEF NoneArrives
    <3>2. CASE ~Shifted(items, rest)
      <4>1. i = 1 \/ i \in 2 .. Len(rest)
        BY <1>1
      <4>2. Len(rest) = Len(items) /\ rest[1].text = left /\ \A k \in 2 .. Len(rest) : rest[k] = items[k]
        BY <3>2
      <4>3. CASE i = 1
        BY <2>2, <4>2, <4>3
      <4>4. CASE i \in 2 .. Len(rest)
        <5>1. rest[i] = items[i] /\ i \in 1 .. Len(items)
          BY <4>2, <4>4
        <5> QED
          BY <1>6, <2>4, <5>1 DEF NoneArrives
      <4> QED
        BY <4>1, <4>3, <4>4
    <3> QED
      BY <3>1, <3>2
  <2> QED
    BY <2>1, <2>3, <2>4 DEF Arrives, NoneArrives, more
<1>7. ASSUME NEW n \in 1 .. Count(text), PieceArrives(text, came, items, n)
      PROVE  Arrives(text, more, rest)
  <2> DEFINE N == Count(text)
             l == Len(items)
  <2>1. /\ l = N - n + 2
        /\ items[l].channel = "command"
        /\ \A i \in 1 .. l - 1 : items[i].channel = "data"
        /\ \A i \in 2 .. l - 1 : Carries(text, Own(items[i].text), n + i - 1)
        /\ Whole(text, Own(came \o first), n)
    BY <1>7 DEF PieceArrives, first
  <2>2. N \in Nat /\ n \in Nat /\ n <= N /\ l >= 2 /\ l \in Nat
    <3>1. N \in Nat /\ n \in Nat /\ n <= N
      BY PieceBounds
    <3> HIDE DEF N
    <3> QED
      BY <2>1, <3>1
  <2> HIDE DEF N, l
  <2>6. \A i \in 1 .. l - 1 : items[i].channel = "data"
    BY <2>1
  <2>3. CASE ~Shifted(items, rest)
    <3>1. /\ Len(rest) = l /\ rest[1].channel = "data" /\ rest[1].text = left
          /\ \A i \in 2 .. Len(rest) : rest[i] = items[i]
      BY <2>3 DEF l
    <3>2. Whole(text, Own(more \o rest[1].text), n)
      BY <1>4, <2>1, <3>1
    <3>3. \A i \in 2 .. l - 1 : rest[i] = items[i]
      BY <2>2, <3>1
    <3>4. rest[l] = items[l]
      BY <2>2, <3>1
    <3>5. ASSUME NEW i \in 1 .. l - 1
          PROVE  rest[i].channel = "data"
      <4>1. i = 1 \/ i \in 2 .. l - 1
        BY <2>2
      <4>2. items[i].channel = "data"
        BY <2>6
      <4> QED
        BY <4>1, <4>2, <3>1, <3>3
    <3>6. PieceArrives(text, more, rest, n)
      BY <2>1, <3>1, <3>2, <3>3, <3>4, <3>5 DEF PieceArrives, N
    <3> QED
      BY <3>6 DEF Arrives
  <2>4. CASE Shifted(items, rest) /\ n = N
    <3>1. l = 2 /\ Len(rest) = 1 /\ rest[1] = items[2]
      BY <2>1, <2>2, <2>4 DEF Shifted, l
    <3>2. left = <<>>
      BY <2>4, <1>1 DEF Shifted
    <3>3. Whole(text, Own(more), N)
      BY <1>5, <2>1, <2>4, <3>2
    <3>4. \A i \in 1 .. Len(rest) : rest[i].channel = "command"
      BY <2>1, <3>1
    <3> QED
      BY <3>3, <3>4 DEF Arrives, AllArrived, N
  <2>5. CASE Shifted(items, rest) /\ n # N
    <3> DEFINE k == n + 1
    <3>1. k \in 1 .. N /\ k \in Nat /\ n \in 1 .. N
      BY <2>2, <2>5
    <3>2. /\ l >= 3 /\ Len(rest) = l - 1 /\ l - 1 = N - k + 2
          /\ \A i \in 1 .. l - 1 : rest[i] = items[i + 1]
      BY <2>1, <2>2, <2>5 DEF Shifted, l
    <3>3. left = <<>>
      BY <2>5, <1>1 DEF Shifted
    <3>4. rest[l - 1] = items[l]
      <4>1. l - 1 \in 1 .. l - 1 /\ l - 1 + 1 = l
        BY <2>1, <2>2, <3>2
      <4> QED
        BY <3>2, <4>1
    <3>5. \A i \in 1 .. (l - 1) - 1 : rest[i].channel = "data"
      <4> TAKE i \in 1 .. (l - 1) - 1
      <4>1. i \in 1 .. l - 1 /\ i + 1 \in 1 .. l - 1
        BY <2>2
      <4>2. items[i + 1].channel = "data"
        BY <2>6, <4>1
      <4>3. rest[i] = items[i + 1]
        BY <3>2, <4>1
      <4> QED
        BY <4>2, <4>3
    <3>6. \A i \in 2 .. (l - 1) - 1 : Carries(text, Own(rest[i].text), k + i - 1)
      <4> TAKE i \in 2 .. (l - 1) - 1
      <4>1. i \in 1 .. l - 1 /\ i + 1 \in 2 .. l - 1 /\ n + (i + 1) - 1 = k + i - 1
        <5>1. l \in Nat /\ n \in Nat /\ i \in Nat
          BY <2>2
        <5> QED
          BY <5>1
      <4> QED
        BY <2>1, <3>2, <4>1
    <3>7. Whole(text, Own(more \o rest[1].text), k)
      <4> DEFINE second == items[2].text
      <4>1. rest[1] = items[2] /\ 2 \in 2 .. l - 1 /\ n + 2 - 1 = k /\ items[2] \in Items
        <5>1. 1 \in 1 .. l - 1 /\ 1 + 1 = 2 /\ 2 \in 2 .. l - 1 /\ 2 \in 1 .. Len(items) /\ n + 2 - 1 = k
          BY <2>2, <3>2 DEF l
        <5> QED
          BY <3>2, <5>1
      <4>2. second \in Seq(Bytes) /\ Carries(text, Own(second), k)
        <5>1. items[2].channel = "data" /\ 2 \in 1 .. l - 1
          BY <2>1, <2>2, <4>1
        <5>2. Carries(text, Own(second), k)
          BY <2>1, <4>1
        <5> QED
          BY <4>1, <5>1, <5>2, ItemKinds
      <4>3. more \in Seq(Bytes) /\ Whole(text, Own(more), n)
        BY <1>1, <1>5, <2>1, <3>3
      <4> HIDE DEF second
      <4>4. Own(more) \in Seq(Contents) /\ Own(second) \in Seq(Contents)
        BY <4>2, <4>3, OwnType
      <4>5. Whole(text, Own(more) \o Own(second), k)
        BY <2>5, <3>1, <4>2, <4>3, <4>4, OnePieceMore DEF N
      <4>6. Own(more \o second) = Own(more) \o Own(second)
        BY <4>2, <4>3, OwnConcat
      <4> QED
        BY <4>1, <4>5, <4>6 DEF second
    <3> HIDE DEF k
    <3>8. PieceArrives(text, more, rest, k)
      BY <2>1, <3>2, <3>4, <3>5, <3>6, <3>7 DEF PieceArrives, N
    <3> QED
      BY <3>1, <3>8 DEF Arrives, N
  <2> QED
    BY <2>3, <2>4, <2>5
<1>8. CASE AllArrived(text, came, items)
  <2>1. 1 \in 1 .. Len(items) /\ items[1].channel = "data"
    BY <1>1
  <2>2. items[1].channel = "command"
    BY <1>8, <2>1 DEF AllArrived
  <2> QED
    BY <2>1, <2>2
<1> QED
  BY <1>6, <1>7, <1>8 DEF Arrives, more

\* So does a reply that is the first of them.
LEMMA ArrivesReply ==
  ASSUME NEW text \in Seq(OfFiles), NEW came, NEW items \in Seq(Items), NEW rest \in Seq(Items),
         items[1].channel = "command", Shifted(items, rest), Arrives(text, came, items)
  PROVE  Arrives(text, came, rest)
<1>1. /\ Len(items) \in Nat \ {0} /\ Len(rest) \in Nat
      /\ \A i \in 1 .. Len(rest) : i + 1 \in 1 .. Len(items) /\ rest[i] = items[i + 1]
  BY DEF Shifted
<1>2. CASE NoneArrives(text, came, items)
  BY <1>1, <1>2 DEF Arrives, NoneArrives
<1>3. ASSUME NEW n \in 1 .. Count(text), PieceArrives(text, came, items, n)
      PROVE  FALSE
  <2>1. Count(text) \in Nat /\ n \in Nat /\ n <= Count(text)
    BY PieceBounds
  <2>2. Len(items) = Count(text) - n + 2 /\ \A i \in 1 .. Len(items) - 1 : items[i].channel = "data"
    BY <1>3 DEF PieceArrives
  <2>3. 1 \in 1 .. Len(items) - 1
    BY <2>1, <2>2
  <2> QED
    BY <2>2, <2>3
<1>4. CASE AllArrived(text, came, items)
  BY <1>1, <1>4 DEF Arrives, AllArrived
<1> QED
  BY <1>2, <1>3, <1>4 DEF Arrives

\* The server takes a patient user's line when nothing is under way.
LEMMA QuietNext ==
  ASSUME Patient, ClientType, Quiet, [Next]_vars
  PROVE  Quiet'
<1>1. lines \in Seq(Lines)
  BY DEF ClientType
<1>2. CASE Serve
  <2>1. Len(lines) = 1 /\ lines' = Tail(lines)
    BY <1>2 DEF Serve, Quiet
  <2>2. lines' = <<>>
    BY <1>1, <2>1
  <2> QED
    BY <2>2 DEF Quiet
<1>3. CASE SendReply \/ SendData
  <2>1. todo # <<>> /\ lines' = lines
    BY <1>3 DEF SendReply, SendData
  <2> QED
    BY <2>1 DEF Quiet
<1>4. CASE RecvCommand
  BY <1>4 DEF RecvCommand, server, Quiet
<1>5. CASE RecvData
  <2>1. lines' = lines /\ todo' = todo /\ replies' = replies
    BY <1>5 DEF RecvData, server
  <2>2. stream = <<>> => stream' = <<>>
    <3>1. stream' = SubSeq(stream, Len(Taken) + 1, Len(stream))
      BY <1>5 DEF RecvData
    <3>2. stream = <<>> => Taken = <<>>
      <4>1. BUFFER_SIZE \in Nat \ {0}
        BY ClientLoopAssumption
      <4> QED
        BY <4>1 DEF Taken
    <3> QED
      BY <3>1, <3>2
  <2> QED
    BY <2>1, <2>2 DEF Quiet
<1>6. CASE Show
  BY <1>6 DEF Show, server, Quiet
<1>7. CASE Read
  <2>1. CASE UNCHANGED lines
    BY <1>7, <2>1 DEF Read, Quiet
  <2>2. CASE ~UNCHANGED lines
    <3>1. todo' = <<>> /\ replies' = <<>> /\ stream' = <<>> /\ \E line \in Lines : lines' = <<line>>
      BY <1>7, <2>2 DEF Read
    <3>2. Len(lines') = 1
      BY <3>1
    <3> QED
      BY <3>1, <3>2 DEF Quiet
  <2> QED
    BY <2>1, <2>2
<1>8. CASE UNCHANGED vars
  BY <1>8 DEF vars, server, client, Quiet
<1> QED
  BY <1>2, <1>3, <1>4, <1>5, <1>6, <1>7, <1>8 DEF Next, Server, Client

\* A download that begins finds nothing on the data channel.
LEMMA ArrivingServe ==
  ASSUME ClientType, Quiet, Serve
  PROVE  Arriving'
<1>0. Own(<<>>) = <<>> /\ <<>> \in Seq(Bytes)
  <2>1. <<>> \in Seq(Contents) /\ <<>> \in Seq(Bytes)
    OBVIOUS
  <2> QED
    BY <2>1, OwnAll
<1>1. got' = <<>> /\ stream' = <<>>
  BY DEF Serve, Quiet
<1>2. got' \o stream' = <<>>
  BY <1>1
<1>3. CASE Ls
  <2>1. /\ todo' \in Seq(Items) /\ Len(todo') = 2
        /\ todo'[1] = Reply("List") /\ todo'[2].text \in Seq({"listing"})
        /\ file' = <<>>
    BY <1>3, LsTodo, Zenon
  <2> DEFINE listing == todo'[2].text
  <2>2. Own(listing) = <<>>
    <3>1. {"listing"} \subseteq Bytes /\ "listing" \notin Contents
      BY ClientLoopAssumption DEF Bytes
    <3>2. listing \in Seq({"listing"})
      BY <2>1
    <3> HIDE DEF listing
    <3>3. listing \in Seq(Bytes)
      BY <3>1, <3>2, SeqMonotonic
    <3>4. ~Has(listing, Contents)
      BY <3>1, <3>2 DEF Has
    <3> QED
      BY <3>3, <3>4, OwnNone
  <2>3. todo'[1].channel = "command"
    BY <2>1, ItemsMade DEF Replies
  <2>4. \A i \in 1 .. Len(todo') : todo'[i].channel = "data" => Own(todo'[i].text) = <<>>
    <3> TAKE i \in 1 .. Len(todo')
    <3>1. i = 1 \/ i = 2
      BY <2>1
    <3> QED
      BY <2>2, <2>3, <3>1
  <2>5. NoneArrives(file', got' \o stream', todo')
    BY <1>0, <1>2, <2>1, <2>4, Zenon DEF NoneArrives
  <2> QED
    BY <2>5, Zenon DEF Arriving, Arrives
<1>4. CASE Other
  <2>1. Len(todo') = 1 /\ todo'[1].channel = "command" /\ file' = <<>>
    BY <1>4, OtherTodo, Zenon
  <2>2. \A i \in 1 .. Len(todo') : todo'[i].channel = "data" => Own(todo'[i].text) = <<>>
    BY <2>1
  <2>3. NoneArrives(file', got' \o stream', todo')
    BY <1>0, <1>2, <2>1, <2>2, Zenon DEF NoneArrives
  <2> QED
    BY <2>3, Zenon DEF Arriving, Arrives
<1>5. CASE Retr
  <2> DEFINE text == file'
             items == todo'
             N == Count(text)
             first == items[1].text
             r == Reply("Successful Download")
  <2>1. /\ items \in Seq(Items) /\ text \in Seq(OfFiles) /\ Len(items) = N + 1
        /\ items[Len(items)] = r
        /\ \A n \in 1 .. N :
              /\ items[n].channel = "data" /\ items[n].text \in Seq(Bytes)
              /\ IsText(text) =>
                    Own(items[n].text) = SubSeq(text, (n - 1) * BUFFER_SIZE + 1, End(text, n))
              /\ Len(Own(items[n].text)) \in 0 .. End(text, n) - (n - 1) * BUFFER_SIZE
    BY <1>5, RetrTodo, Zenon
  <2>2. N \in Nat \ {0} /\ \A n \in 1 .. N : End(text, n) - (n - 1) * BUFFER_SIZE \in Nat
    <3>1. N \in Nat \ {0}
      BY <2>1, PieceBounds
    <3>2. ASSUME NEW n \in 1 .. N
          PROVE  End(text, n) - (n - 1) * BUFFER_SIZE \in Nat
      <4> DEFINE a == (n - 1) * BUFFER_SIZE
                 e == End(text, n)
      <4>1. a \in 0 .. Len(text) /\ e \in a .. Len(text)
        BY <2>1, PieceBounds
      <4> HIDE DEF a, e
      <4>2. e - a \in Nat
        BY <4>1
      <4> QED
        BY <4>2 DEF a, e
    <3> QED
      BY <3>1, <3>2
  <2>3. r.channel = "command"
    BY ItemsMade DEF Replies
  <2> HIDE DEF text, items, r, N
  <2>4. ASSUME NEW n \in 1 .. N
        PROVE  Carries(text, Own(items[n].text), n)
    <3> DEFINE u == Len(Own(items[n].text))
               d == End(text, n) - (n - 1) * BUFFER_SIZE
    <3>1. u \in 0 .. d /\ d \in Nat
      BY <2>1, <2>2
    <3> HIDE DEF u, d
    <3>2. u <= d
      BY <3>1
    <3> QED
      BY <2>1, <3>2 DEF Carries, u, d
  <2>5. 1 \in 1 .. N /\ (1 - 1) * BUFFER_SIZE = 0
    <3>1. BUFFER_SIZE \in Nat
      BY ClientLoopAssumption
    <3> QED
      BY <2>2, <3>1
  <2>6. first \in Seq(Bytes) /\ Carries(text, Own(first), 1)
    BY <2>1, <2>4, <2>5
  <2> HIDE DEF first
  <2>7. Whole(text, Own(first), 1)
    <3>1. End(text, 1) \in 0 .. Len(text) /\ Len(text) \in Nat
      BY <2>1, <2>5, PieceBounds DEF N
    <3>2. IsText(text) => Own(first) = SubSeq(text, 0 + 1, End(text, 1))
      BY <2>5, <2>6 DEF Carries
    <3>3. Len(Own(first)) <= End(text, 1) - 0
      BY <2>5, <2>6 DEF Carries
    <3> QED
      BY <3>1, <3>2, <3>3 DEF Whole
  <2>8. <<>> \o first = first
    BY <2>6, ConcatEmptySeq
  <2>9. \A i \in 2 .. Len(items) - 1 : Carries(text, Own(items[i].text), 1 + i - 1)
    <3> TAKE i \in 2 .. Len(items) - 1
    <3>1. i \in 1 .. N /\ 1 + i - 1 = i
      <4>1. Len(items) - 1 = N /\ N \in Nat
        BY <2>1, <2>2
      <4> QED
        BY <4>1
    <3> QED
      BY <2>4, <3>1
  <2>10. Len(items) = N - 1 + 2 /\ \A i \in 1 .. Len(items) - 1 : items[i].channel = "data"
    BY <2>1, <2>2
  <2>11. PieceArrives(text, <<>>, items, 1)
    BY <2>1, <2>3, <2>7, <2>8, <2>9, <2>10, Zenon DEF PieceArrives, N, first
  <2>12. Arrives(text, <<>>, items)
    BY <2>5, <2>11 DEF Arrives, N
  <2> QED
    BY <1>2, <2>12, Zenon DEF Arriving, text, items
<1> QED
  BY <1>3, <1>4, <1>5 DEF Serve

LEMMA ArrivingNext ==
  ASSUME ClientType, Quiet, Arriving, [Next]_vars
  PROVE  Arriving'
<1>1. CASE Serve
  BY <1>1, ArrivingServe
<1>2. CASE SendReply
  <2>1. todo' \in Seq(Items) /\ todo \in Seq(Items) /\ file \in Seq(OfFiles) /\ todo[1].channel = "command"
    BY <1>2, SentReply DEF ClientType
  <2>2. Shifted(todo, todo')
    <3>1. /\ todo # <<>> /\ Len(todo') = Len(todo) - 1
          /\ \A i \in 1 .. Len(todo') : todo'[i] = todo[i + 1]
      BY <1>2, SentReply
    <3>2. Len(todo) \in Nat \ {0}
      BY <2>1, <3>1
    <3> QED
      BY <3>1, <3>2 DEF Shifted
  <2>3. Arrives(file, got \o stream, todo')
    BY <2>1, <2>2, ArrivesReply DEF Arriving
  <2>4. UNCHANGED <<file, got, stream>>
    BY <1>2 DEF SendReply, history
  <2> QED
    BY <2>3, <2>4 DEF Arriving
<1>3. CASE SendData
  <2>1. PICK sent \in Seq(Bytes), left \in Seq(Bytes) :
          /\ sent \o left = todo[1].text
          /\ stream' = stream \o sent
          /\ todo' \in Seq(Items)
          /\ \/ left = <<>> /\ Len(todo') = Len(todo) - 1 /\ \A i \in 1 .. Len(todo') : todo'[i] = todo[i + 1]
             \/ /\ Len(todo') = Len(todo)
                /\ todo'[1].channel = "data" /\ todo'[1].text = left
                /\ \A i \in 2 .. Len(todo') : todo'[i] = todo[i]
    BY <1>3, SentData, Zenon
  <2>2. /\ todo # <<>> /\ todo[1].channel = "data" /\ todo[1].text \in Seq(Bytes)
    BY <1>3, SentData, Zenon
  <2>3. /\ todo \in Seq(Items) /\ file \in Seq(OfFiles) /\ got \in Seq(Bytes) /\ stream \in Seq(Bytes)
        /\ UNCHANGED <<file, got>>
    BY <1>3 DEF SendData, history, ClientType
  <2>4. Len(todo) \in Nat \ {0}
    BY <2>2, <2>3
  <2>5. \/ left = <<>> /\ Shifted(todo, todo')
        \/ /\ Len(todo') = Len(todo)
           /\ todo'[1].channel = "data" /\ todo'[1].text = left
           /\ \A i \in 2 .. Len(todo') : todo'[i] = todo[i]
    BY <2>1, <2>4, Zenon DEF Shifted
  <2> DEFINE came == got \o stream
             items == todo
             rest == todo'
             text == file
  <2>6. came \in Seq(Bytes)
    BY <2>3
  <2>7. Arrives(text, came, items)
    BY DEF Arriving
  <2>8. got' \o stream' = came \o sent
    <3>1. (got \o stream) \o sent = got \o (stream \o sent)
      BY <2>1, <2>3, Grouped, Zenon
    <3> QED
      BY <2>1, <2>3, <3>1, Zenon
  <2>9. /\ text \in Seq(OfFiles) /\ items \in Seq(Items) /\ rest \in Seq(Items)
        /\ items # <<>> /\ items[1].channel = "data" /\ items[1].text \in Seq(Bytes)
        /\ sent \o left = items[1].text
        /\ \/ left = <<>> /\ Shifted(items, rest)
           \/ /\ Len(rest) = Len(items)
              /\ rest[1].channel = "data" /\ rest[1].text = left
              /\ \A i \in 2 .. Len(rest) : rest[i] = items[i]
    BY <2>1, <2>2, <2>3, <2>5, Zenon
  <2> HIDE DEF came, items, rest, text
  <2>10. Arrives(text, came \o sent, rest)
    BY <2>6, <2>7, <2>9, ArrivesData, Zenon
  <2> QED
    BY <2>3, <2>8, <2>10, Zenon DEF Arriving, rest, text
<1>4. CASE RecvData
  <2>0. stream \in Seq(Bytes) /\ got \in Seq(Bytes)
    BY DEF ClientType
  <2>1. Taken \in Seq(Bytes) /\ stream' \in Seq(Bytes) /\ Taken \o stream' = stream
    BY <1>4, <2>0, TakenOf DEF RecvData
  <2>2. got' = got \o Taken /\ UNCHANGED <<todo, file>>
    BY <1>4 DEF RecvData, server
  <2>3. got' \o stream' = got \o stream
    <3> DEFINE t == Taken
               r == stream'
    <3>1. t \in Seq(Bytes) /\ r \in Seq(Bytes) /\ t \o r = stream
      BY <2>1
    <3> HIDE DEF t, r
    <3>2. (got \o t) \o r = got \o (t \o r)
      BY <2>0, <3>1, Grouped, Zenon
    <3> QED
      BY <2>2, <3>1, <3>2, Zenon DEF t, r
  <2> QED
    BY <2>2, <2>3 DEF Arriving
<1>5. CASE RecvCommand \/ Show \/ Read \/ UNCHANGED vars
  <2>1. UNCHANGED <<got, stream, todo, file>>
    BY <1>5 DEF RecvCommand, Show, Read, vars, server, history
  <2> QED
    BY <2>1 DEF Arriving
<1> QED
  BY <1>1, <1>2, <1>3, <1>4, <1>5 DEF Next, Server, Client

\* retr: when nothing of it is under way, a file without NULs has arrived whole
\* and in order, and of any file no more of its own bytes than it has, for every
\* buffer, socket and file, however often the server had to wait; for a user who
\* types when nothing is under way (what is left of a download before this one
\* would come with it).
THEOREM DownloadIsFileCorrect == Patient => (Spec => []DownloadIsFile)
<1> SUFFICES ASSUME Patient
             PROVE  Spec => []DownloadIsFile
  OBVIOUS
<1> DEFINE I == ClientType /\ Quiet /\ Arriving
<1>1. Init => I
  <2> SUFFICES ASSUME Init PROVE I
    OBVIOUS
  <2>1. ClientType
    BY TypeInit
  <2>2. Quiet
    BY DEF Init, Quiet
  <2>3. Own(<<>>) = <<>>
    <3>1. <<>> \in Seq(Contents)
      OBVIOUS
    <3> QED
      BY <3>1, OwnAll
  <2>4. NoneArrives(file, got \o stream, todo)
    <3>1. file = <<>> /\ got = <<>> /\ stream = <<>> /\ todo = <<>>
      BY DEF Init
    <3>2. <<>> \o <<>> = <<>> /\ Len(<<>>) = 0
      OBVIOUS
    <3>3. got \o stream = <<>> /\ Len(todo) = 0
      BY <3>1, <3>2, Zenon
    <3> QED
      BY <2>3, <3>1, <3>3 DEF NoneArrives
  <2> QED
    BY <2>1, <2>2, <2>4 DEF Arriving, Arrives
<1>2. I /\ [Next]_vars => I'
  BY TypeNext, QuietNext, ArrivingNext
<1>3. I => DownloadIsFile
  <2> SUFFICES ASSUME I, Arrived
               PROVE  (IsText(file) => Own(got) = file) /\ Len(Own(got)) <= Len(file)
    BY DEF DownloadIsFile
  <2>1. /\ todo \in Seq(Items) /\ file \in Seq(OfFiles) /\ got \in Seq(Bytes)
        /\ stream = <<>> /\ \A i \in 1 .. Len(todo) : todo[i].channel = "command"
    <3>1. todo \in Seq(Items) /\ file \in Seq(OfFiles) /\ got \in Seq(Bytes)
      BY DEF ClientType
    <3>2. DOMAIN todo = 1 .. Len(todo)
      BY <3>1
    <3> QED
      BY <3>1, <3>2, Zenon DEF Arrived
  <2>2. got \o stream = got
    BY <2>1, ConcatEmptySeq
  <2>3. CASE NoneArrives(file, got, todo)
    BY <2>3 DEF NoneArrives
  <2>4. ASSUME NEW n \in 1 .. Count(file), PieceArrives(file, got, todo, n)
        PROVE  FALSE
    <3>1. Count(file) \in Nat /\ n \in Nat /\ n <= Count(file)
      BY <2>1, PieceBounds
    <3>2. Len(todo) = Count(file) - n + 2 /\ \A i \in 1 .. Len(todo) - 1 : todo[i].channel = "data"
      BY <2>4 DEF PieceArrives
    <3>3. 1 \in 1 .. Len(todo) - 1 /\ 1 \in 1 .. Len(todo)
      BY <3>1, <3>2
    <3> QED
      BY <2>1, <3>2, <3>3
  <2>5. CASE AllArrived(file, got, todo)
    <3>1. End(file, Count(file)) = Len(file) /\ SubSeq(file, 1, Len(file)) = file
      BY <2>1, PieceBounds, SubSeqFull
    <3> QED
      BY <2>5, <3>1 DEF AllArrived, Whole
  <2> QED
    BY <2>2, <2>3, <2>4, <2>5 DEF Arriving, Arrives
<1> QED
  BY <1>1, <1>2, <1>3, PTL DEF Spec

-----------------------------------------------------------------------------
(***************************************************************************)
(* What is printed.                                                        *)
(***************************************************************************)

\* A prompt server takes the line before the client's recv() ends.
Asked == lines # <<>> => pc = "recv command"

\* Bytes of a set are under way on the data channel.
UnderWay(S) ==
    \/ Has(stream, S) \/ Has(buffer_data, S)
    \/ \E i \in 1 .. Len(todo) : todo[i].channel = "data" /\ Has(todo[i].text, S)

OnlyData == \A i \in 1 .. Len(todo) : todo[i].channel = "data"

\* A listing is under way only when the reply that announces it is before it, or
\* the last that the client has heard.
ListingTold ==
    UnderWay({"listing"}) =>
        \/ /\ pc = "recv command" /\ replies = <<>>
           /\ Len(todo) = 2 /\ todo[1] = Reply("List") /\ todo[2].channel = "data"
        \/ OnlyData /\ replies = <<"List">> /\ pc = "recv command"
        \/ OnlyData /\ replies = <<>> /\ buffer = <<"List">>
        \/ OnlyData /\ replies = <<>> /\ buffer = <<>> /\ data_transfer /\ ~file_transfer

\* And a file, while the server has not had to wait, is not read before the reply
\* behind it has been sent.
FileTold ==
    UnderWay(Contents) /\ ~waited =>
        \/ /\ pc = "recv command" /\ replies = <<>>
           /\ Len(todo) # 0 /\ todo[Len(todo)] = Reply("Successful Download")
           /\ \A i \in 1 .. Len(todo) - 1 : todo[i].channel = "data"
        \/ todo = <<>> /\ replies = <<"Successful Download">> /\ pc = "recv command"
        \/ todo = <<>> /\ replies = <<>> /\ buffer = <<"Successful Download">>
        \/ todo = <<>> /\ replies = <<>> /\ buffer = <<>> /\ file_transfer

\* A text has a byte of a set when one of its halves has.
LEMMA HasConcat ==
  ASSUME NEW s \in Seq(Bytes), NEW t \in Seq(Bytes), NEW S
  PROVE  Has(s \o t, S) <=> Has(s, S) \/ Has(t, S)
<1> DEFINE r == s \o t
           n == Len(s)
           m == Len(t)
<1>1. /\ n \in Nat /\ m \in Nat
      /\ DOMAIN s = 1 .. n /\ DOMAIN t = 1 .. m /\ DOMAIN r = 1 .. n + m
      /\ \A i \in 1 .. n : r[i] = s[i]
      /\ \A i \in 1 .. m : r[n + i] = t[i]
  OBVIOUS
<1> HIDE DEF r, n, m
<1>2. ASSUME NEW i \in 1 .. n + m, r[i] \in S
      PROVE  Has(s, S) \/ Has(t, S)
  <2>1. CASE i \in 1 .. n
    BY <1>1, <1>2, <2>1 DEF Has
  <2>2. CASE i \notin 1 .. n
    <3> DEFINE j == i - n
    <3>1. j \in 1 .. m /\ n + j = i
      BY <1>1, <2>2
    <3>2. t[j] = r[i]
      <4> HIDE DEF j
      <4> QED
        BY <1>1, <3>1
    <3> HIDE DEF j
    <3> QED
      BY <1>1, <1>2, <3>1, <3>2 DEF Has
  <2> QED
    BY <2>1, <2>2
<1>3. ASSUME NEW i \in 1 .. n, s[i] \in S
      PROVE  Has(r, S)
  <2>1. i \in 1 .. n + m /\ r[i] = s[i]
    BY <1>1
  <2> QED
    BY <1>1, <1>3, <2>1 DEF Has
<1>4. ASSUME NEW i \in 1 .. m, t[i] \in S
      PROVE  Has(r, S)
  <2> DEFINE j == n + i
  <2>1. j \in 1 .. n + m
    BY <1>1
  <2>2. r[j] = t[i]
    BY <1>1
  <2> HIDE DEF j
  <2> QED
    BY <1>1, <1>4, <2>1, <2>2 DEF Has
<1>5. Has(r, S) <=> Has(s, S) \/ Has(t, S)
  BY <1>1, <1>2, <1>3, <1>4 DEF Has
<1> QED
  BY <1>5 DEF r

\* Only the server puts something under way.
LEMMA UnderWayNext ==
  ASSUME ClientType, NEW S, [Next]_vars, ~Serve, UnderWay(S)'
  PROVE  UnderWay(S)
<1>0. stream \in Seq(Bytes) /\ todo \in Seq(Items)
  BY DEF ClientType
<1>1. CASE SendReply
  <2>1. /\ UNCHANGED <<stream, buffer_data>> /\ Len(todo) \in Nat /\ Len(todo') = Len(todo) - 1
        /\ \A i \in 1 .. Len(todo') : todo'[i] = todo[i + 1]
    BY <1>0, <1>1, SentReply DEF SendReply, client
  <2>2. \A i \in 1 .. Len(todo') : i + 1 \in 1 .. Len(todo)
    BY <2>1
  <2> QED
    BY <2>1, <2>2 DEF UnderWay
<1>2. CASE SendData
  <2>1. PICK sent \in Seq(Bytes), left \in Seq(Bytes) :
          /\ sent \o left = todo[1].text
          /\ stream' = stream \o sent
          /\ \/ left = <<>> /\ Len(todo') = Len(todo) - 1 /\ \A i \in 1 .. Len(todo') : todo'[i] = todo[i + 1]
             \/ /\ Len(todo') = Len(todo)
                /\ todo'[1].channel = "data" /\ todo'[1].text = left
                /\ \A i \in 2 .. Len(todo') : todo'[i] = todo[i]
    BY <1>2, SentData, Zenon
  <2>2. /\ todo # <<>> /\ todo[1].channel = "data" /\ buffer_data' = buffer_data
    BY <1>2, SentData, Zenon DEF SendData, client
  <2>3. Len(todo) \in Nat /\ 1 \in 1 .. Len(todo)
    BY <1>0, <2>2
  <2>4. /\ Has(todo[1].text, S) <=> Has(sent, S) \/ Has(left, S)
        /\ Has(stream', S) <=> Has(stream, S) \/ Has(sent, S)
    <3>1. Has(stream \o sent, S) <=> Has(stream, S) \/ Has(sent, S)
      BY <1>0, HasConcat, Zenon
    <3>2. Has(sent \o left, S) <=> Has(sent, S) \/ Has(left, S)
      BY HasConcat, Zenon
    <3> QED
      BY <2>1, <3>1, <3>2, Zenon
  <2>5. Has(sent, S) \/ Has(left, S) => UnderWay(S)
    BY <2>2, <2>3, <2>4, Zenon DEF UnderWay
  <2>6. CASE Has(stream', S) \/ Has(buffer_data', S)
    BY <2>2, <2>4, <2>5, <2>6 DEF UnderWay
  <2>7. ASSUME NEW i \in 1 .. Len(todo'), todo'[i].channel = "data", Has(todo'[i].text, S)
        PROVE  UnderWay(S)
    <3>1. CASE Len(todo') = Len(todo) - 1 /\ \A j \in 1 .. Len(todo') : todo'[j] = todo[j + 1]
      <4>1. i + 1 \in 1 .. Len(todo) /\ todo'[i] = todo[i + 1]
        BY <2>3, <3>1
      <4> QED
        BY <2>7, <4>1, Zenon DEF UnderWay
    <3>2. CASE /\ Len(todo') = Len(todo)
               /\ todo'[1].channel = "data" /\ todo'[1].text = left
               /\ \A j \in 2 .. Len(todo') : todo'[j] = todo[j]
      <4>1. i \in 1 .. Len(todo) /\ (i = 1 \/ i \in 2 .. Len(todo'))
        BY <2>3, <3>2
      <4>2. CASE i = 1
        BY <2>5, <2>7, <3>2, <4>2, Zenon
      <4>3. CASE i \in 2 .. Len(todo')
        BY <2>7, <3>2, <4>1, <4>3, Zenon DEF UnderWay
      <4> QED
        BY <4>1, <4>2, <4>3
    <3> QED
      BY <2>1, <3>1, <3>2, Zenon
  <2> QED
    BY <2>6, <2>7, Zenon DEF UnderWay
<1>3. CASE RecvData
  <2>1. Taken \in Seq(Bytes) /\ stream' \in Seq(Bytes) /\ Taken \o stream' = stream
    BY <1>0, <1>3, TakenOf DEF RecvData
  <2>2. buffer_data' = Taken /\ todo' = todo
    BY <1>3 DEF RecvData, server
  <2>3. Has(stream, S) <=> Has(Taken, S) \/ Has(stream', S)
    BY <2>1, HasConcat, Zenon
  <2> QED
    BY <2>2, <2>3, Zenon DEF UnderWay
<1>4. CASE Show
  <2>1. buffer_data' = <<>> /\ UNCHANGED <<stream, todo>>
    BY <1>4 DEF Show, server
  <2>2. ~Has(buffer_data', S)
    BY <2>1 DEF Has
  <2> QED
    BY <2>1, <2>2, Zenon DEF UnderWay
<1>5. CASE RecvCommand \/ Read \/ UNCHANGED vars
  <2>1. UNCHANGED <<stream, todo, buffer_data>>
    BY <1>5 DEF RecvCommand, Read, vars, server, client
  <2> QED
    BY <2>1, Zenon DEF UnderWay
<1> QED
  BY <1>1, <1>2, <1>3, <1>4, <1>5 DEF Next, Server, Client

\* What a command puts under way: an ls a listing, a retr a file, the others
\* nothing.
LEMMA UnderWayServe ==
  ASSUME ClientType, Quiet, Asked, Serve
  PROVE  /\ pc' = "recv command" /\ replies' = <<>>
         /\ UnderWay({"listing"})' => /\ Len(todo') = 2 /\ todo'[1] = Reply("List")
                                      /\ todo'[2].channel = "data"
         /\ UnderWay(Contents)' => /\ Len(todo') # 0 /\ todo'[Len(todo')] = Reply("Successful Download")
                                   /\ \A i \in 1 .. Len(todo') - 1 : todo'[i].channel = "data"
<1>1. pc' = "recv command" /\ replies' = <<>> /\ stream' = <<>> /\ buffer_data' = <<>>
  BY DEF Serve, Quiet, Asked, ClientType, client
<1>2. \A S : ~Has(stream', S) /\ ~Has(buffer_data', S)
  <2>1. \A S : ~Has(<<>>, S)
    BY DEF Has
  <2> QED
    BY <1>1, <2>1, Zenon
<1>3. "listing" \notin Contents \cup {"junk"} /\ Reply("List").channel = "command"
  BY ClientLoopAssumption DEF Reply
<1>4. CASE Ls
  <2>1. /\ Len(todo') = 2 /\ todo'[1] = Reply("List")
        /\ todo'[2].channel = "data" /\ todo'[2].text \in Seq({"listing"})
    BY <1>4, LsTodo, Zenon
  <2>2. ~Has(todo'[2].text, Contents)
    <3> DEFINE t == todo'[2].text
    <3>1. t \in Seq({"listing"})
      BY <2>1
    <3> HIDE DEF t
    <3>2. ~Has(t, Contents)
      BY <1>3, <3>1 DEF Has
    <3> QED
      BY <3>2 DEF t
  <2>3. \A i \in 1 .. Len(todo') : i = 1 \/ i = 2
    BY <2>1
  <2>4. ~UnderWay(Contents)'
    BY <1>2, <1>3, <2>1, <2>2, <2>3 DEF UnderWay
  <2> QED
    BY <1>1, <2>1, <2>4
<1>5. CASE Retr
  <2> DEFINE N == Count(file')
             items == todo'
  <2>1. /\ Len(items) = N + 1 /\ items[Len(items)] = Reply("Successful Download")
        /\ \A n \in 1 .. N : items[n].channel = "data" /\ items[n].text \in Seq(Contents \cup {"junk"})
        /\ file' \in Seq(OfFiles)
    BY <1>5, RetrTodo, Zenon
  <2>2. N \in Nat \ {0}
    BY <2>1, PieceBounds
  <2> HIDE DEF N, items
  <2>3. \A i \in 1 .. Len(items) : i = Len(items) \/ i \in 1 .. N
    <3>1. \A i \in 1 .. N + 1 : i = N + 1 \/ i \in 1 .. N
      BY <2>2
    <3> QED
      BY <2>1, <3>1
  <2>4. Reply("Successful Download").channel = "command"
    BY DEF Reply
  <2>5. \A t \in Seq(Contents \cup {"junk"}) : ~Has(t, {"listing"})
    BY <1>3 DEF Has
  <2>6. \A i \in 1 .. Len(items) : ~(items[i].channel = "data" /\ Has(items[i].text, {"listing"}))
    BY <2>1, <2>3, <2>4, <2>5
  <2>7. ~UnderWay({"listing"})'
    BY <1>2, <2>6, Zenon DEF UnderWay, items
  <2>8. Len(items) # 0 /\ \A i \in 1 .. Len(items) - 1 : items[i].channel = "data"
    <3>1. (N + 1) - 1 = N /\ N + 1 # 0
      BY <2>2
    <3>2. Len(items) - 1 = N
      BY <2>1, <3>1
    <3> QED
      BY <2>1, <3>1, <3>2
  <2> QED
    BY <1>1, <2>1, <2>7, <2>8 DEF items
<1>6. CASE Other
  <2>1. Len(todo') = 1 /\ todo'[1].channel = "command"
    BY <1>6, OtherTodo, Zenon
  <2>2. \A i \in 1 .. Len(todo') : todo'[i].channel # "data"
    BY <2>1
  <2>3. \A S : ~(\E i \in 1 .. Len(todo') : todo'[i].channel = "data" /\ Has(todo'[i].text, S))
    BY <2>2, Zenon
  <2>4. ~UnderWay({"listing"})' /\ ~UnderWay(Contents)'
    BY <1>2, <2>3, Zenon DEF UnderWay
  <2> QED
    BY <1>1, <2>4
<1> QED
  BY <1>4, <1>5, <1>6 DEF Serve

LEMMA AskedNext ==
  ASSUME Prompt, ClientType, Quiet, Asked, [Next]_vars
  PROVE  Asked'
<1>1. CASE Serve
  <2>1. lines \in Seq(Lines) /\ Len(lines) = 1 /\ lines' = Tail(lines)
    BY <1>1 DEF Serve, Quiet, ClientType
  <2>2. lines' = <<>>
    BY <2>1
  <2> QED
    BY <2>2 DEF Asked
<1>2. CASE SendReply \/ SendData
  BY <1>2 DEF SendReply, SendData, client, Asked
<1>3. CASE RecvCommand
  <2>1. lines = <<>>
    <3>1. lines # <<>> => todo = <<>> /\ replies = <<>>
      BY DEF Quiet
    <3>2. replies = <<>> => Alarm
      BY <1>3 DEF RecvCommand
    <3> QED
      BY <3>1, <3>2 DEF Alarm
  <2> QED
    BY <1>3, <2>1 DEF RecvCommand, server, Asked
<1>4. CASE RecvData \/ Show
  BY <1>4 DEF RecvData, Show, server, Asked
<1>5. CASE Read
  BY <1>5 DEF Read, Asked
<1>6. CASE UNCHANGED vars
  BY <1>6 DEF vars, server, client, Asked
<1> QED
  BY <1>1, <1>2, <1>3, <1>4, <1>5, <1>6 DEF Next, Server, Client

\* A sequence of one reply, and what is to be sent when it is not empty.
LEMMA OneReply ==
  ASSUME NEW x
  PROVE  <<x>> # <<>> /\ Head(<<x>>) = x /\ Append(<<>>, x) = <<x>>
OBVIOUS

LEMMA NoneOfTwo == Len(<<>>) # 2
OBVIOUS

LEMMA NotEmpty ==
  ASSUME NEW s \in Seq(Items), s # <<>>
  PROVE  Len(s) \in Nat \ {0} /\ Head(s) = s[1]
OBVIOUS

\* What the client's flags are after a reply.
LEMMA AnnouncedIs ==
  /\ buffer = <<"List">> => Announced[1] /\ ~Announced[2]
  /\ buffer = <<"Successful Download">> => Announced[1] /\ Announced[2]
  /\ buffer = <<>> => (Announced[1] <=> data_transfer) /\ (Announced[2] <=> file_transfer)
<1>1. ASSUME buffer = <<"List">>
      PROVE  Announced[1] /\ ~Announced[2]
  <2>1. buffer # <<>> /\ Head(buffer) = "List"
    BY <1>1, OneReply, Zenon
  <2>2. Announced = <<TRUE, FALSE>>
    BY <2>1 DEF Announced
  <2> QED
    BY <2>2
<1>2. ASSUME buffer = <<"Successful Download">>
      PROVE  Announced[1] /\ Announced[2]
  <2>1. buffer # <<>> /\ Head(buffer) = "Successful Download"
    BY <1>2, OneReply, Zenon
  <2>2. Announced = <<TRUE, TRUE>>
    BY <2>1 DEF Announced
  <2> QED
    BY <2>2
<1>3. ASSUME buffer = <<>>
      PROVE  (Announced[1] <=> data_transfer) /\ (Announced[2] <=> file_transfer)
  <2>1. Announced = <<data_transfer, file_transfer>>
    BY <1>3 DEF Announced
  <2>2. Announced[1] = data_transfer /\ Announced[2] = file_transfer
    BY <2>1
  <2> QED
    BY <2>2, Zenon
<1> QED
  BY <1>1, <1>2, <1>3, Zenon

LEMMA ListingToldNext ==
  ASSUME Prompt, ClientType, Quiet, Asked, ListingTold, [Next]_vars
  PROVE  ListingTold'
<1> SUFFICES ASSUME UnderWay({"listing"})'
             PROVE  ListingTold'
  BY Zenon DEF ListingTold
<1>1. CASE Serve
  BY <1>1, UnderWayServe, Zenon DEF ListingTold
<1> DEFINE A1 == /\ pc = "recv command" /\ replies = <<>>
                 /\ Len(todo) = 2 /\ todo[1] = Reply("List") /\ todo[2].channel = "data"
           A2 == OnlyData /\ replies = <<"List">> /\ pc = "recv command"
           A3 == OnlyData /\ replies = <<>> /\ buffer = <<"List">>
           A4 == OnlyData /\ replies = <<>> /\ buffer = <<>> /\ data_transfer /\ ~file_transfer
<1>2. A1' \/ A2' \/ A3' \/ A4' => ListingTold'
  BY Zenon DEF ListingTold
<1>3. Reply("List").channel = "command" /\ Reply("List").text = "List"
  BY DEF Reply
<1>4. /\ pc \in {"recv command", "read"} => buffer = <<>>
      /\ todo \in Seq(Items)
  BY DEF ClientType
<1>5. <<"List">> # <<>>
  OBVIOUS
<1>6. ASSUME ~Serve
      PROVE  A1' \/ A2' \/ A3' \/ A4'
  <2>1. A1 \/ A2 \/ A3 \/ A4
    <3>1. UnderWay({"listing"})
      BY <1>6, UnderWayNext, Zenon
    <3> QED
      BY <3>1, Zenon DEF ListingTold
  <2>2. CASE SendReply
    <3>1. /\ Len(todo) \in Nat \ {0} /\ todo[1].channel = "command" /\ replies' = Append(replies, todo[1].text)
          /\ Len(todo') = Len(todo) - 1 /\ \A i \in 1 .. Len(todo') : todo'[i] = todo[i + 1]
      <4>1. /\ todo # <<>> /\ todo[1].channel = "command" /\ replies' = Append(replies, todo[1].text)
            /\ Len(todo') = Len(todo) - 1 /\ \A i \in 1 .. Len(todo') : todo'[i] = todo[i + 1]
        BY <2>2, SentReply, Zenon
      <4> QED
        BY <1>4, <4>1, NotEmpty, Zenon
    <3>2. ~OnlyData
      <4>1. 1 \in 1 .. Len(todo) /\ todo[1].channel # "data"
        BY <3>1
      <4> QED
        BY <4>1, Zenon DEF OnlyData
    <3>3. A1
      BY <2>1, <3>2
    <3>4. replies' = <<"List">>
      <4>1. Append(<<>>, "List") = <<"List">>
        OBVIOUS
      <4> QED
        BY <1>3, <3>1, <3>3, <4>1, Zenon
    <3>5. OnlyData'
      <4>1. Len(todo) = 2 /\ todo[2].channel = "data"
        BY <3>3
      <4>2. Len(todo') = Len(todo) - 1 /\ \A i \in 1 .. Len(todo') : todo'[i] = todo[i + 1]
        BY <3>1
      <4>3. Len(todo') = 1
        BY <4>1, <4>2
      <4>4. \A i \in 1 .. 1 : todo'[i] = todo[2]
        <5>1. \A i \in 1 .. 1 : i + 1 = 2
          OBVIOUS
        <5> QED
          BY <4>2, <4>3, <5>1, Zenon
      <4> QED
        BY <4>1, <4>3, <4>4, Zenon DEF OnlyData
    <3>6. pc' = pc
      BY <2>2 DEF SendReply, client
    <3> QED
      BY <3>3, <3>4, <3>5, <3>6
  <2>3. CASE SendData
    <3>1. /\ Len(todo) \in Nat \ {0} /\ todo[1].channel = "data"
          /\ \/ Len(todo') = Len(todo) - 1 /\ \A i \in 1 .. Len(todo') : todo'[i] = todo[i + 1]
             \/ /\ Len(todo') = Len(todo) /\ todo'[1].channel = "data"
                /\ \A i \in 2 .. Len(todo') : todo'[i] = todo[i]
      <4>1. /\ todo # <<>> /\ todo[1].channel = "data"
            /\ \/ Len(todo') = Len(todo) - 1 /\ \A i \in 1 .. Len(todo') : todo'[i] = todo[i + 1]
               \/ /\ Len(todo') = Len(todo) /\ todo'[1].channel = "data"
                  /\ \A i \in 2 .. Len(todo') : todo'[i] = todo[i]
        BY <2>3, SentData, Zenon
      <4> QED
        BY <1>4, <4>1, NotEmpty, Zenon
    <3>2. ~A1
      BY <1>3, <3>1
    <3>3. OnlyData => OnlyData'
      BY <3>1 DEF OnlyData
    <3>4. UNCHANGED <<replies, pc, buffer, data_transfer, file_transfer>>
      BY <2>3 DEF SendData, client
    <3> QED
      BY <2>1, <3>2, <3>3, <3>4
  <2>4. CASE RecvCommand
    <3>1. /\ pc = "recv command" /\ replies' = <<>>
          /\ UNCHANGED <<todo, data_transfer, file_transfer>>
          /\ \/ replies # <<>> /\ buffer' = replies
             \/ replies = <<>> /\ Alarm /\ buffer' = <<>>
      BY <2>4 DEF RecvCommand, server
    <3>2. ~A1
      <4> SUFFICES ASSUME A1 PROVE FALSE
        OBVIOUS
      <4>1. Alarm /\ todo # <<>> /\ Head(todo) = todo[1]
        <5>1. Alarm /\ Len(todo) = 2
          BY <3>1, <1>5
        <5>2. todo # <<>>
          BY <5>1, NoneOfTwo, Zenon
        <5> QED
          BY <1>4, <5>1, <5>2, NotEmpty, Zenon
      <4>2. Head(todo).channel = "data"
        BY <4>1 DEF Alarm
      <4> QED
        BY <1>3, <4>1, <4>2
    <3>3. ~A3
      BY <1>4, <1>5, <3>1
    <3>4. OnlyData => OnlyData'
      BY <3>1 DEF OnlyData
    <3>5. CASE A2
      BY <1>5, <3>1, <3>4, <3>5
    <3>6. CASE A4
      BY <3>1, <3>4, <3>6
    <3> QED
      BY <2>1, <3>2, <3>3, <3>5, <3>6
  <2>5. CASE RecvData
    <3>1. pc = "recv data" /\ UNCHANGED <<todo, replies, buffer, data_transfer, file_transfer>>
      BY <2>5 DEF RecvData, server
    <3> QED
      BY <2>1, <3>1 DEF OnlyData
  <2>6. CASE Show
    <3>1. /\ pc = "show" /\ buffer' = <<>> /\ UNCHANGED <<todo, replies>>
          /\ data_transfer' = Announced[1] /\ file_transfer' = Announced[2]
      BY <2>6 DEF Show, server
    <3>2. A3 \/ A4
      BY <2>1, <3>1
    <3>3. data_transfer' /\ ~file_transfer'
      <4>1. Announced[1] /\ ~Announced[2]
        BY <3>2, AnnouncedIs, Zenon
      <4> QED
        BY <3>1, <4>1, Zenon
    <3> QED
      BY <3>1, <3>2, <3>3 DEF OnlyData
  <2>7. CASE Read
    <3>1. pc = "read" /\ UNCHANGED <<todo, replies, buffer, data_transfer, file_transfer>>
      BY <2>7 DEF Read
    <3>2. A4
      BY <1>4, <1>5, <2>1, <3>1
    <3> QED
      BY <3>1, <3>2 DEF OnlyData
  <2>8. CASE UNCHANGED vars
    <3>1. UNCHANGED <<pc, todo, replies, buffer, data_transfer, file_transfer>>
      BY <2>8 DEF vars, server, client
    <3> QED
      BY <2>1, <3>1 DEF OnlyData
  <2> HIDE DEF A1, A2, A3, A4
  <2> QED
    BY <1>6, <2>2, <2>3, <2>4, <2>5, <2>6, <2>7, <2>8 DEF Next, Server, Client
<1> QED
  BY <1>1, <1>2, <1>6

LEMMA FileToldNext ==
  ASSUME Prompt, ClientType, Quiet, Asked, FileTold, [Next]_vars
  PROVE  FileTold'
<1> SUFFICES ASSUME UnderWay(Contents)', ~waited'
             PROVE  FileTold'
  BY Zenon DEF FileTold
<1>1. CASE Serve
  BY <1>1, UnderWayServe, Zenon DEF FileTold
<1> DEFINE last == todo[Len(todo)]
           B1 == /\ pc = "recv command" /\ replies = <<>>
                 /\ Len(todo) # 0 /\ last = Reply("Successful Download")
                 /\ \A i \in 1 .. Len(todo) - 1 : todo[i].channel = "data"
           B2 == todo = <<>> /\ replies = <<"Successful Download">> /\ pc = "recv command"
           B3 == todo = <<>> /\ replies = <<>> /\ buffer = <<"Successful Download">>
           B4 == todo = <<>> /\ replies = <<>> /\ buffer = <<>> /\ file_transfer
<1>2. B1' \/ B2' \/ B3' \/ B4' => FileTold'
  BY Zenon DEF FileTold
<1>3. Reply("Successful Download").channel = "command" /\ Reply("Successful Download").text = "Successful Download"
  BY DEF Reply
<1>4. /\ pc \in {"recv command", "read"} => buffer = <<>>
      /\ todo \in Seq(Items)
  BY DEF ClientType
<1>5. <<"Successful Download">> # <<>>
  OBVIOUS
<1>6. ASSUME ~Serve
      PROVE  B1' \/ B2' \/ B3' \/ B4'
  <2>0. ~waited
    BY <1>6 DEF Next, Server, Client, SendReply, SendData, RecvCommand, RecvData, Show, Read, vars, history
  <2>1. B1 \/ B2 \/ B3 \/ B4
    <3>1. UnderWay(Contents)
      BY <1>6, UnderWayNext, Zenon
    <3> QED
      BY <2>0, <3>1, Zenon DEF FileTold
  <2>2. CASE SendReply
    <3>1. /\ todo # <<>> /\ todo[1].channel = "command" /\ replies' = Append(replies, todo[1].text)
          /\ todo' \in Seq(Items) /\ Len(todo') = Len(todo) - 1
      BY <2>2, SentReply, Zenon
    <3>2. Len(todo) \in Nat \ {0}
      BY <1>4, <3>1, NotEmpty, Zenon
    <3>3. B1
      BY <2>1, <3>1
    <3>4. Len(todo) = 1
      <4>0. \A l \in Nat \ {0} : l # 1 => 1 \in 1 .. l - 1
        OBVIOUS
      <4>1. Len(todo) # 1 => 1 \in 1 .. Len(todo) - 1
        BY <3>2, <4>0, Zenon
      <4> QED
        BY <3>1, <3>3, <4>1
    <3>5. replies' = <<"Successful Download">>
      <4>1. Append(<<>>, "Successful Download") = <<"Successful Download">>
        OBVIOUS
      <4> QED
        BY <1>3, <3>1, <3>3, <3>4, <4>1, Zenon
    <3>6. todo' = <<>>
      BY <3>1, <3>4
    <3>7. pc' = pc
      BY <2>2 DEF SendReply, client
    <3> QED
      BY <3>3, <3>5, <3>6, <3>7
  <2>3. CASE SendData
    <3>1. /\ todo # <<>> /\ todo[1].channel = "data"
          /\ \/ Len(todo') = Len(todo) - 1 /\ \A i \in 1 .. Len(todo') : todo'[i] = todo[i + 1]
             \/ /\ Len(todo') = Len(todo) /\ todo'[1].channel = "data"
                /\ \A i \in 2 .. Len(todo') : todo'[i] = todo[i]
      BY <2>3, SentData, Zenon
    <3>2. Len(todo) \in Nat \ {0}
      BY <1>4, <3>1, NotEmpty, Zenon
    <3>3. B1
      BY <2>1, <3>1
    <3>4. UNCHANGED <<replies, pc>>
      BY <2>3 DEF SendData, client
    <3> DEFINE l == Len(todo)
    <3>5. l >= 2 /\ l \in Nat
      <4>1. l # 1
        BY <1>3, <3>1, <3>3
      <4>2. \A k \in Nat \ {0} : k # 1 => k >= 2 /\ k \in Nat
        OBVIOUS
      <4> QED
        BY <3>2, <4>1, <4>2, Zenon
    <3> HIDE DEF l
    <3>6. last = todo[l] /\ \A i \in 1 .. l - 1 : todo[i].channel = "data"
      BY <3>3 DEF l
    <3> HIDE DEF last
    <3>7. /\ Len(todo') # 0 /\ todo'[Len(todo')] = todo[l]
          /\ \A i \in 1 .. Len(todo') - 1 : todo'[i].channel = "data"
      <4>1. CASE Len(todo') = l - 1 /\ \A i \in 1 .. Len(todo') : todo'[i] = todo[i + 1]
        <5>1. l - 1 \in 1 .. l - 1 /\ (l - 1) + 1 = l
          BY <3>5
        <5>2. todo'[l - 1] = todo[l]
          BY <4>1, <5>1
        <5>3. \A i \in 1 .. (l - 1) - 1 : i \in 1 .. l - 1 /\ i + 1 \in 1 .. l - 1
          BY <3>5
        <5> QED
          BY <3>5, <3>6, <4>1, <5>2, <5>3
      <4>2. CASE /\ Len(todo') = l /\ todo'[1].channel = "data"
                 /\ \A i \in 2 .. Len(todo') : todo'[i] = todo[i]
        <5>1. l \in 2 .. l
          BY <3>5
        <5>2. \A i \in 1 .. l - 1 : i = 1 \/ i \in 2 .. l
          BY <3>5
        <5> QED
          BY <3>5, <3>6, <4>2, <5>1, <5>2
      <4> QED
        BY <3>1, <4>1, <4>2 DEF l
    <3>8. todo'[Len(todo')] = Reply("Successful Download")
      BY <3>3, <3>6, <3>7
    <3> QED
      BY <3>3, <3>4, <3>7, <3>8 DEF last
  <2>4. CASE RecvCommand
    <3>1. /\ pc = "recv command" /\ replies' = <<>>
          /\ UNCHANGED <<todo, data_transfer, file_transfer>>
          /\ \/ replies # <<>> /\ buffer' = replies
             \/ replies = <<>> /\ buffer' = <<>> /\ waited' = (waited \/ todo # <<>>)
      BY <2>4 DEF RecvCommand, server
    <3>2. ~B1
      <4>1. replies = <<>> => todo = <<>>
        BY <1>6, <3>1
      <4>2. Len(<<>>) = 0
        OBVIOUS
      <4> QED
        BY <4>1, <4>2, Zenon
    <3>3. ~B3
      BY <1>4, <1>5, <3>1
    <3>4. CASE B2
      BY <1>5, <3>1, <3>4
    <3>5. CASE B4
      BY <3>1, <3>5
    <3> QED
      BY <2>1, <3>2, <3>3, <3>4, <3>5
  <2>5. CASE RecvData
    <3>1. pc = "recv data" /\ UNCHANGED <<todo, replies, buffer, data_transfer, file_transfer>>
      BY <2>5 DEF RecvData, server
    <3> QED
      BY <2>1, <3>1
  <2>6. CASE Show
    <3>1. /\ pc = "show" /\ buffer' = <<>> /\ UNCHANGED <<todo, replies>>
          /\ file_transfer' = Announced[2]
      BY <2>6 DEF Show, server
    <3>2. B3 \/ B4
      BY <2>1, <3>1
    <3>3. file_transfer'
      <4>1. Announced[2]
        BY <3>2, AnnouncedIs, Zenon
      <4> QED
        BY <3>1, <4>1, Zenon
    <3> QED
      BY <3>1, <3>2, <3>3
  <2>7. CASE Read
    <3>1. pc = "read" /\ UNCHANGED <<todo, replies, buffer, data_transfer, file_transfer>>
      BY <2>7 DEF Read
    <3>2. B4
      BY <1>4, <1>5, <2>1, <3>1
    <3> QED
      BY <3>1, <3>2
  <2>8. CASE UNCHANGED vars
    <3>1. UNCHANGED <<pc, todo, replies, buffer, data_transfer, file_transfer>>
      BY <2>8 DEF vars, server, client
    <3> QED
      BY <2>1, <3>1
  <2> HIDE DEF B1, B2, B3, B4
  <2> QED
    BY <1>6, <2>2, <2>3, <2>4, <2>5, <2>6, <2>7, <2>8 DEF Next, Server, Client
<1> QED
  BY <1>1, <1>2, <1>6

\* What is shown then was announced as it should be.
LEMMA PrintedNext ==
  ASSUME ClientType, ListingTold, FileTold, ListingsPrinted, [Next]_vars
  PROVE  ListingsPrinted'
<1>1. CASE Serve
  BY <1>1 DEF Serve, ListingsPrinted
<1>2. CASE RecvCommand
  <2>1. lostListing' = lostListing /\ shownFile' = shownFile /\ (waited => waited')
    BY <1>2 DEF RecvCommand, ClientType
  <2> QED
    BY <2>1 DEF ListingsPrinted
<1>3. CASE Show
  <2> DEFINE printed == Announced[1] /\ ~Announced[2]
  <2>1. /\ pc = "show" /\ waited' = waited
        /\ lostListing' = (lostListing \/ (Has(buffer_data, {"listing"}) /\ ~printed))
        /\ shownFile' = (shownFile \/ (Has(buffer_data, Contents) /\ printed))
    BY <1>3 DEF Show
  <2>2. Has(buffer_data, {"listing"}) => printed
    <3> SUFFICES ASSUME Has(buffer_data, {"listing"})
                 PROVE  printed
      OBVIOUS
    <3>1. \/ buffer = <<"List">>
          \/ buffer = <<>> /\ data_transfer /\ ~file_transfer
      BY <2>1, Zenon DEF ListingTold, UnderWay
    <3> QED
      BY <3>1, AnnouncedIs, Zenon
  <2>3. Has(buffer_data, Contents) /\ ~waited => ~printed
    <3> SUFFICES ASSUME Has(buffer_data, Contents), ~waited
                 PROVE  ~printed
      OBVIOUS
    <3>1. \/ buffer = <<"Successful Download">>
          \/ buffer = <<>> /\ file_transfer
      BY <2>1, Zenon DEF FileTold, UnderWay
    <3> QED
      BY <3>1, AnnouncedIs, Zenon
  <2> QED
    BY <2>1, <2>2, <2>3 DEF ListingsPrinted
<1>4. CASE SendReply \/ SendData \/ RecvData \/ Read \/ UNCHANGED vars
  <2>1. UNCHANGED <<lostListing, shownFile, waited>>
    BY <1>4 DEF SendReply, SendData, RecvData, Read, vars, history
  <2> QED
    BY <2>1 DEF ListingsPrinted
<1> QED
  BY <1>1, <1>2, <1>3, <1>4 DEF Next, Server, Client

\* ls and retr in the client's loop: every byte of a listing is printed, whatever
\* pieces it arrives in and in whatever turn of the loop, and no byte of a file
\* is, unless the server had to wait for the client; for every buffer, socket,
\* listing and file, when the server answers within an alarm and the user types
\* when nothing is under way.
THEOREM ListingsPrintedCorrect == Prompt /\ Patient => (Spec => []ListingsPrinted)
<1> SUFFICES ASSUME Prompt, Patient
             PROVE  Spec => []ListingsPrinted
  OBVIOUS
<1> DEFINE I == ClientType /\ Quiet /\ Asked /\ ListingTold /\ FileTold /\ ListingsPrinted
<1>1. Init => I
  <2> SUFFICES ASSUME Init PROVE I
    OBVIOUS
  <2>1. ClientType
    BY TypeInit
  <2>2. Quiet /\ Asked /\ ListingsPrinted
    BY DEF Init, Quiet, Asked, ListingsPrinted
  <2>3. \A S : ~UnderWay(S)
    <3>1. \A S : ~Has(<<>>, S)
      BY DEF Has
    <3>2. stream = <<>> /\ buffer_data = <<>> /\ Len(todo) = 0
      BY DEF Init
    <3>3. \A i \in 1 .. Len(todo) : FALSE
      BY <3>2
    <3> QED
      BY <3>1, <3>2, <3>3, Zenon DEF UnderWay
  <2> QED
    BY <2>1, <2>2, <2>3, Zenon DEF ListingTold, FileTold
<1>2. I /\ [Next]_vars => I'
  BY TypeNext, QuietNext, AskedNext, ListingToldNext, FileToldNext, PrintedNext
<1>3. I => ListingsPrinted
  OBVIOUS
<1> QED
  BY <1>1, <1>2, <1>3, PTL DEF Spec
====
