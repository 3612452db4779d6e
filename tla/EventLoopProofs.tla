--------------------------- MODULE EventLoopProofs ---------------------------
(***************************************************************************)
(* Proofs about the main loop, for any number of clients and descriptors,  *)
(* any requests and every fault of the clients.                            *)
(***************************************************************************)
EXTENDS EventLoop, Induction

-----------------------------------------------------------------------------
(***************************************************************************)
(* What recv() and seperate_to_vector() make of texts, for all texts.      *)
(***************************************************************************)
Words == DOMAIN Width \cup {Garbled}

\* The recursion of strlen has a function: the bytes up to each unit.
LEMMA StrlenDef ==
  ASSUME NEW text \in Seq(Units)
  PROVE  \E upto \in [0 .. Len(text) -> Int] :
             /\ upto[0] = 0
             /\ \A i \in 1 .. Len(text) : upto[i] = upto[i - 1] + text[i].size
             /\ strlen(text) = upto[Len(text)]
<1> DEFINE n == Len(text)
           body(g) == [i \in 0 .. n |-> IF i = 0 THEN 0 ELSE g[i - 1] + text[i].size]
           upto == CHOOSE g : g = body(g)
           step == [x \in (1 .. n) \X Int |-> x[2] + text[x[1]].size]
<1>0. n \in Nat /\ \A i \in 1 .. n : text[i].size \in Int
  <2>1. n \in Nat /\ \A i \in 1 .. n : text[i] \in Units
    OBVIOUS
  <2> HIDE DEF n
  <2> QED
    BY <2>1 DEF Units
<1>1. step \in Steps(n, Int)
  <2>1. ASSUME NEW x \in (1 .. n) \X Int
        PROVE  x[2] + text[x[1]].size \in Int
    <3>1. x[1] \in 1 .. n /\ x[2] \in Int
      OBVIOUS
    <3> HIDE DEF n
    <3> QED
      BY <1>0, <3>1
  <2> QED
    BY <2>1 DEF Steps
<1>2. PICK f \in [0 .. n -> Int] :
          f[0] = 0 /\ \A i \in 1 .. n : f[i] = step[<<i, f[i - 1]>>]
  <2>1. n \in Nat /\ 0 \in Int
    BY <1>0
  <2> HIDE DEF step, n
  <2>2. PICK f : f \in Recursive(n, Int, 0, step)
    BY <1>1, <2>1, Recursion
  <2> QED
    BY <2>2 DEF Recursive
<1>3. f = body(f)
  <2>1. ASSUME NEW i \in 1 .. n
        PROVE  f[i] = f[i - 1] + text[i].size
    <3>1. f[i] = step[<<i, f[i - 1]>>]
      BY <1>2
    <3>2. i - 1 \in 0 .. n
      BY <1>0
    <3>3. <<i, f[i - 1]>> \in (1 .. n) \X Int
      <4> HIDE DEF n
      <4> QED
        BY <3>2, <1>2
    <3> QED
      BY <3>1, <3>3
  <2> HIDE DEF n
  <2>2. \A i \in 0 .. n : f[i] = IF i = 0 THEN 0 ELSE f[i - 1] + text[i].size
    BY <1>0, <1>2, <2>1
  <2> QED
    BY <2>2
<1>4. upto = body(upto)
  <2> HIDE DEF body
  <2> QED
    BY <1>3
<1>5. /\ upto[0] = 0
      /\ \A i \in 1 .. n : upto[i] = upto[i - 1] + text[i].size
  <2> HIDE DEF upto, n
  <2> QED
    BY <1>0, <1>4
<1>6. upto \in [0 .. n -> Int]
  <2> DEFINE A == {i \in 0 .. n : upto[i] \in Int}
  <2> HIDE DEF upto, n
  <2>1. 0 \in A
    BY <1>0, <1>5
  <2>2. ASSUME NEW i \in 0 .. n - 1, i \in A
        PROVE  i + 1 \in A
    <3>1. i + 1 \in 1 .. n
      BY <1>0
    <3>2. upto[i + 1] = upto[i] + text[i + 1].size
      BY <3>1, <1>5
    <3>3. upto[i + 1] \in Int /\ i + 1 \in 0 .. n
      BY <2>2, <3>1, <3>2, <1>0
    <3> QED
      BY <3>3
  <2>3. \A i \in 0 .. n : i \in A
    <3> HIDE DEF A
    <3> QED
      BY <2>1, <2>2, <1>0, InductionUpTo
  <2> QED
    BY <2>3, <1>4
<1>7. strlen(text) = upto[n]
  BY DEF strlen
<1> HIDE DEF upto
<1> QED
  BY <1>5, <1>6, <1>7

\* The length of a text is a number.
LEMMA StrlenType ==
  ASSUME NEW text \in Seq(Units)
  PROVE  strlen(text) \in Int
<1>1. Len(text) \in 0 .. Len(text)
  OBVIOUS
<1> QED
  BY <1>1, StrlenDef

\* What a new text leaves of an older one is a text.
LEMMA BeyondType ==
  ASSUME NEW text \in Seq(Units), NEW n \in Int
  PROVE  Beyond(text, n) \in Seq(Units)
<1> DEFINE left(i) == strlen(SubSeq(text, 1, i)) - n
<1>1. \A i \in 1 .. Len(text) : text[i] \in Units /\ left(i) \in Int
  <2> TAKE i \in 1 .. Len(text)
  <2>1. SubSeq(text, 1, i) \in Seq(Units)
    OBVIOUS
  <2>2. strlen(SubSeq(text, 1, i)) \in Int
    BY <2>1, StrlenType
  <2> QED
    BY <2>2
<1> HIDE DEF left
<1>2. \A i \in 1 .. Len(text) :
          [text[i] EXCEPT !.word = Garbled, !.size = left(i)] \in Units
  BY <1>1 DEF Units
<1>3. Cut(text, n) = [i \in 1 .. Len(text) |->
                         IF left(i) >= text[i].size THEN text[i]
                         ELSE [text[i] EXCEPT !.word = Garbled, !.size = left(i)]]
  BY DEF Cut, left
<1>4. Cut(text, n) \in [1 .. Len(text) -> Units]
  BY <1>1, <1>2, <1>3
<1>5. Cut(text, n) \in Seq(Units) /\ Len(Cut(text, n)) = Len(text)
  <2>1. Len(text) \in Nat
    OBVIOUS
  <2> QED
    BY <1>4, <2>1
<1>6. Cardinality(Gone(text, n)) \in Nat
  <2>1. Gone(text, n) \subseteq 1 .. Len(text)
    BY DEF Gone
  <2>2. IsFiniteSet(1 .. Len(text))
    BY FS_Interval
  <2> QED
    BY <2>1, <2>2, FS_Subset, FS_CardinalityType
<1> DEFINE c == Cut(text, n)
           m == Cardinality(Gone(text, n)) + 1
<1>7. c \in Seq(Units) /\ m \in Nat /\ m >= 1 /\ Len(text) = Len(c)
  BY <1>5, <1>6
<1> HIDE DEF c, m
<1>8. SubSeq(c, m, Len(c)) \in Seq(Units)
  BY <1>7
<1> QED
  BY <1>7, <1>8 DEF Beyond, c, m

\* What recv() leaves in the buffer is a text.
LEMMA RecvType ==
  ASSUME NEW received \in Seq(Units), NEW text \in Seq(Units)
  PROVE  recv(received, text) \in Seq(Units)
<1>1. Beyond(text, strlen(received)) \in Seq(Units)
  BY StrlenType, BeyondType
<1> QED
  BY <1>1 DEF recv

\* The recursion of seperate_to_vector has a function: the words of the vector
\* after each unit.
LEMMA WordsDef ==
  ASSUME NEW text \in Seq(Units)
  PROVE  \E words \in [0 .. Len(text) -> Seq(Words)] :
             /\ words[0] = <<>>
             /\ \A i \in 1 .. Len(text) :
                   words[i] = IF i \in Pushed(text)
                              THEN Append(words[i - 1], WordAt(text, i)) ELSE words[i - 1]
             /\ seperate_to_vector(text) = words[Len(text)]
<1> DEFINE n == Len(text)
           next(v, i) == IF i \in Pushed(text) THEN Append(v, WordAt(text, i)) ELSE v
           body(g) == [i \in 0 .. n |-> IF i = 0 THEN <<>> ELSE next(g[i - 1], i)]
           words == CHOOSE g : g = body(g)
           step == [x \in (1 .. n) \X Seq(Words) |-> next(x[2], x[1])]
<1>0. n \in Nat /\ <<>> \in Seq(Words)
  OBVIOUS
<1>1. \A i \in 1 .. n : WordAt(text, i) \in Words
  <2>1. \A i \in 1 .. n : text[i] \in Units
    OBVIOUS
  <2> HIDE DEF n
  <2> QED
    BY <2>1 DEF WordAt, Units, Words
<1>2. \A i \in 1 .. n, v \in Seq(Words) : next(v, i) \in Seq(Words)
  <2> HIDE DEF n
  <2> QED
    BY <1>1
<1>3. step \in Steps(n, Seq(Words))
  <2> HIDE DEF n, next
  <2> QED
    BY <1>2 DEF Steps
<1>4. PICK f \in [0 .. n -> Seq(Words)] :
          f[0] = <<>> /\ \A i \in 1 .. n : f[i] = step[<<i, f[i - 1]>>]
  <2> HIDE DEF step, n
  <2>1. PICK f : f \in Recursive(n, Seq(Words), <<>>, step)
    BY <1>0, <1>3, Recursion
  <2> QED
    BY <2>1 DEF Recursive
<1>5. f = body(f)
  <2>1. \A i \in 1 .. n : f[i] = next(f[i - 1], i)
    <3> HIDE DEF next, n
    <3>1. \A i \in 1 .. n : f[i - 1] \in Seq(Words)
      BY <1>0
    <3> QED
      BY <1>4, <3>1
  <2> HIDE DEF n, next
  <2>2. \A i \in 0 .. n : f[i] = IF i = 0 THEN <<>> ELSE next(f[i - 1], i)
    BY <1>0, <1>4, <2>1
  <2> QED
    BY <2>2
<1>6. words = body(words)
  <2> HIDE DEF body
  <2> QED
    BY <1>5
<1>7. /\ words[0] = <<>>
      /\ \A i \in 1 .. n : words[i] = next(words[i - 1], i)
  <2> HIDE DEF words, n, next
  <2> QED
    BY <1>0, <1>6
<1>8. words \in [0 .. n -> Seq(Words)]
  <2> DEFINE A == {i \in 0 .. n : words[i] \in Seq(Words)}
  <2> HIDE DEF words, n, next
  <2>1. 0 \in A
    <3>1. words[0] \in Seq(Words) /\ 0 \in 0 .. n
      BY <1>0, <1>7
    <3> QED
      BY <3>1
  <2>2. ASSUME NEW i \in 0 .. n - 1, i \in A
        PROVE  i + 1 \in A
    <3>1. i + 1 \in 1 .. n /\ i + 1 \in 0 .. n /\ (i + 1) - 1 = i
      BY <1>0
    <3>2. words[i + 1] = next(words[i], i + 1)
      BY <3>1, <1>7
    <3>3. words[i + 1] \in Seq(Words)
      BY <2>2, <3>1, <3>2, <1>2
    <3> QED
      BY <3>1, <3>3
  <2>3. \A i \in 0 .. n : i \in A
    <3> HIDE DEF A
    <3> QED
      BY <2>1, <2>2, <1>0, InductionUpTo
  <2> QED
    BY <2>3, <1>6
<1>9. seperate_to_vector(text) = words[n]
  BY DEF seperate_to_vector
<1> HIDE DEF words
<1> QED
  BY <1>7, <1>8, <1>9

-----------------------------------------------------------------------------
(***************************************************************************)
(* What follows a request in the buffer.                                   *)
(***************************************************************************)

\* got is what was sent, but for words that are garbled; words too many follow
\* a garbled one.
Spoilt(got, sent) ==
    /\ Len(sent) <= Len(got)
    /\ \E j \in DOMAIN got : got[j] = Garbled
    /\ \A i \in DOMAIN got :
           IF i <= Len(sent)
           THEN got[i] \in {sent[i], Garbled}
           ELSE \E j \in 1 .. i : got[j] = Garbled

\* It stays so when more words come.
LEMMA SpoiltAppend ==
  ASSUME NEW got \in Seq(Words), NEW sent \in Seq(Words), Spoilt(got, sent), NEW w \in Words
  PROVE  Spoilt(Append(got, w), sent)
<1> DEFINE more == Append(got, w)
<1>1. /\ Len(got) \in Nat /\ Len(sent) \in Nat
      /\ Len(more) = Len(got) + 1
      /\ DOMAIN got = 1 .. Len(got) /\ DOMAIN more = 1 .. Len(got) + 1
      /\ \A i \in 1 .. Len(got) : more[i] = got[i]
  OBVIOUS
<1>2. PICK j \in 1 .. Len(got) : got[j] = Garbled
  BY <1>1 DEF Spoilt
<1> HIDE DEF more
<1>3. more[j] = Garbled /\ j \in DOMAIN more
  BY <1>1, <1>2
<1>4. ASSUME NEW i \in DOMAIN more
      PROVE  IF i <= Len(sent)
             THEN more[i] \in {sent[i], Garbled}
             ELSE \E k \in 1 .. i : more[k] = Garbled
  <2>1. CASE i \in 1 .. Len(got)
    <3>1. CASE i <= Len(sent)
      BY <1>1, <2>1, <3>1 DEF Spoilt
    <3>2. CASE ~(i <= Len(sent))
      <4>1. PICK k \in 1 .. i : got[k] = Garbled
        BY <1>1, <2>1, <3>2 DEF Spoilt
      <4>2. more[k] = Garbled
        BY <1>1, <2>1, <4>1
      <4> QED
        BY <3>2, <4>2
    <3> QED
      BY <3>1, <3>2
  <2>2. CASE i = Len(got) + 1
    <3>1. ~(i <= Len(sent)) /\ j \in 1 .. i
      BY <1>1, <2>2 DEF Spoilt
    <3> QED
      BY <1>3, <3>1
  <2> QED
    BY <1>1, <2>1, <2>2
<1>5. Len(sent) <= Len(more)
  BY <1>1 DEF Spoilt
<1> QED
  BY <1>3, <1>4, <1>5 DEF Spoilt, more

\* The words of a request, with whatever is left in the buffer behind it: the
\* newline at its end garbles a word, and nothing before that word changes.
LEMMA WordsBehind ==
  ASSUME NEW s \in Seq(Units), s # <<>>, s[Len(s)].end = NL,
         NEW b \in Seq(Units), b # <<>>
  PROVE  Spoilt(seperate_to_vector(s \o b), seperate_to_vector(s))
<1> DEFINE r == s \o b
           n == Len(s)
           m == Len(r)
<1>1. /\ n \in Nat /\ n > 0 /\ m \in Nat /\ n < m
      /\ r \in Seq(Units)
      /\ DOMAIN s = 1 .. n /\ DOMAIN r = 1 .. m
      /\ \A i \in 1 .. n : r[i] = s[i]
  OBVIOUS
<1>2. r[n].end = NL /\ NL # SP
  <2>1. r[n] = s[n]
    BY <1>1
  <2> QED
    BY <2>1 DEF NL, SP
<1>0. /\ \A i \in 1 .. n : i # Len(r) /\ r[i] = s[i]
      /\ \A i \in 1 .. n : i < n => i # Len(s)
  OBVIOUS
<1>3. PICK V \in [0 .. n -> Seq(Words)] :
          /\ V[0] = <<>>
          /\ \A i \in 1 .. n :
                V[i] = IF i \in Pushed(s) THEN Append(V[i - 1], WordAt(s, i)) ELSE V[i - 1]
          /\ seperate_to_vector(s) = V[n]
  BY WordsDef
<1>4. PICK W \in [0 .. m -> Seq(Words)] :
          /\ W[0] = <<>>
          /\ \A i \in 1 .. m :
                W[i] = IF i \in Pushed(r) THEN Append(W[i - 1], WordAt(r, i)) ELSE W[i - 1]
          /\ seperate_to_vector(r) = W[m]
  <2> HIDE DEF r
  <2> QED
    BY <1>1, WordsDef
<1> HIDE DEF r, n, m
\* Inside the request nothing is different.
<1>5. \A i \in 1 .. n : i \in Starts(r) <=> i \in Starts(s)
  BY <1>1 DEF Starts
<1>6. \A i \in 1 .. n : i \in Pushed(r) <=> i \in Starts(r)
  BY <1>1 DEF Pushed
<1>7. \A i \in 1 .. n : i < n => /\ i \in Pushed(s) <=> i \in Pushed(r)
                              /\ WordAt(s, i) = WordAt(r, i)
  <2> TAKE i \in 1 .. n
  <2> SUFFICES ASSUME i < n
               PROVE  (i \in Pushed(s) <=> i \in Pushed(r)) /\ WordAt(s, i) = WordAt(r, i)
    OBVIOUS
  <2>1. i # Len(s) /\ i # Len(r) /\ r[i] = s[i]
    BY <1>0
  <2> QED
    BY <1>5, <2>1 DEF Pushed, WordAt
<1>8. \A i \in 0 .. n - 1 : W[i] = V[i]
  <2> DEFINE A == {i \in 0 .. n - 1 : W[i] = V[i]}
  <2>1. 0 \in A
    BY <1>1, <1>3, <1>4
  <2>2. ASSUME NEW i \in 0 .. n - 1 - 1, i \in A
        PROVE  i + 1 \in A
    <3>1. i + 1 \in 1 .. n /\ i + 1 \in 1 .. m /\ i + 1 < n /\ i + 1 - 1 = i
      BY <1>1
    <3>2. W[i + 1] = V[i + 1]
      BY <2>2, <3>1, <1>3, <1>4, <1>7
    <3>3. i + 1 \in 0 .. n - 1
      BY <1>1
    <3> QED
      BY <3>2, <3>3
  <2>3. n - 1 \in Nat
    BY <1>1
  <2> HIDE DEF A
  <2>4. \A i \in 0 .. n - 1 : i \in A
    BY <2>1, <2>2, <2>3, InductionUpTo
  <2> QED
    BY <2>4 DEF A
\* A newline before the end has garbled a word.
<1>9. \A i \in 1 .. n : r[i].end = NL => \E j \in DOMAIN W[i] : W[i][j] = Garbled
  <2> DEFINE H(i) == \E j \in DOMAIN W[i] : W[i][j] = Garbled
             A == {i \in 0 .. n : i # 0 /\ r[i].end = NL => H(i)}
  <2>1. 0 \in A
    BY <1>1
  <2>2. ASSUME NEW i \in 0 .. n - 1, i \in A
        PROVE  i + 1 \in A
    <3> DEFINE k == i + 1
    <3>1. k \in 1 .. n /\ k \in 1 .. m /\ k - 1 = i /\ i \in 0 .. m
      BY <1>1
    <3> SUFFICES ASSUME r[k].end = NL PROVE H(k)
      BY <3>1
    <3> HIDE DEF k
    <3>2. CASE k \in Pushed(r)
      <4>1. WordAt(r, k) = Garbled
        <5>1. k # Len(r) /\ r[k].end # SP
          BY <1>0, <1>2, <3>1
        <5> QED
          BY <5>1 DEF WordAt
      <4>2. W[k] = Append(W[i], Garbled) /\ W[i] \in Seq(Words) /\ Garbled \in Words
        BY <1>4, <3>1, <3>2, <4>1 DEF Words
      <4>3. Len(W[i]) + 1 \in DOMAIN W[k] /\ W[k][Len(W[i]) + 1] = Garbled
        BY <4>2
      <4> QED
        BY <4>3
    <3>3. CASE k \notin Pushed(r)
      <4>1. k # 1 /\ r[i].end # SP
        BY <1>1, <1>6, <3>1, <3>3 DEF Starts
      <4>2. r[i] \in Units /\ i # 0
        BY <1>1, <3>1, <4>1
      <4>3. r[i].end = NL
        BY <4>1, <4>2 DEF Units
      <4>4. H(i)
        BY <2>2, <4>2, <4>3
      <4>5. W[k] = W[i]
        BY <1>4, <3>1, <3>3
      <4> QED
        BY <4>4, <4>5
    <3> QED
      BY <3>2, <3>3
  <2> HIDE DEF A
  <2>3. \A i \in 0 .. n : i \in A
    BY <1>1, <2>1, <2>2, InductionUpTo
  <2>4. \A i \in 1 .. n : i \in 0 .. n /\ i # 0
    BY <1>1
  <2> QED
    BY <2>3, <2>4 DEF A
\* So it is at the end of the request, and from there on.
<1>10. W[n] \in Seq(Words) /\ V[n] \in Seq(Words) /\ V[n - 1] \in Seq(Words)
  BY <1>1, <1>3, <1>4
<1>11. Spoilt(W[n], V[n])
  <2>1. n \in 1 .. n /\ n \in 1 .. m /\ n - 1 \in 0 .. n - 1
    BY <1>1
  <2>2. W[n - 1] = V[n - 1]
    BY <1>8, <2>1
  <2>3. \E j \in DOMAIN W[n] : W[n][j] = Garbled
    BY <1>1, <1>2, <1>9, <2>1
  <2>4. CASE n \in Pushed(r)
    <3>1. WordAt(r, n) = Garbled
      <4>1. n # Len(r) /\ r[n].end # SP
        BY <1>0, <1>2, <2>1
      <4> QED
        BY <4>1 DEF WordAt
    <3>2. W[n] = Append(V[n - 1], Garbled)
      BY <1>4, <2>1, <2>2, <2>4, <3>1
    <3>3. V[n] = V[n - 1] \/ \E w \in Words : V[n] = Append(V[n - 1], w)
      <4>1. s[n] \in Units
        BY <1>1, <2>1
      <4>2. WordAt(s, n) \in Words
        BY <4>1 DEF WordAt, Units, Words
      <4> QED
        BY <1>3, <2>1, <4>2
    <3>4. CASE V[n] = V[n - 1]
      BY <1>10, <2>3, <3>2, <3>4 DEF Spoilt, Words
    <3>5. ASSUME NEW w \in Words, V[n] = Append(V[n - 1], w)
          PROVE  Spoilt(W[n], V[n])
      BY <1>10, <2>3, <3>2, <3>5 DEF Spoilt, Words
    <3> QED
      BY <3>3, <3>4, <3>5
  <2>5. CASE n \notin Pushed(r)
    <3>1. n \notin Pushed(s)
      BY <1>5, <1>6, <2>1, <2>5 DEF Pushed
    <3>2. W[n] = V[n]
      BY <1>3, <1>4, <2>1, <2>2, <2>5, <3>1
    <3> QED
      BY <1>10, <2>3, <3>2 DEF Spoilt
  <2> QED
    BY <2>4, <2>5
<1>12. Spoilt(W[m], V[n])
  <2> DEFINE A == {i \in 0 .. m : n <= i => Spoilt(W[i], V[n])}
  <2>1. 0 \in A
    BY <1>1
  <2>2. ASSUME NEW i \in 0 .. m - 1, i \in A
        PROVE  i + 1 \in A
    <3>1. i + 1 \in 1 .. m /\ i + 1 \in 0 .. m /\ i + 1 - 1 = i /\ i \in 0 .. m
      BY <1>1
    <3>2. CASE i + 1 < n
      BY <1>1, <3>1, <3>2
    <3>3. CASE i + 1 = n
      BY <1>1, <1>11, <3>1, <3>3
    <3>4. CASE n <= i
      <4>1. Spoilt(W[i], V[n]) /\ W[i] \in Seq(Words)
        BY <1>4, <2>2, <3>1, <3>4
      <4>2. r[i + 1] \in Units
        BY <1>1, <3>1
      <4>3. WordAt(r, i + 1) \in Words
        BY <4>2 DEF WordAt, Units, Words
      <4>4. Spoilt(Append(W[i], WordAt(r, i + 1)), V[n])
        BY <1>10, <4>1, <4>3, SpoiltAppend
      <4>5. Spoilt(W[i + 1], V[n])
        BY <1>4, <3>1, <4>1, <4>4
      <4> QED
        BY <3>1, <4>5
    <3> QED
      BY <1>1, <3>1, <3>2, <3>3, <3>4
  <2> HIDE DEF A
  <2>3. m \in A
    <3>1. \A i \in 0 .. m : i \in A
      BY <1>1, <2>1, <2>2, InductionUpTo
    <3> QED
      BY <1>1, <3>1
  <2> QED
    BY <1>1, <2>3 DEF A
<1> QED
  BY <1>3, <1>4, <1>12 DEF r

-----------------------------------------------------------------------------
(***************************************************************************)
(* A vector that is not empty.                                             *)
(***************************************************************************)

\* Anything but one empty line gives a word.
LEMMA SomeWord ==
  ASSUME NEW text \in Seq(Units), text # <<>>, HasWord(text)
  PROVE  seperate_to_vector(text) # <<>>
<1> DEFINE n == Len(text)
<1>1. n \in Nat /\ n > 0
  OBVIOUS
<1>2. PICK W \in [0 .. n -> Seq(Words)] :
          /\ W[0] = <<>>
          /\ \A i \in 1 .. n :
                W[i] = IF i \in Pushed(text) THEN Append(W[i - 1], WordAt(text, i)) ELSE W[i - 1]
          /\ seperate_to_vector(text) = W[n]
  BY WordsDef
<1>3. 1 \in Pushed(text)
  <2>1. 1 \in DOMAIN text
    OBVIOUS
  <2>2. 1 \in Starts(text)
    BY <2>1 DEF Starts
  <2>3. ~ (1 = Len(text) /\ text[1].size = 1)
    BY DEF HasWord
  <2> QED
    BY <2>2, <2>3 DEF Pushed
<1> DEFINE A == {i \in 0 .. n : i > 0 => Len(W[i]) > 0}
<1> HIDE DEF n
<1>4. 0 \in A
  BY <1>1
<1>5. ASSUME NEW i \in 0 .. n - 1, i \in A
      PROVE  i + 1 \in A
  <2>1. i + 1 \in 1 .. n /\ i + 1 - 1 = i /\ i \in 0 .. n /\ i + 1 \in 0 .. n
    BY <1>1
  <2>2. W[i] \in Seq(Words)
    BY <2>1
  <2>3. \A w : Len(Append(W[i], w)) > 0
    BY <2>2
  <2>6. W[i + 1] = IF i + 1 \in Pushed(text) THEN Append(W[i], WordAt(text, i + 1)) ELSE W[i]
    BY <1>2, <2>1
  <2>4. CASE i + 1 \in Pushed(text)
    <3>1. W[i + 1] = Append(W[i], WordAt(text, i + 1))
      BY <2>4, <2>6
    <3>2. Len(W[i + 1]) > 0
      BY <2>3, <3>1
    <3> QED
      BY <2>1, <3>2
  <2>5. CASE i + 1 \notin Pushed(text)
    <3>1. W[i + 1] = W[i] /\ i > 0
      BY <1>3, <2>1, <2>5, <2>6
    <3> QED
      BY <1>5, <2>1, <3>1
  <2> QED
    BY <2>4, <2>5
<1> HIDE DEF A
<1>6. \A i \in 0 .. n : i \in A
  BY <1>1, <1>4, <1>5, InductionUpTo
<1>7. Len(W[n]) > 0
  BY <1>1, <1>6 DEF A
<1> QED
  BY <1>2, <1>7

-----------------------------------------------------------------------------
(***************************************************************************)
(* What one step leaves alone.                                             *)
(***************************************************************************)

\* The part of the state a request leaves alone, and the part it may change.
Frame(f) ==
    /\ UNCHANGED <<master_set, max_sd, command_fd, fds_data, kernel, phase>>
    /\ up' \in BOOLEAN /\ sending' \in {sending, None, f}
    /\ \/ UNCHANGED <<working_set, inbox, link, dataLink, unread>>
       \/ /\ working_set' = working_set \ {f}
          /\ inbox' = [inbox EXCEPT ![command[f]] = <<>>]
          /\ \E l \in Links : link' = [link EXCEPT ![command[f]] = l]
          /\ dataLink' \in [Peers -> Links]
          /\ unread' \in {unread, unread \cup {command[f]}}

\* The replies of a handler stay within the frame.
LEMMA RepliesFrame ==
  ASSUME LoopTypeOK, NEW f \in Fds, command[f] # None, sending' \in {sending, None, f},
         NEW n, NEW m, Replies(f, n, m)
  PROVE  Frame(f)
<1> DEFINE p == command[f]
           q == data[fds_data[f]]
           lp == IF inbox[p] = <<>> THEN AfterError(link[p]) ELSE link[p]
<1>1. p \in Peers /\ link[p] \in Links
  BY DEF LoopTypeOK
<1>2. AfterSends(lp, n) \in Links
  BY <1>1 DEF AfterSends, AfterError, Links
<1>3. link' = [link EXCEPT ![p] = AfterSends(lp, n)]
  BY DEF Replies
<1>4. dataLink' \in [Peers -> Links]
  <2>1. dataLink' = [dataLink EXCEPT ![q] = AfterSends(@, m)]
    BY DEF Replies
  <2>2. dataLink \in [Peers -> Links]
    BY DEF LoopTypeOK
  <2> QED
    BY <2>1, <2>2 DEF AfterSends, Links
<1>5. up' \in BOOLEAN
  BY DEF Replies, Survives
<1>6. unread' \in {unread, unread \cup {p}}
  BY DEF Replies
<1> QED
  BY <1>2, <1>3, <1>4, <1>5, <1>6 DEF Replies, Frame

\* Every request is of a descriptor whose turn it is, and stays in the frame.
LEMMA RequestFrame ==
  ASSUME LoopInv, NEW f \in Fds, Request(f)
  PROVE  Turn(f) /\ command[f] # None /\ Frame(f)
<1>1. Requested(f)
  BY DEF Request, NoWord, Refused, User, Pass, Help, Quit, Cwd, Ls, Retr, Other
<1>2. Turn(f)
  BY <1>1 DEF Requested
<1>3. command[f] # None
  <2>1. f \in working_set /\ command_fd = None
    BY <1>2 DEF Turn
  <2>2. f # server_fd
    BY EventLoopAssumption
  <2> QED
    BY <2>1, <2>2 DEF LoopInv, NoBlockingRead, Readable
<1>4. ASSUME NoWord(f) PROVE Frame(f)
  BY <1>4 DEF NoWord, Frame, loop, clients
<1>7. sending' \in {sending, None, f}
  BY DEF Request, NoWord, Refused, User, Pass, Help, Quit, Cwd, Ls, Retr, Other,
         clear, keep, goes_on, loop
<1>5. ASSUME NEW n, NEW m, Replies(f, n, m) PROVE Frame(f)
  BY <1>3, <1>5, <1>7, RepliesFrame DEF LoopInv
<1>6. NoWord(f) \/ \E n, m : Replies(f, n, m)
  BY DEF Request, Refused, User, Pass, Help, Quit, Cwd, Ls, Retr, Other
<1> QED
  BY <1>2, <1>3, <1>4, <1>5, <1>6

\* The part of the state that the rest of a handler may change, and how.
Sent ==
    /\ UNCHANGED <<master_set, working_set, max_sd, command_fd, fds_data, kernel, phase,
                   inbox, session>>
    /\ up' \in BOOLEAN /\ sending' \in {sending, None} /\ buffer' \in {buffer, <<>>}
    /\ link' \in [Peers -> Links] /\ dataLink' \in [Peers -> Links] /\ unread' \subseteq Peers
    /\ \A p \in Peers : /\ link'[p] = "open" <=> link[p] = "open"
                        /\ dataLink'[p] = "open" <=> dataLink[p] = "open"

\* A connection that is sent to is a client's, and so is its data connection.
LEMMA SendingPeers ==
  ASSUME LoopInv, sending # None
  PROVE  command[sending] \in Peers /\ data[fds_data[sending]] \in Peers
<1>1. sending \in master_set \cap Fds
  BY DEF LoopInv, LoopTypeOK, Serving
<1>2. sending # server_fd
  BY <1>1, EventLoopAssumption
<1>3. command[sending] # None
  BY <1>1, <1>2 DEF LoopInv, EveryClientWatched
<1>4. fds_data[sending] \in Fds /\ data[fds_data[sending]] # None
  BY <1>1 DEF LoopInv, DescriptorRoles
<1> QED
  BY <1>1, <1>3, <1>4 DEF LoopInv, LoopTypeOK

LEMMA SendingFrame ==
  ASSUME LoopInv, SendPiece \/ EndSending
  PROVE  Sent
<1>0. LoopTypeOK
  BY DEF LoopInv
<1>1. \A l \in Links : \A n : /\ AfterSends(l, n) \in Links
                              /\ AfterSends(l, n) = "open" <=> l = "open"
  BY DEF AfterSends, Links
<1>2. CASE SendPiece
  <2> DEFINE q == data[fds_data[sending]]
  <2>1. PICK m : /\ up' = Survives(dataLink[q], m)
                 /\ dataLink' = [dataLink EXCEPT ![q] = AfterSends(@, m)]
    BY <1>2 DEF SendPiece
  <2>2. UNCHANGED <<loop, buffer, kernel, phase, inbox, link, unread, session>>
    BY <1>2 DEF SendPiece
  <2>3. up' \in BOOLEAN
    BY <2>1 DEF Survives
  <2> HIDE DEF q
  <2>4. /\ dataLink' \in [Peers -> Links]
        /\ \A p \in Peers : dataLink'[p] = "open" <=> dataLink[p] = "open"
    BY <1>0, <1>1, <2>1 DEF LoopTypeOK
  <2> QED
    BY <1>0, <2>2, <2>3, <2>4 DEF Sent, loop, LoopTypeOK
<1>3. CASE EndSending
  <2> DEFINE p == command[sending]
  <2>0. p \in Peers
    BY <1>3, SendingPeers DEF EndSending
  <2>1. PICK n : /\ up' = Survives(link[p], n)
                 /\ link' = [link EXCEPT ![p] = AfterSends(@, n)]
    BY <1>3 DEF EndSending
  <2>2. /\ UNCHANGED <<master_set, working_set, max_sd, command_fd, fds_data, kernel,
                       phase, inbox, dataLink, session>>
        /\ buffer' = <<>> /\ sending' = None
        /\ unread' \in {unread, unread \cup {p}}
    BY <1>3 DEF EndSending, clear
  <2>3. up' \in BOOLEAN
    BY <2>1 DEF Survives
  <2> HIDE DEF p
  <2>4. /\ link' \in [Peers -> Links]
        /\ \A c \in Peers : link'[c] = "open" <=> link[c] = "open"
    BY <1>0, <1>1, <2>1 DEF LoopTypeOK
  <2>5. unread' \subseteq Peers
    BY <1>0, <2>0, <2>2 DEF LoopTypeOK
  <2> QED
    BY <1>0, <2>2, <2>3, <2>4, <2>5 DEF Sent, LoopTypeOK
<1> QED
  BY <1>2, <1>3

-----------------------------------------------------------------------------
(***************************************************************************)
(* Type correctness.                                                       *)
(***************************************************************************)

LEMMA TypeInit == Init => LoopTypeOK
<1> SUFFICES ASSUME Init PROVE LoopTypeOK
  OBVIOUS
<1>1. S!SessionsTypeOK
  BY DEF Init, S!load_clients, S!SessionsTypeOK
<1> QED
  BY <1>1 DEF Init, LoopTypeOK, Watched, Links

LEMMA TypeClient ==
  ASSUME LoopTypeOK, NEW p \in Peers, Client(p)
  PROVE  LoopTypeOK'
<1> USE DEF LoopTypeOK
<1>0. S!SessionsTypeOK'
  BY DEF Client, ConnectCommand, ConnectData, SendLine, ReadReplies, EndClient,
         session, S!SessionsTypeOK
<1>1. CASE ConnectCommand(p)
  BY <1>0, <1>1 DEF ConnectCommand, loop
<1>2. CASE ConnectData(p)
  BY <1>0, <1>2 DEF ConnectData, loop
<1>3. ASSUME NEW line \in Requests, SendLine(p, line)
      PROVE  LoopTypeOK'
  <2>1. line \in Seq(Units)
    BY EventLoopAssumption
  <2> QED
    BY <1>0, <1>3, <2>1 DEF SendLine, loop, kernel
<1>4. CASE ReadReplies(p)
  BY <1>0, <1>4 DEF ReadReplies, loop, kernel
<1>5. CASE EndClient(p)
  BY <1>0, <1>5 DEF EndClient, loop, kernel, Links, Closed
<1> QED
  BY <1>1, <1>2, <1>3, <1>4, <1>5 DEF Client

\* There is a connection to accept when the listening descriptor has its turn.
LEMMA SomeoneWaits ==
  ASSUME LoopInv, Turn(server_fd)
  PROVE  backlog # <<>> /\ Head(backlog) \in Peers /\ Tail(backlog) \in Seq(Peers)
  BY DEF LoopInv, LoopTypeOK, NoBlockingRead, Readable, Turn

LEMMA TypeAccept ==
  ASSUME LoopInv, AcceptCommand \/ AcceptData
  PROVE  LoopTypeOK'
<1> LoopTypeOK /\ Accepting
  BY DEF LoopInv
<1> USE DEF LoopTypeOK
<1>0. S!SessionsTypeOK'
  BY DEF AcceptCommand, AcceptData, session, S!SessionsTypeOK
<1>1. CASE AcceptCommand
  BY <1>0, <1>1, SomeoneWaits DEF AcceptCommand, clients
<1>2. CASE AcceptData
  <2>1. AfterSends(link[command[command_fd]], 2) \in Links
    BY <1>2 DEF AcceptData, Accepting, AfterSends, Links
  <2>2. up' \in BOOLEAN
    BY <1>2 DEF AcceptData, Survives
  <2> QED
    BY <1>0, <1>2, <2>1, <2>2
    DEF AcceptData, Accepting, Watched, new_max, set_fds_data
<1> QED
  BY <1>1, <1>2

\* The session tables keep their types through every request.
LEMMA TypeSession ==
  ASSUME LoopTypeOK, NEW f \in Fds, Request(f)
  PROVE  S!SessionsTypeOK'
<1> USE DEF LoopTypeOK, S!SessionsTypeOK
<1>1. CASE UNCHANGED session
  BY <1>1 DEF session
<1>2. CASE ~UNCHANGED session
  <2>1. PICK words : User(f, words) \/ Pass(f, words) \/ Quit(f, words)
    BY <1>2 DEF Request, NoWord, Refused, Help, Cwd, Ls, Retr, Other
  <2>2. CASE User(f, words)
    BY <2>2 DEF User, S!user_command, S!check_username, S!session
  <2>3. CASE Pass(f, words)
    BY <2>3 DEF Pass, S!pass_command, S!log_in, S!session
  <2>4. CASE Quit(f, words)
    BY <2>4 DEF Quit, S!quit_command, S!log_out, S!session
  <2> QED
    BY <2>1, <2>2, <2>3, <2>4
<1> QED
  BY <1>1, <1>2

LEMMA TypeNext == LoopInv /\ [Next]_vars => LoopTypeOK'
<1> SUFFICES ASSUME LoopInv, [Next]_vars PROVE LoopTypeOK'
  OBVIOUS
<1> USE DEF LoopTypeOK
<1>0. LoopTypeOK
  BY DEF LoopInv
<1>1. CASE Select
  BY <1>0, <1>1 DEF Select, Selected, kernel, clients, session, S!SessionsTypeOK
<1>2. CASE AcceptCommand \/ AcceptData
  BY <1>0, <1>2, TypeAccept DEF LoopInv
<1>3. ASSUME NEW f \in Fds, EndOfFile(f)
      PROVE  LoopTypeOK'
  BY <1>0, <1>3 DEF EndOfFile, clients, session, S!SessionsTypeOK
<1>4. ASSUME NEW f \in Fds, Request(f)
      PROVE  LoopTypeOK'
  <2>1. Frame(f) /\ command[f] # None
    BY <1>4, RequestFrame
  <2>2. S!SessionsTypeOK'
    BY <1>0, <1>4, TypeSession
  <2>3. UNCHANGED <<master_set, max_sd, command_fd, fds_data, command, data,
                    backlog, dataBacklog, phase>>
    BY <2>1 DEF Frame, kernel
  <2>4. command[f] \in Peers
    BY <1>0, <2>1
  <2>5. working_set' \subseteq Watched /\ unread' \subseteq Peers
    BY <1>0, <2>1, <2>4 DEF Frame
  <2>6. inbox' \in [Peers -> Seq(Units)]
    <3>1. <<>> \in Seq(Units)
      OBVIOUS
    <3>2. inbox' = inbox \/ inbox' = [inbox EXCEPT ![command[f]] = <<>>]
      BY <2>1 DEF Frame
    <3> QED
      BY <1>0, <3>1, <3>2
  <2>8. link' \in [Peers -> Links]
    <3>1. link' = link \/ \E l \in Links : link' = [link EXCEPT ![command[f]] = l]
      BY <2>1 DEF Frame
    <3> QED
      BY <1>0, <3>1
  <2>9. dataLink' \in [Peers -> Links]
    BY <1>0, <2>1 DEF Frame
  <2>7. up' \in BOOLEAN /\ sending' \in Fds \cup {None}
    BY <1>0, <2>1 DEF Frame
  <2> QED
    BY <1>0, <2>2, <2>3, <2>5, <2>6, <2>7, <2>8, <2>9
<1>7. CASE SendPiece \/ EndSending
  BY <1>0, <1>7, SendingFrame DEF Sent, kernel, session, S!SessionsTypeOK
<1>5. ASSUME NEW p \in Peers, Client(p)
      PROVE  LoopTypeOK'
  BY <1>0, <1>5, TypeClient
<1>6. CASE UNCHANGED vars
  BY <1>0, <1>6 DEF vars, loop, kernel, clients, session, S!SessionsTypeOK
<1> QED
  BY <1>1, <1>2, <1>3, <1>4, <1>5, <1>6, <1>7 DEF Next, Server

-----------------------------------------------------------------------------
(***************************************************************************)
(* The scan is of watched descriptors, and accepting is of a socket.       *)
(***************************************************************************)

\* What the lemmas below use of a new descriptor: it was not open.
LEMMA NewDescriptor ==
  ASSUME NEW f \in Fds, NextFd(f)
  PROVE  f \in Fds /\ command[f] = None /\ data[f] = None
  BY DEF NextFd, Free

LEMMA ScanningNext == LoopInv /\ [Next]_vars => Scanning' /\ Accepting'
<1> SUFFICES ASSUME LoopInv, [Next]_vars PROVE Scanning' /\ Accepting'
  OBVIOUS
<1> USE DEF Scanning, Accepting
<1>0. LoopTypeOK /\ Scanning /\ Accepting
  BY DEF LoopInv
<1>1. CASE Select
  BY <1>0, <1>1 DEF Select, Selected, kernel
<1>2. CASE AcceptCommand
  <2>1. PICK f \in Fds : /\ command' = [command EXCEPT ![f] = Head(backlog)]
                         /\ command_fd' = f
    BY <1>2 DEF AcceptCommand
  <2>2. Head(backlog) # None
    BY <1>2, SomeoneWaits, EventLoopAssumption DEF AcceptCommand
  <2> QED
    BY <1>0, <1>2, <2>1, <2>2 DEF AcceptCommand, LoopTypeOK
<1>3. CASE AcceptData
  BY <1>0, <1>3 DEF AcceptData
<1>4. ASSUME NEW f \in Fds, EndOfFile(f)
      PROVE  Scanning' /\ Accepting'
  BY <1>0, <1>4 DEF EndOfFile, Turn
<1>5. ASSUME NEW f \in Fds, Request(f)
      PROVE  Scanning' /\ Accepting'
  <2>1. Frame(f)
    BY <1>5, RequestFrame
  <2> QED
    BY <1>0, <2>1 DEF Frame, kernel
<1>6. ASSUME NEW p \in Peers, Client(p)
      PROVE  Scanning' /\ Accepting'
  BY <1>0, <1>6
  DEF Client, ConnectCommand, ConnectData, SendLine, ReadReplies, EndClient, loop, kernel
<1>7. CASE UNCHANGED vars
  BY <1>0, <1>7 DEF vars, loop, kernel
<1>8. CASE SendPiece \/ EndSending
  BY <1>0, <1>8, SendingFrame DEF Sent, kernel
<1> QED
  BY <1>1, <1>2, <1>3, <1>4, <1>5, <1>6, <1>7, <1>8 DEF Next, Server

\* Who is sent to stays watched: nothing else is served meanwhile.
LEMMA ServingNext == LoopInv /\ [Next]_vars => Serving'
<1> SUFFICES ASSUME LoopInv, [Next]_vars PROVE Serving'
  OBVIOUS
<1> USE DEF Serving
<1>0. Serving
  BY DEF LoopInv
<1>1. ASSUME NEW f \in Fds, Request(f)
      PROVE  Serving'
  <2>1. Frame(f) /\ Requested(f)
    BY <1>1, RequestFrame
    DEF Request, NoWord, Refused, User, Pass, Help, Quit, Cwd, Ls, Retr, Other
  <2>2. f \in master_set
    BY <2>1 DEF Requested, Turn, LoopInv, Scanning
  <2> QED
    BY <1>0, <2>1, <2>2 DEF Frame
<1>2. CASE SendPiece \/ EndSending
  BY <1>0, <1>2, SendingFrame DEF Sent
<1>3. ASSUME NEW f \in Fds, EndOfFile(f)
      PROVE  Serving'
  BY <1>3 DEF EndOfFile, Turn
<1>4. CASE AcceptData
  BY <1>0, <1>4 DEF AcceptData
<1>5. ASSUME NEW p \in Peers, Client(p)
      PROVE  UNCHANGED <<sending, master_set>>
  BY <1>5 DEF Client, ConnectCommand, ConnectData, SendLine, ReadReplies, EndClient, loop
<1>6. ASSUME Select \/ AcceptCommand \/ UNCHANGED vars
      PROVE  UNCHANGED <<sending, master_set>>
  BY <1>6 DEF Select, AcceptCommand, vars, loop
<1> QED
  BY <1>0, <1>1, <1>2, <1>3, <1>4, <1>5, <1>6 DEF Next, Server

-----------------------------------------------------------------------------
(***************************************************************************)
(* A client has one command socket or one place in the queue.              *)
(***************************************************************************)

LEMMA OneSocketAccept ==
  ASSUME LoopInv, AcceptCommand
  PROVE  OneSocketEach'
<1> USE DEF OneSocketEach
<1>0. LoopTypeOK /\ OneSocketEach
  BY DEF LoopInv
<1>1. backlog # <<>> /\ Head(backlog) \in Peers /\ backlog \in Seq(Peers)
  BY SomeoneWaits DEF AcceptCommand, LoopInv, LoopTypeOK
<1>2. PICK f \in Fds : NextFd(f) /\ command' = [command EXCEPT ![f] = Head(backlog)]
  BY DEF AcceptCommand
<1>3. /\ Len(backlog') = Len(backlog) - 1
      /\ \A i \in 1 .. Len(backlog') : backlog'[i] = backlog[i + 1]
      /\ Head(backlog) = backlog[1]
      /\ Len(backlog) \in Nat \ {0}
  BY <1>1 DEF AcceptCommand
<1>4. \A g, h \in Fds : command'[g] # None /\ command'[g] = command'[h] => g = h
  BY <1>0, <1>2, <1>3 DEF LoopTypeOK
<1>5. \A g \in Fds, i \in 1 .. Len(backlog') : command'[g] # backlog'[i]
  <2> TAKE g \in Fds, i \in 1 .. Len(backlog')
  <2>1. /\ i + 1 \in 1 .. Len(backlog) /\ 1 \in 1 .. Len(backlog)
        /\ i + 1 # 1
    BY <1>3
  <2>2. backlog'[i] # command[g] /\ backlog'[i] # backlog[1]
    BY <1>0, <1>3, <2>1
  <2> QED
    BY <1>0, <1>2, <1>3, <2>2 DEF LoopTypeOK
<1>6. \A i, j \in 1 .. Len(backlog') : backlog'[i] = backlog'[j] => i = j
  <2> TAKE i, j \in 1 .. Len(backlog')
  <2>1. i + 1 \in 1 .. Len(backlog) /\ j + 1 \in 1 .. Len(backlog)
    BY <1>3
  <2> QED
    BY <1>0, <1>3, <2>1
<1>7. \A p \in Peers : phase'[p] = "off" =>
          /\ \A g \in Fds : command'[g] # p
          /\ \A i \in 1 .. Len(backlog') : backlog'[i] # p
  BY <1>0, <1>2, <1>3 DEF AcceptCommand, clients, LoopTypeOK
<1> QED
  BY <1>4, <1>5, <1>6, <1>7

LEMMA OneSocketConnect ==
  ASSUME LoopInv, NEW p \in Peers, ConnectCommand(p)
  PROVE  OneSocketEach'
<1> USE DEF OneSocketEach
<1>0. LoopTypeOK /\ OneSocketEach
  BY DEF LoopInv
<1>1. UNCHANGED command /\ phase[p] = "off" /\ phase' = [phase EXCEPT ![p] = "command"]
  BY DEF ConnectCommand
<1>2. /\ Len(backlog') = Len(backlog) + 1
      /\ \A i \in 1 .. Len(backlog) : backlog'[i] = backlog[i]
      /\ backlog'[Len(backlog) + 1] = p
      /\ Len(backlog) \in Nat
  BY <1>0 DEF ConnectCommand, LoopTypeOK
<1>3. \A i \in 1 .. Len(backlog') : i \in 1 .. Len(backlog) \/ backlog'[i] = p
  BY <1>2
<1>4. \A f \in Fds, i \in 1 .. Len(backlog') : command'[f] # backlog'[i]
  BY <1>0, <1>1, <1>2, <1>3
<1>5. \A i, j \in 1 .. Len(backlog') : backlog'[i] = backlog'[j] => i = j
  BY <1>0, <1>1, <1>2, <1>3
<1>6. \A q \in Peers : phase'[q] = "off" =>
          /\ \A f \in Fds : command'[f] # q
          /\ \A i \in 1 .. Len(backlog') : backlog'[i] # q
  BY <1>0, <1>1, <1>2, <1>3 DEF LoopTypeOK
<1> QED
  BY <1>0, <1>1, <1>4, <1>5, <1>6

LEMMA OneSocketNext == LoopInv /\ [Next]_vars => OneSocketEach'
<1> SUFFICES ASSUME LoopInv, [Next]_vars PROVE OneSocketEach'
  OBVIOUS
<1> USE DEF OneSocketEach
<1>0. LoopTypeOK /\ OneSocketEach
  BY DEF LoopInv
<1>1. CASE UNCHANGED <<command, backlog, phase>>
  BY <1>0, <1>1
<1>2. CASE AcceptCommand
  BY <1>2, OneSocketAccept
<1>3. ASSUME NEW f \in Fds, EndOfFile(f)
      PROVE  OneSocketEach'
  BY <1>0, <1>3, EventLoopAssumption DEF EndOfFile, clients, LoopTypeOK
<1>4. ASSUME NEW p \in Peers, ConnectCommand(p)
      PROVE  OneSocketEach'
  BY <1>4, OneSocketConnect
<1>5. ASSUME NEW p \in Peers, ConnectData(p) \/ EndClient(p)
      PROVE  OneSocketEach'
  BY <1>0, <1>5 DEF ConnectData, EndClient, kernel, LoopTypeOK
<1>6. ASSUME NEW f \in Fds, Request(f)
      PROVE  UNCHANGED <<command, backlog, phase>>
  BY <1>6, RequestFrame DEF Frame, kernel
<1>7. ASSUME Select \/ AcceptData \/ UNCHANGED vars
      PROVE  UNCHANGED <<command, backlog, phase>>
  BY <1>7 DEF Select, AcceptData, vars, kernel, clients
<1>9. ASSUME SendPiece \/ EndSending
      PROVE  UNCHANGED <<command, backlog, phase>>
  BY <1>9, SendingFrame DEF Sent, kernel
<1>8. ASSUME NEW p \in Peers, ReadReplies(p) \/ \E line \in Requests : SendLine(p, line)
      PROVE  UNCHANGED <<command, backlog, phase>>
  BY <1>8 DEF ReadReplies, SendLine, kernel
<1> QED
  BY <1>1, <1>2, <1>3, <1>4, <1>5, <1>6, <1>7, <1>8, <1>9 DEF Next, Server, Client

-----------------------------------------------------------------------------
(***************************************************************************)
(* Every client is watched.                                                *)
(***************************************************************************)

LEMMA WatchedNext == LoopInv /\ [Next]_vars => EveryClientWatched'
<1> SUFFICES ASSUME LoopInv, [Next]_vars PROVE EveryClientWatched'
  OBVIOUS
<1> USE DEF EveryClientWatched
<1>0. LoopTypeOK /\ EveryClientWatched /\ Accepting
  BY DEF LoopInv
<1>1. CASE UNCHANGED <<master_set, max_sd, command, command_fd>>
  BY <1>0, <1>1
<1>2. CASE AcceptCommand
  <2>1. PICK f \in Fds : /\ NextFd(f)
                         /\ command' = [command EXCEPT ![f] = Head(backlog)]
                         /\ command_fd' = f
    BY <1>2 DEF AcceptCommand
  <2>2. command[f] = None /\ command_fd = None
    BY <1>2, <2>1, NewDescriptor DEF AcceptCommand, Turn
  <2>3. UNCHANGED <<master_set, max_sd>>
    BY <1>2 DEF AcceptCommand
  <2> QED
    BY <1>0, <2>1, <2>2, <2>3, EventLoopAssumption DEF LoopTypeOK
<1>3. CASE AcceptData
  <2>1. /\ command_fd \in Fds /\ command[command_fd] # None
        /\ UNCHANGED command /\ command_fd' = None
        /\ master_set' = master_set \cup {command_fd}
    BY <1>0, <1>3 DEF AcceptData, Accepting, LoopTypeOK
  <2>2. max_sd \in Nat /\ command_fd \in Nat /\ \A f \in master_set : f \in Nat
    BY <1>0, <2>1, EventLoopAssumption DEF LoopTypeOK, Watched
  <2>3. max_sd <= max_sd' /\ command_fd <= max_sd' /\ max_sd' \in Nat
    BY <1>3, <2>2 DEF AcceptData, new_max
  <2>4. \A f \in master_set' : f <= max_sd'
    BY <1>0, <2>1, <2>2, <2>3
  <2>5. master_set' = {server_fd} \cup {f \in Fds : command'[f] # None /\ f # command_fd'}
    BY <1>0, <2>1, EventLoopAssumption
  <2> QED
    BY <2>4, <2>5
<1>4. ASSUME NEW f \in Fds, EndOfFile(f)
      PROVE  EveryClientWatched'
  <2>1. /\ UNCHANGED <<max_sd, command_fd>>
        /\ command' = [command EXCEPT ![f] = None]
        /\ master_set' = master_set \ {f}
    BY <1>4 DEF EndOfFile
  <2>2. f # server_fd
    BY EventLoopAssumption
  <2> QED
    BY <1>0, <2>1, <2>2 DEF LoopTypeOK
<1>5. ASSUME NEW f \in Fds, Request(f)
      PROVE  UNCHANGED <<master_set, max_sd, command, command_fd>>
  BY <1>5, RequestFrame DEF Frame, kernel
<1>6. ASSUME NEW p \in Peers, Client(p)
      PROVE  UNCHANGED <<master_set, max_sd, command, command_fd>>
  BY <1>6 DEF Client, ConnectCommand, ConnectData, SendLine, ReadReplies, EndClient,
              loop, kernel
<1>7. ASSUME Select \/ UNCHANGED vars
      PROVE  UNCHANGED <<master_set, max_sd, command, command_fd>>
  BY <1>7 DEF Select, vars, loop, kernel
<1>8. ASSUME SendPiece \/ EndSending
      PROVE  UNCHANGED <<master_set, max_sd, command, command_fd>>
  BY <1>8, SendingFrame DEF Sent, kernel
<1> QED
  BY <1>1, <1>2, <1>3, <1>4, <1>5, <1>6, <1>7, <1>8 DEF Next, Server

-----------------------------------------------------------------------------
(***************************************************************************)
(* Command and data descriptors keep their roles.                          *)
(***************************************************************************)

LEMMA RolesNext == LoopInv /\ [Next]_vars => DescriptorRoles'
<1> SUFFICES ASSUME LoopInv, [Next]_vars PROVE DescriptorRoles'
  OBVIOUS
<1> USE DEF DescriptorRoles
<1>0. LoopTypeOK /\ DescriptorRoles /\ EveryClientWatched
  BY DEF LoopInv
<1>1. CASE UNCHANGED <<master_set, command, data, fds_data>>
  BY <1>0, <1>1
<1>2. CASE AcceptCommand
  <2>1. PICK f \in Fds : NextFd(f) /\ command' = [command EXCEPT ![f] = Head(backlog)]
    BY <1>2 DEF AcceptCommand
  <2>2. data[f] = None
    BY <2>1, NewDescriptor
  <2>3. UNCHANGED <<master_set, data, fds_data>>
    BY <1>2 DEF AcceptCommand
  <2> QED
    BY <1>0, <2>1, <2>2, <2>3 DEF LoopTypeOK
<1>3. CASE AcceptData
  <2>1. PICK d \in Fds : /\ NextFd(d)
                         /\ data' = [data EXCEPT ![d] = Head(dataBacklog)]
                         /\ fds_data' = [fds_data EXCEPT ![command_fd] = d]
    BY <1>3 DEF AcceptData, set_fds_data
  <2>2. command[d] = None /\ data[d] = None
    BY <2>1, NewDescriptor
  <2>3. Head(dataBacklog) \in Peers /\ Head(dataBacklog) # None
    BY <1>0, <1>3, EventLoopAssumption DEF AcceptData, LoopTypeOK
  <2>4. /\ UNCHANGED command
        /\ master_set' = master_set \cup {command_fd}
        /\ command_fd \in Fds
    BY <1>0, <1>3 DEF AcceptData, LoopTypeOK
  <2>5. \A f \in Fds : command'[f] # None => data'[f] = None
    BY <1>0, <2>1, <2>2, <2>4 DEF LoopTypeOK
  <2>6. \A f \in master_set' \cap Fds :
            \/ f = command_fd /\ fds_data'[f] = d
            \/ f # command_fd /\ f \in master_set /\ fds_data'[f] = fds_data[f]
    BY <1>0, <2>1, <2>4 DEF LoopTypeOK
  <2>7. \A f \in master_set \cap Fds : fds_data[f] # d
    BY <1>0, <2>2
  <2>8. \A f \in master_set' \cap Fds :
            fds_data'[f] \in Fds /\ data'[fds_data'[f]] # None
    BY <1>0, <2>1, <2>3, <2>6 DEF LoopTypeOK
  <2>9. \A f, g \in master_set' \cap Fds : fds_data'[f] = fds_data'[g] => f = g
    BY <1>0, <2>6, <2>7
  <2> QED
    BY <2>5, <2>8, <2>9
<1>4. ASSUME NEW f \in Fds, EndOfFile(f)
      PROVE  DescriptorRoles'
  BY <1>0, <1>4 DEF EndOfFile, LoopTypeOK
<1>5. ASSUME NEW f \in Fds, Request(f)
      PROVE  UNCHANGED <<master_set, command, data, fds_data>>
  BY <1>5, RequestFrame DEF Frame, kernel
<1>6. ASSUME NEW p \in Peers, Client(p)
      PROVE  UNCHANGED <<master_set, command, data, fds_data>>
  BY <1>6 DEF Client, ConnectCommand, ConnectData, SendLine, ReadReplies, EndClient,
              loop, kernel
<1>7. ASSUME Select \/ UNCHANGED vars
      PROVE  UNCHANGED <<master_set, command, data, fds_data>>
  BY <1>7 DEF Select, vars, loop, kernel
<1>8. ASSUME SendPiece \/ EndSending
      PROVE  UNCHANGED <<master_set, command, data, fds_data>>
  BY <1>8, SendingFrame DEF Sent, kernel
<1> QED
  BY <1>1, <1>2, <1>3, <1>4, <1>5, <1>6, <1>7, <1>8 DEF Next, Server

-----------------------------------------------------------------------------
(***************************************************************************)
(* What select() saw is there until it is served.                          *)
(***************************************************************************)

\* A descriptor of the scan that is not the listening one is a client's.
LEMMA InScan ==
  ASSUME LoopInv, NEW g \in working_set, g # server_fd
  PROVE  /\ g \in Fds /\ command[g] \in Peers
         /\ inbox[command[g]] # <<>> \/ link[command[g]] # "open"
  BY DEF LoopInv, LoopTypeOK, Watched, NoBlockingRead, Readable

\* Serving one descriptor takes nothing from another: they are two clients.
LEMMA RequestKeeps ==
  ASSUME LoopInv, NEW f \in Fds, Request(f)
  PROVE  NoBlockingRead'
<1>0. LoopTypeOK /\ OneSocketEach /\ NoBlockingRead
  BY DEF LoopInv
<1>1. Turn(f) /\ command[f] \in Peers /\ Frame(f)
  BY <1>0, RequestFrame DEF LoopTypeOK
<1>2. UNCHANGED <<command, backlog, command_fd>>
  BY <1>1 DEF Frame, kernel
<1>3. CASE UNCHANGED <<working_set, inbox, link>>
  BY <1>0, <1>2, <1>3 DEF NoBlockingRead, Readable
<1>4. CASE ~UNCHANGED <<working_set, inbox, link>>
  <2>1. /\ working_set' = working_set \ {f}
        /\ inbox' = [inbox EXCEPT ![command[f]] = <<>>]
        /\ \E l \in Links : link' = [link EXCEPT ![command[f]] = l]
    BY <1>1, <1>4 DEF Frame
  <2>2. ASSUME NEW g \in working_set'
        PROVE  Readable(g)' \/ (g = server_fd /\ command_fd' # None)
    <3>1. CASE g = server_fd
      BY <1>0, <1>2, <2>1, <3>1 DEF NoBlockingRead, Readable
    <3>2. CASE g # server_fd
      <4>1. /\ g \in Fds /\ command[g] \in Peers /\ g # f
            /\ inbox[command[g]] # <<>> \/ link[command[g]] # "open"
        BY <2>1, <3>2, InScan
      <4>2. command[g] # command[f]
        BY <1>1, <4>1, EventLoopAssumption DEF OneSocketEach, LoopInv
      <4>3. inbox'[command[g]] = inbox[command[g]] /\ link'[command[g]] = link[command[g]]
        BY <1>0, <2>1, <4>1, <4>2 DEF LoopTypeOK
      <4> QED
        BY <1>2, <3>2, <4>1, <4>3, EventLoopAssumption DEF Readable
    <3> QED
      BY <3>1, <3>2
  <2> QED
    BY <2>2 DEF NoBlockingRead
<1> QED
  BY <1>3, <1>4

\* Accepting and closing concern descriptors that are not in the rest of the scan.
LEMMA AcceptKeeps ==
  ASSUME LoopInv, AcceptCommand \/ AcceptData \/ \E f \in Fds : EndOfFile(f)
  PROVE  NoBlockingRead'
<1>0. LoopTypeOK /\ NoBlockingRead
  BY DEF LoopInv
<1>1. ASSUME NEW g \in working_set', g # server_fd
      PROVE  Readable(g)'
  <2>1. CASE AcceptCommand
    <3>1. PICK f \in Fds : NextFd(f) /\ command' = [command EXCEPT ![f] = Head(backlog)]
      BY <2>1 DEF AcceptCommand
    <3>2. g \in working_set /\ UNCHANGED <<inbox, link>>
      BY <1>1, <2>1 DEF AcceptCommand, clients
    <3>3. command'[g] = command[g]
      BY <1>0, <1>1, <3>1, <3>2, InScan, NewDescriptor, EventLoopAssumption DEF LoopTypeOK
    <3> QED
      BY <1>1, <3>2, <3>3, InScan, EventLoopAssumption DEF Readable
  <2>2. CASE AcceptData
    <3>1. g \in working_set /\ UNCHANGED <<inbox, command>>
      BY <1>1, <2>2 DEF AcceptData
    <3>2. link' = [link EXCEPT ![command[command_fd]] = AfterSends(@, 2)]
      BY <2>2 DEF AcceptData
    <3>3. link[command[g]] # "open" => link'[command[g]] # "open"
      BY <1>0, <1>1, <3>1, <3>2, InScan DEF LoopTypeOK, AfterSends
    <3> QED
      BY <1>1, <3>1, <3>3, InScan, EventLoopAssumption DEF Readable
  <2>3. ASSUME NEW f \in Fds, EndOfFile(f)
        PROVE  Readable(g)'
    <3>1. /\ g \in working_set /\ g # f /\ UNCHANGED <<inbox, link>>
          /\ command' = [command EXCEPT ![f] = None]
      BY <1>1, <2>3 DEF EndOfFile, clients
    <3> QED
      BY <1>0, <1>1, <3>1, InScan, EventLoopAssumption DEF Readable, LoopTypeOK
  <2> QED
    BY <2>1, <2>2, <2>3
<1>2. ASSUME server_fd \in working_set'
      PROVE  Readable(server_fd)' \/ command_fd' # None
  <2>1. CASE AcceptCommand
    BY <2>1, EventLoopAssumption DEF AcceptCommand
  <2>2. CASE AcceptData
    BY <1>2, <2>2 DEF AcceptData
  <2>3. ASSUME NEW f \in Fds, EndOfFile(f)
        PROVE  Readable(server_fd)'
    BY <1>0, <1>2, <2>3 DEF EndOfFile, Turn, NoBlockingRead, Readable
  <2> QED
    BY <2>1, <2>2, <2>3
<1> QED
  BY <1>1, <1>2 DEF NoBlockingRead

\* A client adds to what there is to read; only the server takes away.
LEMMA ClientKeeps ==
  ASSUME LoopInv, NEW p \in Peers, Client(p)
  PROVE  NoBlockingRead'
<1>0. LoopTypeOK /\ NoBlockingRead
  BY DEF LoopInv
<1>1. UNCHANGED <<working_set, command, command_fd>>
  BY DEF Client, ConnectCommand, ConnectData, SendLine, ReadReplies, EndClient,
         loop, kernel
<1>2. backlog # <<>> => backlog' # <<>>
  BY <1>0 DEF Client, ConnectCommand, ConnectData, SendLine, ReadReplies, EndClient,
              kernel, LoopTypeOK
<1>3. ASSUME NEW q \in Peers, inbox[q] # <<>>
      PROVE  inbox'[q] # <<>>
  <2>1. ASSUME NEW line \in Requests, SendLine(p, line)
        PROVE  inbox'[q] # <<>>
    <3>1. inbox[p] \in Seq(Units) /\ line \in Seq(Units) /\ line # <<>>
      BY <1>0, EventLoopAssumption DEF LoopTypeOK
    <3>2. inbox[p] \o line # <<>>
      BY <3>1
    <3> QED
      BY <1>0, <1>3, <2>1, <3>2 DEF SendLine, LoopTypeOK
  <2>2. CASE UNCHANGED inbox
    BY <1>3, <2>2
  <2> QED
    BY <2>1, <2>2 DEF Client, ConnectCommand, ConnectData, ReadReplies, EndClient
<1>4. ASSUME NEW q \in Peers, link[q] # "open"
      PROVE  link'[q] # "open"
  BY <1>0, <1>4 DEF Client, ConnectCommand, ConnectData, SendLine, ReadReplies,
                    EndClient, Closed, LoopTypeOK
<1>5. ASSUME NEW g \in working_set, Readable(g)
      PROVE  Readable(g)'
  <2>1. CASE g = server_fd
    BY <1>2, <1>5, <2>1 DEF Readable
  <2>2. CASE g # server_fd
    BY <1>1, <1>3, <1>4, <1>5, <2>2, InScan, EventLoopAssumption DEF Readable
  <2> QED
    BY <2>1, <2>2
<1> QED
  BY <1>0, <1>1, <1>5 DEF NoBlockingRead

\* What is sent to a client opens no connection and closes none.
LEMMA SendingKeeps ==
  ASSUME LoopInv, SendPiece \/ EndSending
  PROVE  NoBlockingRead'
<1>0. LoopTypeOK /\ NoBlockingRead
  BY DEF LoopInv
<1>1. /\ UNCHANGED <<working_set, command, backlog, command_fd, inbox>>
      /\ \A p \in Peers : link'[p] = "open" <=> link[p] = "open"
  BY SendingFrame DEF Sent, kernel
<1>2. ASSUME NEW g \in working_set, g # server_fd
      PROVE  Readable(g)'
  BY <1>1, <1>2, InScan, EventLoopAssumption DEF Readable
<1>3. ASSUME server_fd \in working_set
      PROVE  Readable(server_fd)' \/ command_fd' # None
  BY <1>0, <1>1, <1>3 DEF NoBlockingRead, Readable
<1> QED
  BY <1>1, <1>2, <1>3 DEF NoBlockingRead

LEMMA NoBlockingNext == LoopInv /\ [Next]_vars => NoBlockingRead'
<1> SUFFICES ASSUME LoopInv, [Next]_vars PROVE NoBlockingRead'
  OBVIOUS
<1>1. CASE Select
  <2>1. working_set' \subseteq {f \in master_set : Readable(f)}
    BY <1>1 DEF Select, Selected
  <2>2. UNCHANGED <<command, backlog, inbox, link>>
    BY <1>1 DEF Select, kernel, clients
  <2> QED
    BY <2>1, <2>2 DEF NoBlockingRead, Readable
<1>2. CASE UNCHANGED vars
  BY <1>2 DEF vars, loop, kernel, clients, LoopInv, NoBlockingRead, Readable
<1> QED
  BY <1>1, <1>2, AcceptKeeps, RequestKeeps, SendingKeeps, ClientKeeps DEF Next, Server

-----------------------------------------------------------------------------
(***************************************************************************)
(* Requests are whole lines.                                               *)
(***************************************************************************)

\* The end of two texts is the end of the second.
LEMMA EndOfTwo ==
  ASSUME NEW a \in Seq(Units), NEW b \in Seq(Units), b # <<>>
  PROVE  a \o b # <<>> /\ (a \o b)[Len(a \o b)] = b[Len(b)]
<1>1. /\ Len(a) \in Nat /\ Len(b) \in Nat /\ Len(b) > 0
      /\ Len(a \o b) = Len(a) + Len(b)
      /\ \A i \in 1 .. Len(b) : (a \o b)[Len(a) + i] = b[i]
  OBVIOUS
<1>2. (a \o b)[Len(a) + Len(b)] = b[Len(b)]
  BY <1>1
<1>3. Len(a \o b) # 0
  BY <1>1
<1> QED
  BY <1>1, <1>2, <1>3

\* What a request leaves in the buffer: nothing, or what it received.
LEMMA RequestBuffer ==
  ASSUME NEW f \in Fds, Request(f)
  PROVE  buffer' \in {buffer, <<>>, Received(f)}
  BY DEF Request, NoWord, Refused, User, Pass, Help, Quit, Cwd, Ls, Retr, Other,
         clear, keep, goes_on

LEMMA WholeLinesNext == LoopInv /\ [Next]_vars => WholeLines'
<1> SUFFICES ASSUME LoopInv, [Next]_vars PROVE WholeLines'
  OBVIOUS
<1> USE DEF WholeLines
<1>0. LoopTypeOK /\ WholeLines
  BY DEF LoopInv
<1>1. CASE UNCHANGED <<buffer, inbox>>
  BY <1>0, <1>1
<1>2. CASE AcceptData
  <2>1. UNCHANGED inbox /\ buffer' = <<>>
    BY <1>2 DEF AcceptData
  <2>2. <<>> \in Seq(Units)
    OBVIOUS
  <2> QED
    BY <1>0, <2>1, <2>2
<1>3. ASSUME NEW f \in Fds, Request(f)
      PROVE  WholeLines'
  <2>1. Frame(f) /\ command[f] \in Peers
    BY <1>0, <1>3, RequestFrame DEF LoopTypeOK
  <2>2. inbox[command[f]] \in Seq(Units)
    BY <1>0, <2>1 DEF LoopTypeOK
  <2>3. Received(f) \in Seq(Units)
    BY <1>0, <2>2, RecvType DEF Received
  <2>4. <<>> \in Seq(Units)
    OBVIOUS
  <2>5. buffer' \in Seq(Units)
    BY <1>0, <1>3, <2>3, <2>4, RequestBuffer
  <2>6. inbox' = inbox \/ inbox' = [inbox EXCEPT ![command[f]] = <<>>]
    BY <2>1 DEF Frame
  <2> QED
    BY <1>0, <2>5, <2>6 DEF LoopTypeOK
<1>4. ASSUME NEW p \in Peers, NEW line \in Requests, SendLine(p, line)
      PROVE  WholeLines'
  <2>1. UNCHANGED buffer /\ inbox' = [inbox EXCEPT ![p] = @ \o line]
    BY <1>4 DEF SendLine
  <2>2. inbox[p] \in Seq(Units) /\ line \in Seq(Units) /\ line # <<>>
    BY <1>0, EventLoopAssumption DEF LoopTypeOK
  <2>3. line[Len(line)].end = NL
    BY EventLoopAssumption
  <2>4. inbox'[p] = inbox[p] \o line
    BY <1>0, <2>1 DEF LoopTypeOK
  <2>5. inbox'[p][Len(inbox'[p])].end = NL
    BY <2>2, <2>3, <2>4, EndOfTwo
  <2> QED
    BY <1>0, <2>1, <2>5 DEF LoopTypeOK
<1>5. ASSUME Select \/ AcceptCommand \/ (\E f \in Fds : EndOfFile(f)) \/ UNCHANGED vars
      PROVE  UNCHANGED <<buffer, inbox>>
  BY <1>5 DEF Select, AcceptCommand, EndOfFile, vars, clients
<1>6. ASSUME NEW p \in Peers,
             ConnectCommand(p) \/ ConnectData(p) \/ ReadReplies(p) \/ EndClient(p)
      PROVE  UNCHANGED <<buffer, inbox>>
  BY <1>6 DEF ConnectCommand, ConnectData, ReadReplies, EndClient
<1>7. CASE SendPiece \/ EndSending
  <2>1. UNCHANGED inbox /\ buffer' \in {buffer, <<>>}
    BY <1>7, SendingFrame DEF Sent
  <2>2. <<>> \in Seq(Units)
    OBVIOUS
  <2> QED
    BY <1>0, <2>1, <2>2
<1> QED
  BY <1>1, <1>2, <1>3, <1>4, <1>5, <1>6, <1>7 DEF Next, Server, Client

\* A descriptor whose request is served is a client's.
LEMMA RequestedPeer ==
  ASSUME LoopInv, NEW f \in Fds, Requested(f)
  PROVE  command[f] \in Peers /\ f \in master_set
<1>1. f \in working_set /\ f # server_fd
  BY EventLoopAssumption DEF Requested, Turn
<1> QED
  BY <1>1, InScan DEF LoopInv, Scanning

\* No word is replaced, in any state the invariant holds in.
LEMMA NoWordReplacedThen == LoopInv => NoWordReplaced
<1> SUFFICES ASSUME LoopInv, NEW f \in Fds, Requested(f), inbox[command[f]] # <<>>,
                    NEW i \in DOMAIN Command(f)
             PROVE  LET sent == seperate_to_vector(inbox[command[f]])
                    IN  IF i <= Len(sent)
                        THEN Command(f)[i] \in {sent[i], Garbled}
                        ELSE \E j \in 1 .. i : Command(f)[j] = Garbled
  BY DEF NoWordReplaced
<1> DEFINE s == inbox[command[f]]
           rest == Beyond(buffer, strlen(s))
<1>1. s \in Seq(Units) /\ s[Len(s)].end = NL /\ s # <<>>
  BY RequestedPeer DEF LoopInv, LoopTypeOK, WholeLines
<1>2. rest \in Seq(Units)
  BY <1>1, StrlenType, BeyondType DEF LoopInv, WholeLines
<1>3. Command(f) = seperate_to_vector(s \o rest)
  BY DEF Command, Received, recv
<1> HIDE DEF s, rest
<1>4. CASE rest = <<>>
  <2>1. s \o rest = s
    BY <1>1, <1>4
  <2>2. PICK words \in [0 .. Len(s) -> Seq(Words)] : seperate_to_vector(s) = words[Len(s)]
    BY <1>1, WordsDef
  <2>3. seperate_to_vector(s) \in Seq(Words)
    BY <1>1, <2>2
  <2>4. Command(f) = seperate_to_vector(s) /\ i <= Len(seperate_to_vector(s))
    BY <1>3, <2>1, <2>3
  <2> QED
    BY <2>4 DEF s
<1>5. CASE rest # <<>>
  <2>1. Spoilt(Command(f), seperate_to_vector(s))
    BY <1>1, <1>2, <1>3, <1>5, WordsBehind
  <2> QED
    BY <2>1 DEF Spoilt, s
<1> QED
  BY <1>4, <1>5

-----------------------------------------------------------------------------
(***************************************************************************)
(* Only the end of a client breaks its connections.                        *)
(***************************************************************************)

LEMMA RequestReplies ==
  ASSUME NEW f \in Fds, Request(f)
  PROVE  Requested(f) /\ (NoWord(f) \/ \E n, m : Replies(f, n, m))
<1>1. Requested(f)
  BY DEF Request, NoWord, Refused, User, Pass, Help, Quit, Cwd, Ls, Retr, Other
<1>2. NoWord(f) \/ \E n, m : Replies(f, n, m)
  BY DEF Request, Refused, User, Pass, Help, Quit, Cwd, Ls, Retr, Other
<1> QED
  BY <1>1, <1>2

LEMMA UnbrokenNext == LoopInv /\ [Next]_vars => Unbroken'
<1> SUFFICES ASSUME LoopInv, [Next]_vars, NEW p \in Peers, phase'[p] # "gone"
             PROVE  link'[p] = "open" /\ dataLink'[p] = "open"
  BY DEF Unbroken
<1>0. LoopTypeOK /\ Accepting
  BY DEF LoopInv
<1>1. phase[p] = "gone" \/ (link[p] = "open" /\ dataLink[p] = "open")
  BY DEF LoopInv, Unbroken
<1>2. CASE UNCHANGED <<phase, link, dataLink>>
  BY <1>1, <1>2
<1>3. ASSUME NEW q \in Peers, ConnectCommand(q) \/ ConnectData(q) \/ EndClient(q)
      PROVE  link'[p] = "open" /\ dataLink'[p] = "open"
  BY <1>0, <1>1, <1>3 DEF ConnectCommand, ConnectData, EndClient, LoopTypeOK
<1>4. CASE AcceptData
  <2>1. /\ UNCHANGED <<phase, dataLink>>
        /\ link' = [link EXCEPT ![command[command_fd]] = AfterSends(@, 2)]
    BY <1>4 DEF AcceptData
  <2> QED
    BY <1>0, <1>1, <2>1 DEF AfterSends, LoopTypeOK
<1>5. ASSUME NEW f \in Fds, Request(f)
      PROVE  link'[p] = "open" /\ dataLink'[p] = "open"
  <2>1. CASE NoWord(f)
    BY <1>1, <2>1 DEF NoWord, clients
  <2>2. ASSUME NEW n, NEW m, Replies(f, n, m)
        PROVE  link'[p] = "open" /\ dataLink'[p] = "open"
    <3> DEFINE c == command[f]
               q == data[fds_data[f]]
               lp == IF inbox[c] = <<>> THEN AfterError(link[c]) ELSE link[c]
    <3>1. /\ UNCHANGED phase
          /\ link' = [link EXCEPT ![c] = AfterSends(lp, n)]
          /\ dataLink' = [dataLink EXCEPT ![q] = AfterSends(@, m)]
      BY <2>2 DEF Replies
    <3>2. link[p] = "open" /\ dataLink[p] = "open"
      BY <1>1, <3>1
    <3>3. p = c => AfterSends(lp, n) = "open"
      BY <3>2 DEF AfterSends, AfterError
    <3>4. p = q => AfterSends(dataLink[q], m) = "open"
      BY <3>2 DEF AfterSends
    <3> HIDE DEF c, q, lp
    <3> QED
      BY <1>0, <3>1, <3>2, <3>3, <3>4 DEF LoopTypeOK
  <2> QED
    BY <1>5, <2>1, <2>2, RequestReplies
<1>6. ASSUME Select \/ AcceptCommand \/ (\E f \in Fds : EndOfFile(f)) \/ UNCHANGED vars
      PROVE  UNCHANGED <<phase, link, dataLink>>
  BY <1>6 DEF Select, AcceptCommand, EndOfFile, vars, clients
<1>7. ASSUME NEW q \in Peers, ReadReplies(q) \/ \E line \in Requests : SendLine(q, line)
      PROVE  UNCHANGED <<phase, link, dataLink>>
  BY <1>7 DEF ReadReplies, SendLine
<1>8. CASE SendPiece \/ EndSending
  BY <1>1, <1>8, SendingFrame DEF Sent
<1> QED
  BY <1>2, <1>3, <1>4, <1>5, <1>6, <1>7, <1>8 DEF Next, Server, Client

-----------------------------------------------------------------------------
(***************************************************************************)
(* What ends the server.                                                   *)
(***************************************************************************)

\* The vector of a request is empty in two cases only.
LEMMA NoWordWhy ==
  ASSUME LoopInv, NEW f \in Fds, Requested(f), Command(f) = <<>>
  PROVE  \/ Received(f) # <<>> /\ ~HasWord(Received(f))
         \/ Received(f) = <<>> /\ phase[command[f]] = "gone"
<1> DEFINE s == inbox[command[f]]
           text == Received(f)
<1>1. command[f] \in Peers /\ s \in Seq(Units)
  BY RequestedPeer DEF LoopInv, LoopTypeOK
<1>2. text \in Seq(Units)
  BY <1>1, RecvType DEF Received, LoopInv, WholeLines
<1>3. CASE text # <<>>
  <2>1. seperate_to_vector(text) = <<>>
    BY DEF Command
  <2> HIDE DEF text
  <2>2. ~HasWord(text)
    BY <1>2, <1>3, <2>1, SomeWord
  <2> QED
    BY <1>3, <2>2 DEF text
<1>4. CASE text = <<>>
  <2>1. s = <<>>
    <3> DEFINE rest == Beyond(buffer, strlen(s))
    <3>1. rest \in Seq(Units)
      BY <1>1, StrlenType, BeyondType DEF LoopInv, WholeLines
    <3>2. s \o rest = <<>>
      BY <1>4 DEF Received, recv
    <3> HIDE DEF s, rest
    <3> QED
      BY <1>1, <3>1, <3>2
  <2>2. link[command[f]] # "open"
    BY <2>1 DEF Requested, ReceiveError
  <2> QED
    BY <1>1, <1>4, <2>2 DEF LoopInv, Unbroken
<1> QED
  BY <1>3, <1>4

\* A message that ends the process was to a client that has ended, as the server
\* had been told.
LEMMA ToldBefore ==
  ASSUME NEW l \in Links, NEW n, ~Survives(l, n)
  PROVE  l # "open" /\ AfterSends(l, n) = "pipe"
BY DEF Survives, AfterSends

\* One that had been reset was no longer open.
LEMMA ErrorBefore ==
  ASSUME NEW l \in Links
  PROVE  AfterError(l) \in Links /\ (AfterError(l) # "open" => l # "open")
BY DEF AfterError, Links

LEMMA RepliesEnd ==
  ASSUME LoopInv, NEW f \in Fds, Requested(f), NEW n, NEW m, Replies(f, n, m), ~up'
  PROVE  EndsThreeWays'
<1> DEFINE p == command[f]
           q == data[fds_data[f]]
           lp == IF inbox[p] = <<>> THEN AfterError(link[p]) ELSE link[p]
<1>0. LoopTypeOK /\ Unbroken
  BY DEF LoopInv
<1>1. p \in Peers /\ f \in master_set
  BY RequestedPeer
<1>2. q \in Peers
  BY <1>0, <1>1 DEF LoopInv, DescriptorRoles, LoopTypeOK
<1>3. /\ up' = (Survives(lp, n) /\ Survives(dataLink[q], m))
      /\ link' = [link EXCEPT ![p] = AfterSends(lp, n)]
      /\ dataLink' = [dataLink EXCEPT ![q] = AfterSends(@, m)]
      /\ UNCHANGED phase
  BY DEF Replies
<1>4. /\ link[p] \in Links /\ dataLink[q] \in Links /\ lp \in Links
      /\ lp # "open" => link[p] # "open"
  BY <1>0, <1>1, <1>2, ErrorBefore DEF LoopTypeOK
<1> HIDE DEF p, q, lp
<1>5. /\ link'[p] = AfterSends(lp, n)
      /\ dataLink'[q] = AfterSends(dataLink[q], m)
  BY <1>0, <1>1, <1>2, <1>3 DEF LoopTypeOK
<1>6. CASE ~Survives(lp, n)
  <2>1. link'[p] = "pipe" /\ link[p] # "open"
    BY <1>4, <1>5, <1>6, ToldBefore
  <2>2. phase'[p] = "gone"
    BY <1>0, <1>1, <1>3, <2>1 DEF Unbroken
  <2> QED
    BY <1>1, <2>1, <2>2 DEF EndsThreeWays
<1>7. CASE ~Survives(dataLink[q], m)
  <2>1. dataLink'[q] = "pipe" /\ dataLink[q] # "open"
    BY <1>4, <1>5, <1>7, ToldBefore
  <2>2. phase'[q] = "gone"
    BY <1>0, <1>2, <1>3, <2>1 DEF Unbroken
  <2> QED
    BY <1>2, <2>1, <2>2 DEF EndsThreeWays
<1> QED
  BY <1>3, <1>6, <1>7

\* The same of the rest of a listing or a download.
LEMMA SendingEnds ==
  ASSUME LoopInv, SendPiece \/ EndSending, ~up'
  PROVE  EndsThreeWays'
<1> DEFINE p == command[sending]
           q == data[fds_data[sending]]
<1>0. LoopTypeOK /\ Unbroken
  BY DEF LoopInv
<1>1. p \in Peers /\ q \in Peers
  <2>1. sending # None
    BY DEF SendPiece, EndSending, Downloading
  <2> QED
    BY <2>1, SendingPeers
<1> HIDE DEF p, q
<1>2. CASE SendPiece
  <2>1. PICK m : /\ up' = Survives(dataLink[q], m)
                 /\ dataLink' = [dataLink EXCEPT ![q] = AfterSends(@, m)]
                 /\ UNCHANGED phase
    BY <1>2 DEF SendPiece, q
  <2>2. dataLink[q] \in Links /\ dataLink'[q] = AfterSends(dataLink[q], m)
    BY <1>0, <1>1, <2>1 DEF LoopTypeOK
  <2>3. dataLink'[q] = "pipe" /\ dataLink[q] # "open"
    BY <2>1, <2>2, ToldBefore
  <2>4. phase'[q] = "gone"
    BY <1>0, <1>1, <2>1, <2>3 DEF Unbroken
  <2> QED
    BY <1>1, <2>3, <2>4 DEF EndsThreeWays
<1>3. CASE EndSending
  <2>1. PICK n : /\ up' = Survives(link[p], n)
                 /\ link' = [link EXCEPT ![p] = AfterSends(@, n)]
                 /\ UNCHANGED phase
    BY <1>3 DEF EndSending, p
  <2>2. link[p] \in Links /\ link'[p] = AfterSends(link[p], n)
    BY <1>0, <1>1, <2>1 DEF LoopTypeOK
  <2>3. link'[p] = "pipe" /\ link[p] # "open"
    BY <2>1, <2>2, ToldBefore
  <2>4. phase'[p] = "gone"
    BY <1>0, <1>1, <2>1, <2>3 DEF Unbroken
  <2> QED
    BY <1>1, <2>3, <2>4 DEF EndsThreeWays
<1> QED
  BY <1>2, <1>3

LEMMA EndsNext ==
  ASSUME LoopInv, EndsThreeWays, [Next]_vars
  PROVE  EndsThreeWays'
<1>0. LoopTypeOK /\ Unbroken /\ Accepting
  BY DEF LoopInv
<1>1. SUFFICES ASSUME ~up'
               PROVE  EndsThreeWays'
  BY DEF EndsThreeWays
<1>2. CASE UNCHANGED vars
  BY <1>2 DEF EndsThreeWays, Received, vars, loop, kernel, clients
<1>3. ASSUME NEW f \in Fds, Request(f)
      PROVE  EndsThreeWays'
  <2>1. CASE NoWord(f)
    <3>1. Requested(f) /\ Command(f) = <<>> /\ UNCHANGED <<loop, buffer, kernel, clients>>
      BY <2>1 DEF NoWord
    <3>2. f \in working_set \ {server_fd} /\ \A g \in working_set : f <= g
      BY <3>1, EventLoopAssumption DEF Requested, Turn
    <3>3. /\ UNCHANGED <<working_set, phase, command>>
          /\ Received(f)' = Received(f)
      BY <3>1 DEF loop, kernel, clients, Received
    <3>4. \/ Received(f) # <<>> /\ ~HasWord(Received(f))
          \/ Received(f) = <<>> /\ phase[command[f]] = "gone"
      BY <3>1, NoWordWhy
    <3> DEFINE why(text, g) == (text # <<>> /\ ~HasWord(text)) \/ (text = <<>> /\ phase'[command'[g]] = "gone")
    <3>5. why(Received(f)', f)
      BY <3>3, <3>4
    <3>6. \E g \in working_set' \ {server_fd} : (\A h \in working_set' : g <= h) /\ why(Received(g)', g)
      <4> HIDE DEF why
      <4> QED
        BY <3>2, <3>3, <3>5
    <3> QED
      BY <3>6 DEF EndsThreeWays
  <2> QED
    BY <1>1, <1>3, <2>1, RequestReplies, RepliesEnd
<1>4. CASE AcceptData
  <2> DEFINE p == command[command_fd]
  <2>1. p \in Peers
    BY <1>0, <1>4 DEF AcceptData, Accepting, LoopTypeOK
  <2>2. /\ up' = Survives(link[p], 2) /\ link' = [link EXCEPT ![p] = AfterSends(@, 2)]
        /\ UNCHANGED phase
    BY <1>4 DEF AcceptData
  <2> HIDE DEF p
  <2>3. link[p] \in Links /\ link'[p] = AfterSends(link[p], 2)
    BY <1>0, <2>1, <2>2 DEF LoopTypeOK
  <2>4. link'[p] = "pipe" /\ link[p] # "open"
    BY <1>1, <2>2, <2>3, ToldBefore
  <2>5. phase'[p] = "gone"
    BY <1>0, <2>1, <2>2, <2>4 DEF Unbroken
  <2> QED
    BY <2>1, <2>4, <2>5 DEF EndsThreeWays
<1>5. CASE SendPiece \/ EndSending
  BY <1>1, <1>5, SendingEnds
<1>6. ASSUME Select \/ AcceptCommand \/ \E f \in Fds : EndOfFile(f)
      PROVE  FALSE
  BY <1>1, <1>6 DEF Select, AcceptCommand, EndOfFile, Turn
<1>7. ASSUME NEW p \in Peers, Client(p)
      PROVE  FALSE
  BY <1>1, <1>7 DEF Client, ConnectCommand, ConnectData, SendLine, ReadReplies, EndClient
<1> QED
  BY <1>2, <1>3, <1>4, <1>5, <1>6, <1>7 DEF Next, Server

-----------------------------------------------------------------------------
(***************************************************************************)
(* The two connections of a client find each other.                        *)
(***************************************************************************)

LEMMA InOrderAccept ==
  ASSUME LoopInv, InOrder, AcceptCommand \/ AcceptData
  PROVE  InOrder'
<1>0. LoopTypeOK /\ Accepting
  BY DEF LoopInv
<1>1. CASE AcceptCommand
  <2>1. PICK f \in Fds : /\ command' = [command EXCEPT ![f] = Head(backlog)]
                         /\ command_fd' = f
    BY <1>1 DEF AcceptCommand
  <2>2. backlog # <<>> /\ backlog \in Seq(Peers) /\ backlog' = Tail(backlog)
    BY <1>0, <1>1, SomeoneWaits DEF AcceptCommand, LoopTypeOK
  <2>3. command_fd' # None /\ command'[command_fd'] = Head(backlog)
    BY <1>0, <2>1, EventLoopAssumption DEF LoopTypeOK
  <2>4. command_fd = None
    BY <1>1 DEF AcceptCommand, Turn
  <2>5. Unpaired = backlog
    BY <2>2, <2>4 DEF Unpaired
  <2>6. Unpaired' = backlog
    <3>1. Unpaired' = <<Head(backlog)>> \o Tail(backlog)
      BY <2>2, <2>3 DEF Unpaired
    <3>2. <<Head(backlog)>> \o Tail(backlog) = backlog
      BY <2>2
    <3> QED
      BY <3>1, <3>2
  <2>7. UNCHANGED <<dataBacklog, phase>>
    BY <1>1 DEF AcceptCommand, clients
  <2> QED
    BY <2>5, <2>6, <2>7 DEF InOrder
<1>2. CASE AcceptData
  <2>1. /\ command_fd # None /\ dataBacklog # <<>>
        /\ dataBacklog' = Tail(dataBacklog) /\ command_fd' = None
        /\ UNCHANGED <<command, backlog, phase>>
    BY <1>2 DEF AcceptData
  <2> DEFINE c == command[command_fd]
  <2>2. c \in Peers /\ backlog \in Seq(Peers) /\ dataBacklog \in Seq(Peers)
    BY <1>0, <2>1 DEF Accepting, LoopTypeOK
  <2>3. Unpaired = <<c>> \o backlog
    BY <2>1 DEF Unpaired
  <2>4. Unpaired' = backlog
    BY <2>1, <2>2 DEF Unpaired
  <2> HIDE DEF c
  <2>5. Tail(<<c>> \o backlog) = backlog
    BY <2>2
  <2>6. ASSUME NEW p \in Peers
        PROVE  Tail(Append(dataBacklog, p)) = Append(Tail(dataBacklog), p)
    BY <2>1, <2>2
  <2> QED
    BY <2>1, <2>3, <2>4, <2>5, <2>6 DEF InOrder
<1> QED
  BY <1>1, <1>2

LEMMA InOrderConnect ==
  ASSUME OneAtATime, LoopInv, InOrder, NEW p \in Peers,
         ConnectCommand(p) \/ ConnectData(p) \/ EndClient(p)
  PROVE  InOrder'
<1>0. LoopTypeOK /\ Accepting
  BY DEF LoopInv
<1>1. CASE ConnectCommand(p)
  <2>1. /\ \A q \in Peers : phase[q] # "command"
        /\ phase' = [phase EXCEPT ![p] = "command"]
        /\ backlog' = Append(backlog, p)
        /\ UNCHANGED <<command_fd, command, dataBacklog>>
    BY <1>1 DEF ConnectCommand, OneAtATime, loop
  <2>2. Unpaired = dataBacklog
    BY <2>1 DEF InOrder
  <2> DEFINE first == IF command_fd = None THEN <<>> ELSE <<command[command_fd]>>
  <2>3. first \in Seq(Peers) /\ backlog \in Seq(Peers)
    <3>1. command_fd # None => command[command_fd] \in Peers
      BY <1>0 DEF LoopTypeOK, Accepting
    <3>2. first \in Seq(Peers)
      BY <3>1
    <3> QED
      BY <1>0, <3>2 DEF LoopTypeOK
  <2>4. Unpaired = first \o backlog /\ Unpaired' = first \o Append(backlog, p)
    BY <2>1 DEF Unpaired
  <2> HIDE DEF first
  <2>5. first \o Append(backlog, p) = Append(first \o backlog, p)
    BY <2>3
  <2>6. \A q \in Peers : phase'[q] = "command" <=> q = p
    BY <1>0, <2>1 DEF LoopTypeOK
  <2> QED
    BY <2>1, <2>2, <2>4, <2>5, <2>6 DEF InOrder
<1>2. CASE ConnectData(p)
  <2>1. /\ phase[p] = "command"
        /\ phase' = [phase EXCEPT ![p] = "both"]
        /\ dataBacklog' = Append(dataBacklog, p)
        /\ UNCHANGED <<command_fd, command, backlog>>
    BY <1>2 DEF ConnectData, loop
  <2>2. Unpaired = Append(dataBacklog, p) /\ \A q \in Peers : phase[q] = "command" <=> q = p
    BY <2>1 DEF InOrder
  <2>3. \A q \in Peers : phase'[q] # "command"
    BY <1>0, <2>1, <2>2 DEF LoopTypeOK
  <2> QED
    BY <2>1, <2>2, <2>3 DEF InOrder, Unpaired
<1>3. CASE EndClient(p)
  <2>1. /\ phase[p] = "both"
        /\ phase' = [phase EXCEPT ![p] = "gone"]
        /\ UNCHANGED <<command_fd, command, backlog, dataBacklog>>
    BY <1>3 DEF EndClient, OneAtATime, loop, kernel
  <2>2. \A q \in Peers : phase'[q] = "command" <=> phase[q] = "command"
    BY <1>0, <2>1 DEF LoopTypeOK
  <2> QED
    BY <2>1, <2>2 DEF InOrder, Unpaired
<1> QED
  BY <1>1, <1>2, <1>3

LEMMA InOrderNext ==
  ASSUME OneAtATime, LoopInv, InOrder, [Next]_vars
  PROVE  InOrder'
<1>1. CASE UNCHANGED <<command_fd, command, backlog, dataBacklog, phase>>
  BY <1>1 DEF InOrder, Unpaired
<1>2. ASSUME NEW f \in Fds, EndOfFile(f)
      PROVE  InOrder'
  <2>1. command_fd = None /\ UNCHANGED <<command_fd, backlog, dataBacklog, phase>>
    BY <1>2 DEF EndOfFile, Turn, clients
  <2>2. Unpaired' = Unpaired
    BY <2>1 DEF Unpaired
  <2> QED
    BY <2>1, <2>2 DEF InOrder
<1>3. ASSUME NEW f \in Fds, Request(f)
      PROVE  UNCHANGED <<command_fd, command, backlog, dataBacklog, phase>>
  BY <1>3, RequestFrame DEF Frame, kernel
<1>4. ASSUME Select \/ UNCHANGED vars
      PROVE  UNCHANGED <<command_fd, command, backlog, dataBacklog, phase>>
  BY <1>4 DEF Select, vars, loop, kernel, clients
<1>5. ASSUME NEW p \in Peers, ReadReplies(p) \/ \E line \in Requests : SendLine(p, line)
      PROVE  UNCHANGED <<command_fd, command, backlog, dataBacklog, phase>>
  BY <1>5 DEF ReadReplies, SendLine, loop, kernel
<1>6. ASSUME SendPiece \/ EndSending
      PROVE  UNCHANGED <<command_fd, command, backlog, dataBacklog, phase>>
  BY <1>6, SendingFrame DEF Sent, kernel
<1> QED
  BY <1>1, <1>2, <1>3, <1>4, <1>5, <1>6, InOrderAccept, InOrderConnect DEF Next, Server, Client

LEMMA PairedNext ==
  ASSUME LoopInv, InOrder, Paired, [Next]_vars
  PROVE  Paired'
<1> USE DEF Paired
<1>0. LoopTypeOK /\ Accepting /\ EveryClientWatched /\ DescriptorRoles
  BY DEF LoopInv
<1>1. CASE UNCHANGED <<master_set, command, data, fds_data>>
  BY <1>1
<1>2. CASE AcceptCommand
  <2>1. PICK f \in Fds : NextFd(f) /\ command' = [command EXCEPT ![f] = Head(backlog)]
    BY <1>2 DEF AcceptCommand
  <2>2. f \notin master_set
    BY <1>0, <2>1, NewDescriptor, EventLoopAssumption DEF EveryClientWatched
  <2>3. UNCHANGED <<master_set, data, fds_data>>
    BY <1>2 DEF AcceptCommand
  <2> QED
    BY <1>0, <2>1, <2>2, <2>3 DEF LoopTypeOK
<1>3. CASE AcceptData
  <2>1. PICK d \in Fds : /\ NextFd(d)
                         /\ data' = [data EXCEPT ![d] = Head(dataBacklog)]
                         /\ fds_data' = [fds_data EXCEPT ![command_fd] = d]
    BY <1>3 DEF AcceptData, set_fds_data
  <2>2. /\ UNCHANGED command
        /\ master_set' = master_set \cup {command_fd}
        /\ command_fd \in Fds /\ dataBacklog # <<>>
    BY <1>0, <1>3 DEF AcceptData, LoopTypeOK
  <2>3. Head(dataBacklog) = command[command_fd]
    <3> DEFINE c == command[command_fd]
    <3>1. c \in Peers /\ backlog \in Seq(Peers) /\ dataBacklog \in Seq(Peers)
      BY <1>0, <1>3 DEF AcceptData, Accepting, LoopTypeOK
    <3>2. Unpaired = <<c>> \o backlog
      BY <1>3 DEF AcceptData, Unpaired
    <3> HIDE DEF c
    <3>3. Head(<<c>> \o backlog) = c
      BY <3>1
    <3>4. \A p \in Peers : Head(Append(dataBacklog, p)) = Head(dataBacklog)
      BY <2>2, <3>1
    <3>5. c = Head(dataBacklog)
      BY <3>2, <3>3, <3>4 DEF InOrder
    <3> QED
      BY <3>5 DEF c
  <2>4. data[d] = None
    BY <2>1, NewDescriptor
  <2>5. \A f \in master_set \cap Fds : fds_data[f] # d
    BY <1>0, <2>4 DEF DescriptorRoles
  <2>6. ASSUME NEW f \in master_set' \cap Fds
        PROVE  data'[fds_data'[f]] = command'[f]
    <3>1. CASE f = command_fd
      BY <1>0, <2>1, <2>2, <2>3, <3>1 DEF LoopTypeOK
    <3>2. CASE f # command_fd
      <4>1. f \in master_set \cap Fds
        BY <2>2, <3>2
      <4> QED
        BY <1>0, <2>1, <2>2, <2>5, <3>2, <4>1 DEF LoopTypeOK
    <3> QED
      BY <3>1, <3>2
  <2> QED
    BY <2>6
<1>4. ASSUME NEW f \in Fds, EndOfFile(f)
      PROVE  Paired'
  BY <1>0, <1>4 DEF EndOfFile, LoopTypeOK
<1>5. ASSUME NEW f \in Fds, Request(f)
      PROVE  UNCHANGED <<master_set, command, data, fds_data>>
  BY <1>5, RequestFrame DEF Frame, kernel
<1>6. ASSUME NEW p \in Peers, Client(p)
      PROVE  UNCHANGED <<master_set, command, data, fds_data>>
  BY <1>6 DEF Client, ConnectCommand, ConnectData, SendLine, ReadReplies, EndClient,
              loop, kernel
<1>7. ASSUME Select \/ UNCHANGED vars
      PROVE  UNCHANGED <<master_set, command, data, fds_data>>
  BY <1>7 DEF Select, vars, loop, kernel
<1>8. ASSUME SendPiece \/ EndSending
      PROVE  UNCHANGED <<master_set, command, data, fds_data>>
  BY <1>8, SendingFrame DEF Sent, kernel
<1> QED
  BY <1>1, <1>2, <1>3, <1>4, <1>5, <1>6, <1>7, <1>8 DEF Next, Server

-----------------------------------------------------------------------------
(***************************************************************************)
(* The theorems.                                                           *)
(***************************************************************************)

LEMMA LoopInit == Init => LoopInv
<1> SUFFICES ASSUME Init PROVE LoopInv
  OBVIOUS
<1>1. LoopTypeOK
  BY TypeInit
<1>2. Scanning /\ Accepting /\ NoBlockingRead
  BY DEF Init, Scanning, Accepting, NoBlockingRead
<1>3. OneSocketEach
  BY EventLoopAssumption DEF Init, OneSocketEach
<1>4. EveryClientWatched
  BY EventLoopAssumption DEF Init, EveryClientWatched
<1>5. DescriptorRoles
  BY EventLoopAssumption DEF Init, DescriptorRoles
<1>6. WholeLines
  <2>1. <<>> \in Seq(Units)
    OBVIOUS
  <2> QED
    BY <2>1 DEF Init, WholeLines
<1>7. Unbroken /\ Serving
  BY DEF Init, Unbroken, Serving
<1> QED
  BY <1>1, <1>2, <1>3, <1>4, <1>5, <1>6, <1>7 DEF LoopInv

LEMMA LoopNext == LoopInv /\ [Next]_vars => LoopInv'
  BY TypeNext, ScanningNext, OneSocketNext, WatchedNext, RolesNext, NoBlockingNext,
     WholeLinesNext, UnbrokenNext, ServingNext
  DEF LoopInv

\* The invariant of the loop: it holds at first, and every step of the server
\* and of the clients keeps each of its parts.
THEOREM LoopCorrect == Spec => []LoopInv
  BY LoopInit, LoopNext, PTL DEF Spec

\* Every reachable state of the loop, the kernel and the clients is well typed.
THEOREM LoopTypeCorrect == Spec => []LoopTypeOK
  BY LoopCorrect, PTL DEF LoopInv

\* No descriptor is read, or accepted on, that has nothing to read or accept.
THEOREM NoBlockingCorrect == Spec => []NoBlockingRead
  BY LoopCorrect, PTL DEF LoopInv

\* Every connection that is open is watched, and no other.
THEOREM WatchedCorrect == Spec => []EveryClientWatched
  BY LoopCorrect, PTL DEF LoopInv

\* Command and data descriptors are never confused or shared.
THEOREM RolesCorrect == Spec => []DescriptorRoles
  BY LoopCorrect, PTL DEF LoopInv

\* Whatever earlier requests left in the shared buffer, of any lengths and in
\* any order, no word of a request is executed as another word.
THEOREM NoWordReplacedCorrect == Spec => []NoWordReplaced
  BY LoopCorrect, NoWordReplacedThen, PTL

\* Whatever any number of clients sends, and whenever they end, the server's process
\* ends in the three ways that EndsThreeWays names and in no other: while the
\* clients stay, only an empty line ends it.
THEOREM EndsCorrect == Spec => []EndsThreeWays
<1> DEFINE UpInv == LoopInv /\ EndsThreeWays
<1>1. Init => UpInv
  BY LoopInit DEF Init, EndsThreeWays
<1>2. UpInv /\ [Next]_vars => UpInv'
  BY LoopNext, EndsNext
<1> QED
  BY <1>1, <1>2, PTL DEF Spec

\* Where clients connect one at a time and to both ports, what a client asks for
\* on its command connection goes to its own data connection, however many
\* clients come and go and however descriptors are handed out again.
THEOREM PairedCorrect == OneAtATime => (Spec => []Paired)
<1> SUFFICES ASSUME OneAtATime PROVE Spec => []Paired
  OBVIOUS
<1> DEFINE PairInv == LoopInv /\ InOrder /\ Paired
<1>1. Init => PairInv
  <2> SUFFICES ASSUME Init PROVE PairInv
    OBVIOUS
  <2>1. Unpaired = dataBacklog
    <3>1. <<>> \o <<>> = <<>>
      OBVIOUS
    <3> QED
      BY <3>1 DEF Init, Unpaired
  <2>2. master_set \cap Fds = {}
    BY EventLoopAssumption DEF Init
  <2> QED
    BY LoopInit, <2>1, <2>2 DEF Init, InOrder, Paired
<1>2. PairInv /\ [Next]_vars => PairInv'
  BY LoopNext, InOrderNext, PairedNext
<1> QED
  BY <1>1, <1>2, PTL DEF Spec
=============================================================================
