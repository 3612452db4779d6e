---------------------------- MODULE JsonValueProofs ----------------------------
(***************************************************************************)
(* Proofs about a Value that an application changes, for all Values,       *)
(* names, paths and indices and all sequences of calls.  A Value is a      *)
(* function of paths; the lemmas say what each call does to the elements   *)
(* of a container, which is what the container promises something about.  *)
(***************************************************************************)
EXTENDS JsonValue, SequenceTheorems, Induction
LOCAL INSTANCE SequencesExt
LOCAL INSTANCE FiniteSetsExt

Keys == Seq(Int)
Routes == Seq(Keys)

-----------------------------------------------------------------------------
(***************************************************************************)
(* Paths.                                                                  *)
(***************************************************************************)
\* A path behind another one: what is behind it there.
LEMMA BehindOf ==
  ASSUME NEW K, NEW p \in Seq(K), NEW q \in Seq(K)
  PROVE  /\ p \o q \in Seq(K) /\ Len(p \o q) = Len(p) + Len(q)
         /\ SubSeq(p \o q, Len(p) + 1, Len(p \o q)) = q
         /\ IsPrefix(p, p \o q)
<1>1. /\ p \o q \in Seq(K) /\ Len(p \o q) = Len(p) + Len(q)
      /\ \A i \in 1 .. Len(p) + Len(q) : (p \o q)[i] = IF i <= Len(p) THEN p[i] ELSE q[i - Len(p)]
  BY ONLY p \in Seq(K), q \in Seq(K), ConcatProperties
<1>2. Len(p) \in Nat /\ Len(q) \in Nat
  BY LenProperties
<1> DEFINE r == p \o q
<1>3. SubSeq(r, Len(p) + 1, Len(r)) = q
  <2>1. \A i \in Len(p) + 1 .. Len(r) : r[i] \in K
    <3>1. \A i \in Len(p) + 1 .. Len(r) : i \in 1 .. Len(r)
      BY <1>1, <1>2
    <3> QED
      BY <1>1, <3>1, ElementOfSeq
  <2>2. Len(p) + 1 \in Int /\ Len(r) \in Int
    BY <1>1, <1>2
  <2> HIDE DEF r
  <2>3. /\ SubSeq(r, Len(p) + 1, Len(r)) \in Seq(K)
        /\ Len(SubSeq(r, Len(p) + 1, Len(r))) = IF Len(p) + 1 <= Len(r) THEN Len(r) - (Len(p) + 1) + 1 ELSE 0
        /\ \A i \in 1 .. Len(r) - (Len(p) + 1) + 1 :
               SubSeq(r, Len(p) + 1, Len(r))[i] = r[Len(p) + 1 + i - 1]
    BY ONLY <2>1, <2>2, SubSeqProperties
  <2>4. Len(SubSeq(r, Len(p) + 1, Len(r))) = Len(q)
    BY <1>1, <1>2, <2>3 DEF r
  <2>5. \A i \in 1 .. Len(q) : SubSeq(r, Len(p) + 1, Len(r))[i] = q[i]
    <3>1. ASSUME NEW i \in 1 .. Len(q)
          PROVE  SubSeq(r, Len(p) + 1, Len(r))[i] = q[i]
      <4>1. /\ i \in 1 .. Len(r) - (Len(p) + 1) + 1 /\ Len(p) + 1 + i - 1 = Len(p) + i
            /\ Len(p) + i \in 1 .. Len(p) + Len(q) /\ ~(Len(p) + i <= Len(p)) /\ Len(p) + i - Len(p) = i
        BY <1>1, <1>2 DEF r
      <4>2. r[Len(p) + i] = q[i]
        BY <1>1, <4>1 DEF r
      <4> QED
        BY <2>3, <4>1, <4>2
    <3> QED
      BY <3>1
  <2> QED
    BY ONLY <2>3, <2>4, <2>5, q \in Seq(K), SeqEqual
<1>4. SubSeq(p, 1, Len(p)) = SubSeq(r, 1, Len(p))
  <2>1. SubSeq(p, 1, Len(p)) = p
    BY SubSeqFull
  <2>2. \A i \in 1 .. Len(p) : r[i] = p[i]
    <3>1. \A i \in 1 .. Len(p) : i \in 1 .. Len(p) + Len(q) /\ i <= Len(p)
      BY <1>2
    <3> QED
      BY <1>1, <3>1
  <2>3. \A i \in 1 .. Len(p) : p[i] \in K
    BY ElementOfSeq
  <2> HIDE DEF r
  <2>4. /\ SubSeq(r, 1, Len(p)) \in Seq(K)
        /\ Len(SubSeq(r, 1, Len(p))) = IF 1 <= Len(p) THEN Len(p) - 1 + 1 ELSE 0
        /\ \A i \in 1 .. Len(p) - 1 + 1 : SubSeq(r, 1, Len(p))[i] = r[1 + i - 1]
    <3>1. \A i \in 1 .. Len(p) : r[i] \in K
      BY <2>2, <2>3
    <3> QED
      BY ONLY <3>1, <1>2, 1 \in Int, Len(p) \in Int, SubSeqProperties
  <2>5. Len(SubSeq(r, 1, Len(p))) = Len(p)
    BY <1>2, <2>4
  <2>6. \A i \in 1 .. Len(p) : SubSeq(r, 1, Len(p))[i] = p[i]
    <3>1. \A i \in 1 .. Len(p) : i \in 1 .. Len(p) - 1 + 1 /\ 1 + i - 1 = i
      BY <1>2
    <3> QED
      BY <2>2, <2>4, <3>1
  <2>7. SubSeq(r, 1, Len(p)) = p
    BY ONLY <2>4, <2>5, <2>6, p \in Seq(K), SeqEqual
  <2> QED
    BY <2>1, <2>7
<1> HIDE DEF r
<1> QED
  BY <1>1, <1>2, <1>3, <1>4 DEF r, IsPrefix

\* A path begins with another one just when it is one behind it.
LEMMA PrefixIffBehind ==
  ASSUME NEW K, NEW p \in Seq(K), NEW r \in Seq(K)
  PROVE  /\ IsPrefix(p, r) => /\ SubSeq(r, Len(p) + 1, Len(r)) \in Seq(K)
                              /\ r = p \o SubSeq(r, Len(p) + 1, Len(r))
         /\ IsPrefix(p, r) <=> \E q \in Seq(K) : r = p \o q
<1>1. ASSUME IsPrefix(p, r)
      PROVE  /\ SubSeq(r, Len(p) + 1, Len(r)) \in Seq(K)
             /\ r = p \o SubSeq(r, Len(p) + 1, Len(r))
  <2>1. Len(p) \in Nat /\ Len(r) \in Nat
    BY LenProperties
  <2>2. Len(p) <= Len(r) /\ SubSeq(p, 1, Len(p)) = SubSeq(r, 1, Len(p))
    BY <1>1 DEF IsPrefix
  <2>3. SubSeq(p, 1, Len(p)) = p /\ SubSeq(r, 1, Len(r)) = r
    BY SubSeqFull
  <2> DEFINE rest == SubSeq(r, Len(p) + 1, Len(r))
  <2>4. rest \in Seq(K)
    <3>1. \A i \in Len(p) + 1 .. Len(r) : r[i] \in K
      <4>1. \A i \in Len(p) + 1 .. Len(r) : i \in 1 .. Len(r)
        BY <2>1
      <4> QED
        BY <4>1, ElementOfSeq
    <3>2. Len(p) + 1 \in Int /\ Len(r) \in Int
      BY <2>1
    <3> QED
      BY ONLY <3>1, <3>2, SubSeqProperties
  <2>5. SubSeq(r, 1, Len(p)) \o rest = SubSeq(r, 1, Len(r))
    <3>1. 1 \in 1 .. Len(r) + 1 /\ Len(p) \in 1 - 1 .. Len(r) /\ Len(r) \in Len(p) .. Len(r)
      BY <2>1, <2>2
    <3> QED
      BY <2>1, <3>1, ConcatAdjacentSubSeq
  <2> HIDE DEF rest
  <2> QED
    BY <2>2, <2>3, <2>4, <2>5 DEF rest
<1>2. ASSUME NEW q \in Seq(K), r = p \o q
      PROVE  IsPrefix(p, r)
  BY <1>2, BehindOf
<1> QED
  BY <1>1, <1>2

LEMMA RouteBehind ==
  ASSUME NEW p \in Routes, NEW r \in Routes
  PROVE  IsPrefix(p, r) <=> \E q \in Routes : r = p \o q
BY PrefixIffBehind DEF Routes

\* The last key of a path, and what is in front of it.
LEMMA LastOf ==
  ASSUME NEW K, NEW p \in Seq(K), NEW k \in K
  PROVE  /\ <<k>> \in Seq(K) /\ p \o <<k>> \in Seq(K) /\ p \o <<k>> # <<>>
         /\ Append(p, k) = p \o <<k>>
         /\ Front(p \o <<k>>) = p /\ Last(p \o <<k>>) = k
         /\ Len(p \o <<k>>) = Len(p) + 1
<1>1. /\ Append(p, k) \in Seq(K) /\ Append(p, k) # <<>> /\ Len(Append(p, k)) = Len(p) + 1
      /\ \A i \in 1 .. Len(p) : Append(p, k)[i] = p[i]
      /\ Append(p, k)[Len(p) + 1] = k
  BY ONLY p \in Seq(K), k \in K, AppendProperties
<1>2. Append(p, k) = p \o <<k>>
  BY AppendIsConcat
<1>3. <<k>> \in Seq(K)
  OBVIOUS
<1>4. Len(p) \in Nat
  BY LenProperties
<1> DEFINE r == Append(p, k)
<1>5. Front(r) = p
  <2>1. \A i \in 1 .. Len(p) : r[i] \in K
    BY <1>1, ElementOfSeq
  <2> HIDE DEF r
  <2>2. /\ SubSeq(r, 1, Len(p)) \in Seq(K)
        /\ Len(SubSeq(r, 1, Len(p))) = IF 1 <= Len(p) THEN Len(p) - 1 + 1 ELSE 0
        /\ \A i \in 1 .. Len(p) - 1 + 1 : SubSeq(r, 1, Len(p))[i] = r[1 + i - 1]
    BY ONLY <2>1, <1>4, 1 \in Int, Len(p) \in Int, SubSeqProperties
  <2>3. Len(SubSeq(r, 1, Len(p))) = Len(p)
    BY <1>4, <2>2
  <2>4. \A i \in 1 .. Len(p) : SubSeq(r, 1, Len(p))[i] = p[i]
    <3>1. \A i \in 1 .. Len(p) : i \in 1 .. Len(p) - 1 + 1 /\ 1 + i - 1 = i
      BY <1>4
    <3> QED
      BY <1>1, <2>2, <3>1 DEF r
  <2>5. SubSeq(r, 1, Len(p)) = p
    BY ONLY <2>2, <2>3, <2>4, p \in Seq(K), SeqEqual
  <2>6. Len(r) - 1 = Len(p)
    BY <1>1, <1>4 DEF r
  <2> QED
    BY <2>5, <2>6 DEF Front
<1>6. Last(r) = k
  BY <1>1 DEF Last
<1> HIDE DEF r
<1> QED
  BY <1>1, <1>2, <1>3, <1>5, <1>6 DEF r

\* A path that is not empty has a last key.
LEMMA HasLast ==
  ASSUME NEW K, NEW p \in Seq(K), p # <<>>
  PROVE  Front(p) \in Seq(K) /\ Last(p) \in K /\ p = Front(p) \o <<Last(p)>>
<1>1. PICK s \in Seq(K), k \in K : p = Append(s, k)
  BY SequenceEmptyOrAppend
<1>2. Append(s, k) = s \o <<k>> /\ Front(s \o <<k>>) = s /\ Last(s \o <<k>>) = k
  BY LastOf
<1>3. Front(p) = s /\ Last(p) = k
  BY <1>1, <1>2
<1> QED
  BY <1>1, <1>2, <1>3

\* So has one behind another, if it is not empty.
LEMMA LastBehind ==
  ASSUME NEW K, NEW p \in Seq(K), NEW q \in Seq(K), q # <<>>
  PROVE  Front(p \o q) = p \o Front(q) /\ Last(p \o q) = Last(q)
<1>1. Front(q) \in Seq(K) /\ Last(q) \in K /\ q = Front(q) \o <<Last(q)>> /\ <<Last(q)>> \in Seq(K)
  BY HasLast, LastOf
<1> DEFINE f == Front(q)
           k == Last(q)
<1> HIDE DEF f, k
<1>2. f \in Seq(K) /\ k \in K /\ q = f \o <<k>> /\ <<k>> \in Seq(K)
  BY <1>1 DEF f, k
<1>3. p \o q = (p \o f) \o <<k>>
  BY ONLY <1>2, p \in Seq(K), ConcatAssociative
<1>4. p \o f \in Seq(K)
  BY <1>2, BehindOf
<1> DEFINE s == p \o f
<1> HIDE DEF s
<1>5. Front(s \o <<k>>) = s /\ Last(s \o <<k>>) = k
  <2>1. s \in Seq(K) /\ k \in K
    BY <1>2, <1>4 DEF s
  <2> QED
    BY ONLY <2>1, LastOf
<1> QED
  BY <1>3, <1>5 DEF s, f, k

\* A path that is not empty has a first key.
LEMMA HasFirst ==
  ASSUME NEW K, NEW p \in Seq(K), p # <<>>
  PROVE  /\ p[1] \in K /\ Tail(p) \in Seq(K) /\ p = <<p[1]>> \o Tail(p)
<1>1. /\ Head(p) \in K /\ Tail(p) \in Seq(K)
  BY HeadTailProperties
<1>2. Head(p) = p[1]
  OBVIOUS
<1>3. Len(p) \in Nat /\ Len(p) # 0
  BY LenProperties, EmptySeq
<1> DEFINE k == p[1]
           t == Tail(p)
<1>4. /\ <<k>> \in Seq(K) /\ Len(<<k>>) = 1 /\ <<k>>[1] = k
  BY <1>1, <1>2
<1>5. /\ t \in Seq(K) /\ Len(t) = Len(p) - 1 /\ \A i \in 1 .. Len(t) : t[i] = p[i + 1]
  BY HeadTailProperties
<1> HIDE DEF k, t
<1>6. /\ <<k>> \o t \in Seq(K) /\ Len(<<k>> \o t) = Len(<<k>>) + Len(t)
      /\ \A i \in 1 .. Len(<<k>>) + Len(t) :
             (<<k>> \o t)[i] = IF i <= Len(<<k>>) THEN <<k>>[i] ELSE t[i - Len(<<k>>)]
  BY ONLY <1>4, <1>5, ConcatProperties
<1>7. \A i \in 1 .. Len(p) : (<<k>> \o t)[i] = p[i]
  <2>1. ASSUME NEW i \in 1 .. Len(p)
        PROVE  (<<k>> \o t)[i] = p[i]
    <3>1. i \in 1 .. Len(<<k>>) + Len(t)
      BY <1>3, <1>4, <1>5
    <3>2. CASE i = 1
      BY <1>4, <1>6, <3>1, <3>2 DEF k
    <3>3. CASE i # 1
      <4>1. i - 1 \in 1 .. Len(t) /\ ~(i <= 1) /\ (i - 1) + 1 = i
        BY <1>3, <1>5, <3>3
      <4>2. t[i - 1] = p[i]
        BY <1>5, <4>1
      <4> QED
        BY <1>4, <1>6, <3>1, <4>1, <4>2
    <3> QED
      BY <3>2, <3>3
  <2> QED
    BY <2>1
<1>8. Len(<<k>> \o t) = Len(p)
  BY <1>3, <1>4, <1>5, <1>6
<1>9. <<k>> \o t = p
  BY ONLY <1>6, <1>7, <1>8, p \in Seq(K), SeqEqual
<1> QED
  BY <1>1, <1>2, <1>9 DEF k, t

\* The first key of a path that begins with it.
LEMMA FirstOf ==
  ASSUME NEW K, NEW k \in K, NEW q \in Seq(K)
  PROVE  /\ <<k>> \in Seq(K) /\ <<k>> \o q \in Seq(K) /\ <<k>> \o q # <<>>
         /\ (<<k>> \o q)[1] = k
<1>1. <<k>> \in Seq(K) /\ Len(<<k>>) = 1 /\ <<k>>[1] = k
  OBVIOUS
<1> DEFINE s == <<k>>
<1>2. Len(q) \in Nat
  BY LenProperties
<1> HIDE DEF s
<1>3. /\ s \o q \in Seq(K) /\ Len(s \o q) = Len(s) + Len(q)
      /\ \A i \in 1 .. Len(s) + Len(q) : (s \o q)[i] = IF i <= Len(s) THEN s[i] ELSE q[i - Len(s)]
  <2>1. s \in Seq(K)
    BY <1>1 DEF s
  <2> QED
    BY ONLY <2>1, q \in Seq(K), ConcatProperties
<1>4. Len(s) = 1 /\ s[1] = k
  BY <1>1 DEF s
<1>5. (s \o q)[1] = k
  <2>1. 1 \in 1 .. Len(s) + Len(q) /\ 1 <= Len(s)
    BY <1>2, <1>4
  <2> QED
    BY <1>3, <1>4, <2>1
<1>6. s \o q # <<>>
  <2>1. Len(s \o q) # 0
    BY <1>2, <1>3, <1>4
  <2> QED
    BY <1>3, <2>1, EmptySeq
<1> QED
  BY <1>1, <1>3, <1>5, <1>6 DEF s
-----------------------------------------------------------------------------
(***************************************************************************)
(* Values as functions of paths.                                           *)
(***************************************************************************)
GoodNode(n) == IsPayload(n.type, n.val) /\ n = [field \in DOMAIN Null |-> n[field]]

\* A Value, by the last keys of its paths.
Shaped(v) ==
    /\ <<>> \in DOMAIN v /\ IsFiniteSet(DOMAIN v) /\ DOMAIN v \subseteq Routes
    /\ v = [p \in DOMAIN v |-> v[p]]
    /\ \A p \in DOMAIN v : GoodNode(v[p])
    /\ \A q \in Routes, k \in Keys :
           q \o <<k>> \in DOMAIN v => q \in DOMAIN v /\ IsKey(v[q].type, k)

LEMMA ValueIsShaped ==
  ASSUME NEW v
  PROVE  IsValue(v) <=> Shaped(v)
<1>1. ASSUME IsValue(v)
      PROVE  Shaped(v)
  <2>1. /\ <<>> \in DOMAIN v /\ IsFiniteSet(DOMAIN v) /\ DOMAIN v \subseteq Routes
        /\ v = [p \in DOMAIN v |-> v[p]]
        /\ \A p \in DOMAIN v : GoodNode(v[p])
    BY <1>1 DEF IsValue, IsTree, Routes, Keys, GoodNode
  <2>2. ASSUME NEW q \in Routes, NEW k \in Keys, q \o <<k>> \in DOMAIN v
        PROVE  q \in DOMAIN v /\ IsKey(v[q].type, k)
    <3>1. q \o <<k>> # <<>> /\ Front(q \o <<k>>) = q /\ Last(q \o <<k>>) = k
      BY LastOf DEF Routes
    <3> DEFINE p == q \o <<k>>
    <3> HIDE DEF p
    <3>2. p \in DOMAIN v \ {<<>>} /\ Front(p) = q /\ Last(p) = k
      BY <2>2, <3>1 DEF p
    <3> QED
      BY <1>1, <3>2 DEF IsValue
  <2> QED
    BY <2>1, <2>2 DEF Shaped
<1>2. ASSUME Shaped(v)
      PROVE  IsValue(v)
  <2>1. IsTree(v)
    BY <1>2 DEF Shaped, IsTree, Routes, Keys, GoodNode
  <2>2. ASSUME NEW p \in DOMAIN v \ {<<>>}
        PROVE  Front(p) \in DOMAIN v /\ IsKey(v[Front(p)].type, Last(p))
    <3>1. p \in Routes
      BY <1>2 DEF Shaped
    <3>2. Front(p) \in Routes /\ Last(p) \in Keys /\ p = Front(p) \o <<Last(p)>>
      BY <3>1, HasLast DEF Routes
    <3> DEFINE q == Front(p)
               k == Last(p)
    <3> HIDE DEF q, k
    <3>3. q \in Routes /\ k \in Keys /\ q \o <<k>> \in DOMAIN v
      BY <3>2 DEF q, k
    <3>4. q \in DOMAIN v /\ IsKey(v[q].type, k)
      BY <1>2, <3>3 DEF Shaped
    <3> QED
      BY <3>4 DEF q, k
  <2>3. v = [p \in DOMAIN v |-> v[p]]
    BY <1>2 DEF Shaped
  <2>4. \A p \in DOMAIN v : v[p] = [field \in DOMAIN Null |-> v[p][field]]
    BY <1>2 DEF Shaped, GoodNode
  <2> QED
    BY <2>1, <2>2, <2>3, <2>4 DEF IsValue
<1> QED
  BY <1>1, <1>2

\* Two functions that have the same values are one.
LEMMA SameFunction ==
  ASSUME NEW f, NEW g, f = [x \in DOMAIN f |-> f[x]], g = [x \in DOMAIN g |-> g[x]],
         DOMAIN f = DOMAIN g, \A x \in DOMAIN f : f[x] = g[x]
  PROVE  f = g
OBVIOUS

\* What is below a path of a Value.
LEMMA SubtreeAt ==
  ASSUME NEW v, DOMAIN v \subseteq Routes, NEW p \in Routes
  PROVE  /\ DOMAIN Subtree(v, p) = {q \in Routes : p \o q \in DOMAIN v}
         /\ \A q \in Routes : p \o q \in DOMAIN v => Subtree(v, p)[q] = v[p \o q]
         /\ Subtree(v, p) = [q \in DOMAIN Subtree(v, p) |-> Subtree(v, p)[q]]
<1> DEFINE D == {SubSeq(q, Len(p) + 1, Len(q)) : q \in {r \in DOMAIN v : IsPrefix(p, r)}}
           sub == [q \in D |-> v[p \o q]]
<1>1. Subtree(v, p) = sub
  BY DEF Subtree
<1>2. D = {q \in Routes : p \o q \in DOMAIN v}
  <2>1. ASSUME NEW r \in DOMAIN v, IsPrefix(p, r)
        PROVE  /\ SubSeq(r, Len(p) + 1, Len(r)) \in Routes
               /\ p \o SubSeq(r, Len(p) + 1, Len(r)) \in DOMAIN v
    <3>1. r \in Routes
      OBVIOUS
    <3>2. SubSeq(r, Len(p) + 1, Len(r)) \in Routes /\ r = p \o SubSeq(r, Len(p) + 1, Len(r))
      BY <2>1, <3>1, PrefixIffBehind DEF Routes
    <3> QED
      BY <3>2
  <2>2. ASSUME NEW q \in Routes, p \o q \in DOMAIN v
        PROVE  q \in D
    <3>1. IsPrefix(p, p \o q) /\ SubSeq(p \o q, Len(p) + 1, Len(p \o q)) = q
      BY BehindOf DEF Routes
    <3> DEFINE r == p \o q
    <3> HIDE DEF r
    <3>2. r \in DOMAIN v /\ IsPrefix(p, r) /\ SubSeq(r, Len(p) + 1, Len(r)) = q
      BY <2>2, <3>1 DEF r
    <3> QED
      BY <3>2
  <2>3. ASSUME NEW q \in D
        PROVE  q \in Routes /\ p \o q \in DOMAIN v
    BY <2>1
  <2> HIDE DEF D
  <2> QED
    BY <2>2, <2>3
<1>3. DOMAIN sub = D /\ \A q \in D : sub[q] = v[p \o q]
  OBVIOUS
<1>4. sub = [q \in DOMAIN sub |-> sub[q]]
  OBVIOUS
<1> HIDE DEF D, sub
<1> QED
  BY <1>1, <1>2, <1>3, <1>4

\* A Value that is put into another one.
LEMMA PutAt ==
  ASSUME NEW v, DOMAIN v \subseteq Routes, NEW p \in Routes, NEW x, DOMAIN x \subseteq Routes
  PROVE  /\ DOMAIN Put(v, p, x) \subseteq Routes
         /\ \A q \in Routes : p \o q \in DOMAIN Put(v, p, x) <=> q \in DOMAIN x
         /\ \A q \in DOMAIN x : Put(v, p, x)[p \o q] = x[q]
         /\ \A r \in Routes : ~IsPrefix(p, r) => (r \in DOMAIN Put(v, p, x) <=> r \in DOMAIN v)
         /\ \A r \in DOMAIN v : ~IsPrefix(p, r) => Put(v, p, x)[r] = v[r]
         /\ Put(v, p, x) = [r \in DOMAIN Put(v, p, x) |-> Put(v, p, x)[r]]
<1> DEFINE D == {q \in DOMAIN v : ~IsPrefix(p, q)} \cup {p \o q : q \in DOMAIN x}
           put == [r \in D |-> IF IsPrefix(p, r) THEN x[SubSeq(r, Len(p) + 1, Len(r))] ELSE v[r]]
<1>1. Put(v, p, x) = put
  BY DEF Put
<1>2. /\ DOMAIN put = D /\ put = [r \in DOMAIN put |-> put[r]]
      /\ \A r \in D : put[r] = IF IsPrefix(p, r) THEN x[SubSeq(r, Len(p) + 1, Len(r))] ELSE v[r]
  OBVIOUS
<1>3. \A q \in Routes : /\ p \o q \in Routes /\ IsPrefix(p, p \o q)
                        /\ SubSeq(p \o q, Len(p) + 1, Len(p \o q)) = q
  BY BehindOf DEF Routes
<1>4. D \subseteq Routes
  <2>1. \A q \in DOMAIN x : p \o q \in Routes
    BY <1>3
  <2> QED
    BY <2>1
<1>5. ASSUME NEW q \in Routes
      PROVE  p \o q \in D <=> q \in DOMAIN x
  <2>1. ASSUME p \o q \in D
        PROVE  q \in DOMAIN x
    <3>1. IsPrefix(p, p \o q)
      BY <1>3
    <3>2. PICK s \in DOMAIN x : p \o q = p \o s
      BY <2>1, <3>1
    <3>3. s \in Routes
      OBVIOUS
    <3>4. q = s
      BY <3>2, <3>3, ConcatSimplifications DEF Routes
    <3> QED
      BY <3>4
  <2> QED
    BY <2>1
<1>6. ASSUME NEW q \in DOMAIN x
      PROVE  put[p \o q] = x[q]
  <2>1. p \o q \in D
    OBVIOUS
  <2>2. q \in Routes
    OBVIOUS
  <2>3. IsPrefix(p, p \o q) /\ SubSeq(p \o q, Len(p) + 1, Len(p \o q)) = q
    BY <1>3, <2>2
  <2> HIDE DEF D, put
  <2> QED
    BY <1>2, <2>1, <2>3
<1>7. ASSUME NEW r \in Routes, ~IsPrefix(p, r)
      PROVE  r \in D <=> r \in DOMAIN v
  <2>1. ASSUME r \in D
        PROVE  r \in DOMAIN v
    <3>1. \A q \in DOMAIN x : IsPrefix(p, p \o q)
      BY <1>3
    <3> QED
      BY <1>7, <2>1, <3>1
  <2> QED
    BY <1>7, <2>1
<1>8. ASSUME NEW r \in DOMAIN v, ~IsPrefix(p, r)
      PROVE  put[r] = v[r]
  <2>1. r \in D
    BY <1>8
  <2> HIDE DEF D, put
  <2> QED
    BY <1>2, <1>8, <2>1
<1> HIDE DEF D, put
<1> QED
  BY <1>1, <1>2, <1>4, <1>5, <1>6, <1>7, <1>8

\* What is below a path of a Value is one.
LEMMA SubtreeIsValue ==
  ASSUME NEW v, IsValue(v), NEW p \in DOMAIN v
  PROVE  IsValue(Subtree(v, p))
<1>1. Shaped(v)
  BY ValueIsShaped
<1>2. p \in Routes /\ DOMAIN v \subseteq Routes
  BY <1>1 DEF Shaped
<1> DEFINE w == Subtree(v, p)
<1>3. /\ DOMAIN w = {q \in Routes : p \o q \in DOMAIN v}
      /\ \A q \in Routes : p \o q \in DOMAIN v => w[q] = v[p \o q]
      /\ w = [q \in DOMAIN w |-> w[q]]
  BY <1>2, SubtreeAt
<1> HIDE DEF w
<1>4. <<>> \in DOMAIN w
  <2>1. p \o <<>> = p /\ <<>> \in Routes
    BY <1>2, ConcatEmptySeq, EmptySeq DEF Routes
  <2> QED
    BY <1>3, <2>1
<1>5. IsFiniteSet(DOMAIN w)
  <2> DEFINE f == [q \in DOMAIN w |-> p \o q]
  <2>1. f \in [DOMAIN w -> DOMAIN v]
    BY <1>3
  <2>2. \A q, r \in DOMAIN w : f[q] = f[r] => q = r
    <3>1. \A q, r \in Routes : p \o q = p \o r => q = r
      <4>1. \A S : \A s, t, u \in Seq(S) : s \o t = s \o u => t = u
        BY ConcatSimplifications
      <4>2. \A s, t, u \in Seq(Keys) : s \o t = s \o u => t = u
        BY ONLY <4>1
      <4>3. p \in Seq(Keys)
        BY <1>2 DEF Routes
      <4>4. \A q, r \in Seq(Keys) : p \o q = p \o r => q = r
        BY ONLY <4>2, <4>3
      <4> QED
        BY <4>4 DEF Routes
    <3>2. DOMAIN w \subseteq Routes /\ \A q \in DOMAIN w : f[q] = p \o q
      BY <1>3
    <3> HIDE DEF f
    <3> QED
      BY <3>1, <3>2
  <2>3. IsFiniteSet(DOMAIN v)
    BY <1>1 DEF Shaped
  <2> HIDE DEF f
  <2> QED
    BY <2>1, <2>2, <2>3, FiniteByInjection
<1>6. \A q \in DOMAIN w : GoodNode(w[q])
  BY <1>1, <1>3 DEF Shaped
<1>7. ASSUME NEW q \in Routes, NEW k \in Keys, q \o <<k>> \in DOMAIN w
      PROVE  q \in DOMAIN w /\ IsKey(w[q].type, k)
  <2>1. p \o (q \o <<k>>) \in DOMAIN v
    BY <1>3, <1>7
  <2>2. <<k>> \in Routes
    BY <1>2, LastOf DEF Routes
  <2>3. p \o (q \o <<k>>) = (p \o q) \o <<k>>
    BY <1>2, <2>2, ConcatAssociative DEF Routes
  <2>4. p \o q \in Routes
    BY <1>2, BehindOf DEF Routes
  <2>5. p \o q \in DOMAIN v /\ IsKey(v[p \o q].type, k)
    BY <1>1, <2>1, <2>3, <2>4 DEF Shaped
  <2> QED
    BY <1>3, <2>5
<1>8. Shaped(w)
  BY <1>3, <1>4, <1>5, <1>6, <1>7 DEF Shaped
<1> QED
  BY <1>8, ValueIsShaped DEF w

\* A Value put into another one, in the place of one or with a key of its kind for it.
Fits(v, p) ==
    \/ p \in DOMAIN v
    \/ \E q \in Routes, k \in Keys : q \in DOMAIN v /\ IsKey(v[q].type, k) /\ p = q \o <<k>>

LEMMA PutIsValue ==
  ASSUME NEW v, IsValue(v), NEW p \in Routes, Fits(v, p), NEW x, IsValue(x)
  PROVE  IsValue(Put(v, p, x))
<1>1. Shaped(v) /\ Shaped(x)
  BY ValueIsShaped
<1>2. DOMAIN v \subseteq Routes /\ DOMAIN x \subseteq Routes
  BY <1>1 DEF Shaped
<1> DEFINE w == Put(v, p, x)
<1>3. /\ DOMAIN w \subseteq Routes
      /\ \A q \in Routes : p \o q \in DOMAIN w <=> q \in DOMAIN x
      /\ \A q \in DOMAIN x : w[p \o q] = x[q]
      /\ \A r \in Routes : ~IsPrefix(p, r) => (r \in DOMAIN w <=> r \in DOMAIN v)
      /\ \A r \in DOMAIN v : ~IsPrefix(p, r) => w[r] = v[r]
      /\ w = [r \in DOMAIN w |-> w[r]]
  BY <1>2, PutAt
<1> HIDE DEF w
<1>4. ASSUME NEW r \in Routes, IsPrefix(p, r)
      PROVE  \E q \in Routes : r = p \o q
  BY <1>4, PrefixIffBehind DEF Routes
<1>5. \A q \in Routes : p \o q \in Routes /\ IsPrefix(p, p \o q)
  BY BehindOf DEF Routes
<1>6. IsFiniteSet(DOMAIN w)
  <2> DEFINE f == [q \in DOMAIN x |-> p \o q]
             A == {f[q] : q \in DOMAIN x}
  <2>1. IsFiniteSet(DOMAIN x) /\ IsFiniteSet(DOMAIN v)
    BY <1>1 DEF Shaped
  <2>2. A = {p \o q : q \in DOMAIN x}
    OBVIOUS
  <2> HIDE DEF f
  <2>3. IsFiniteSet(A)
    BY <2>1, FiniteImage
  <2> HIDE DEF A
  <2>4. IsFiniteSet(A \cup DOMAIN v)
    BY <2>1, <2>3, FiniteUnion
  <2>5. DOMAIN w \subseteq A \cup DOMAIN v
    <3>1. ASSUME NEW r \in DOMAIN w
          PROVE  r \in A \cup DOMAIN v
      <4>1. CASE IsPrefix(p, r)
        BY <1>3, <1>4, <2>2, <4>1
      <4>2. CASE ~IsPrefix(p, r)
        BY <1>3, <4>2
      <4> QED
        BY <4>1, <4>2
    <3> QED
      BY <3>1
  <2> QED
    BY <2>4, <2>5, FinitePart
<1>7. ASSUME NEW r \in DOMAIN w
      PROVE  GoodNode(w[r])
  <2>1. CASE IsPrefix(p, r)
    <3>1. PICK q \in Routes : r = p \o q
      BY <1>3, <1>4, <2>1
    <3>2. q \in DOMAIN x /\ w[r] = x[q]
      BY <1>3, <3>1
    <3> QED
      BY <1>1, <3>2 DEF Shaped
  <2>2. CASE ~IsPrefix(p, r)
    <3>1. r \in DOMAIN v /\ w[r] = v[r]
      BY <1>3, <2>2
    <3> QED
      BY <1>1, <3>1 DEF Shaped
  <2> QED
    BY <2>1, <2>2
<1>8. ASSUME NEW r \in Routes, NEW k \in Keys, r \o <<k>> \in DOMAIN w
      PROVE  r \in DOMAIN w /\ IsKey(w[r].type, k)
  <2>1. r \o <<k>> \in Routes /\ <<k>> \in Routes
    BY LastOf DEF Routes
  <2>2. CASE ~IsPrefix(p, r \o <<k>>)
    <3>1. r \o <<k>> \in DOMAIN v
      BY <1>3, <1>8, <2>1, <2>2
    <3>2. r \in DOMAIN v /\ IsKey(v[r].type, k)
      BY <1>1, <3>1 DEF Shaped
    <3>3. ~IsPrefix(p, r)
      <4>1. ASSUME NEW q \in Routes, r = p \o q
            PROVE  FALSE
        <5>1. r \o <<k>> = p \o (q \o <<k>>)
          BY <2>1, <4>1, ConcatAssociative DEF Routes
        <5>2. q \o <<k>> \in Routes
          BY LastOf DEF Routes
        <5> QED
          BY <1>5, <2>2, <5>1, <5>2
      <4> QED
        BY <1>4, <4>1
    <3> QED
      BY <1>3, <3>2, <3>3
  <2>3. ASSUME NEW s \in Routes, r \o <<k>> = p \o s
        PROVE  r \in DOMAIN w /\ IsKey(w[r].type, k)
    <3>1. CASE s = <<>>
      <4>1. p = r \o <<k>>
        BY <2>3, <3>1, ConcatEmptySeq DEF Routes
      <4>2. r \in DOMAIN v /\ IsKey(v[r].type, k)
        <5>1. CASE p \in DOMAIN v
          BY <1>1, <4>1, <5>1 DEF Shaped
        <5>2. ASSUME NEW q \in Routes, NEW l \in Keys, q \in DOMAIN v, IsKey(v[q].type, l), p = q \o <<l>>
              PROVE  r \in DOMAIN v /\ IsKey(v[r].type, k)
          <6>1. /\ Front(r \o <<k>>) = r /\ Last(r \o <<k>>) = k
                /\ Front(q \o <<l>>) = q /\ Last(q \o <<l>>) = l
            BY LastOf DEF Routes
          <6>2. r = q /\ k = l
            BY <4>1, <5>2, <6>1
          <6> QED
            BY <5>2, <6>2
        <5> QED
          BY <5>1, <5>2 DEF Fits
      <4>3. ~IsPrefix(p, r)
        <5>1. Len(p) = Len(r) + 1 /\ Len(r) \in Nat
          BY <4>1, LastOf, LenProperties DEF Routes
        <5>2. ~(Len(p) <= Len(r))
          BY <5>1
        <5> QED
          BY <5>2 DEF IsPrefix
      <4> QED
        BY <1>3, <4>2, <4>3
    <3>2. CASE s # <<>>
      <4>1. /\ Front(p \o s) = p \o Front(s) /\ Last(p \o s) = Last(s)
            /\ Front(r \o <<k>>) = r /\ Last(r \o <<k>>) = k
            /\ Front(s) \in Routes /\ Last(s) \in Keys /\ s = Front(s) \o <<Last(s)>>
        <5>1. Front(p \o s) = p \o Front(s) /\ Last(p \o s) = Last(s)
          BY <3>2, LastBehind DEF Routes
        <5>2. Front(r \o <<k>>) = r /\ Last(r \o <<k>>) = k
          BY LastOf DEF Routes
        <5>3. Front(s) \in Routes /\ Last(s) \in Keys /\ s = Front(s) \o <<Last(s)>>
          BY <3>2, HasLast DEF Routes
        <5> QED
          BY <5>1, <5>2, <5>3
      <4>2. r = p \o Front(s) /\ k = Last(s)
        BY <2>3, <4>1
      <4>3. s \in DOMAIN x
        BY <1>3, <1>8, <2>3
      <4> DEFINE f == Front(s)
      <4> HIDE DEF f
      <4>4. f \in Routes /\ f \o <<k>> \in DOMAIN x /\ r = p \o f
        BY <4>1, <4>2, <4>3 DEF f
      <4>5. f \in DOMAIN x /\ IsKey(x[f].type, k)
        BY <1>1, <4>4 DEF Shaped
      <4>6. r \in DOMAIN w /\ w[r] = x[f]
        BY <1>3, <4>4, <4>5
      <4> QED
        BY <4>5, <4>6
    <3> QED
      BY <3>1, <3>2
  <2> QED
    BY <1>4, <2>1, <2>2, <2>3
<1>9. <<>> \in DOMAIN w
  <2>1. CASE p = <<>>
    <3>1. p \o <<>> = <<>> /\ <<>> \in Routes /\ <<>> \in DOMAIN x
      BY <1>1, <2>1, ConcatEmptySeq, EmptySeq DEF Routes, Shaped
    <3> QED
      BY <1>3, <3>1
  <2>2. CASE p # <<>>
    <3>1. <<>> \in Routes /\ <<>> \in DOMAIN v /\ Len(p) \in Nat /\ Len(p) # 0 /\ Len(<<>>) = 0
      BY <1>1, <2>2, EmptySeq, LenProperties DEF Routes, Shaped
    <3>2. ~(Len(p) <= Len(<<>>))
      BY <3>1
    <3>3. ~IsPrefix(p, <<>>)
      BY <3>2 DEF IsPrefix
    <3> QED
      BY <1>3, <3>1, <3>3
  <2> QED
    BY <2>1, <2>2
<1>10. Shaped(w)
  BY <1>3, <1>6, <1>7, <1>8, <1>9 DEF Shaped
<1> QED
  BY <1>10, ValueIsShaped DEF w

\* A Value put in the place of a whole one, and one that stays.
LEMMA PutAtRoot ==
  ASSUME NEW v, IsValue(v), NEW x, IsValue(x)
  PROVE  Put(v, <<>>, x) = x
<1>1. Shaped(v) /\ Shaped(x) /\ <<>> \in Routes
  BY ValueIsShaped, EmptySeq DEF Routes
<1>2. DOMAIN v \subseteq Routes /\ DOMAIN x \subseteq Routes /\ x = [q \in DOMAIN x |-> x[q]]
  BY <1>1 DEF Shaped
<1> DEFINE e == <<>>
           w == Put(v, e, x)
<1> HIDE DEF e
<1>3. /\ DOMAIN w \subseteq Routes
      /\ \A q \in Routes : e \o q \in DOMAIN w <=> q \in DOMAIN x
      /\ \A q \in DOMAIN x : w[e \o q] = x[q]
      /\ w = [r \in DOMAIN w |-> w[r]]
  <2>1. e \in Routes
    BY <1>1 DEF e
  <2> QED
    BY <1>2, <2>1, PutAt
<1> HIDE DEF w
<1>4. \A q \in Routes : e \o q = q
  BY ConcatEmptySeq DEF Routes, e
<1>5. DOMAIN w = DOMAIN x
  <2>1. \A q \in Routes : q \in DOMAIN w <=> q \in DOMAIN x
    BY <1>3, <1>4
  <2> QED
    BY <1>2, <1>3, <2>1
<1>6. \A q \in DOMAIN w : w[q] = x[q]
  BY <1>2, <1>3, <1>4, <1>5
<1>7. w = x
  BY ONLY <1>2, <1>3, <1>5, <1>6, SameFunction
<1> QED
  BY <1>7 DEF w, e

LEMMA SubtreeAtRoot ==
  ASSUME NEW v, IsValue(v)
  PROVE  Subtree(v, <<>>) = v
<1>1. Shaped(v) /\ <<>> \in Routes
  BY ValueIsShaped, EmptySeq DEF Routes
<1>2. DOMAIN v \subseteq Routes /\ v = [q \in DOMAIN v |-> v[q]]
  BY <1>1 DEF Shaped
<1> DEFINE w == Subtree(v, <<>>)
<1>3. /\ DOMAIN w = {q \in Routes : <<>> \o q \in DOMAIN v}
      /\ \A q \in Routes : <<>> \o q \in DOMAIN v => w[q] = v[<<>> \o q]
      /\ w = [q \in DOMAIN w |-> w[q]]
  BY <1>1, <1>2, SubtreeAt
<1> HIDE DEF w
<1>4. \A q \in Routes : <<>> \o q = q
  BY ConcatEmptySeq DEF Routes
<1>5. DOMAIN w = DOMAIN v
  BY <1>2, <1>3, <1>4
<1>6. \A q \in DOMAIN w : w[q] = v[q]
  BY <1>2, <1>3, <1>4, <1>5
<1>7. w = v
  BY ONLY <1>2, <1>3, <1>5, <1>6, SameFunction
<1> QED
  BY <1>7 DEF w
-----------------------------------------------------------------------------
(***************************************************************************)
(* The elements of a container.                                            *)
(***************************************************************************)
KeysOf(v) == {k \in Keys : <<k>> \in DOMAIN v}

\* A new element.
Empty == Leaf("null", <<>>)

\* A Value without anything below it.
LEMMA LeafIsValue ==
  ASSUME NEW type, NEW val, IsPayload(type, val)
  PROVE  /\ IsValue(Leaf(type, val)) /\ Leaf(type, val)[<<>>] = Node(type, val)
         /\ Node(type, val).type = type /\ Node(type, val).val = val
         /\ DOMAIN Leaf(type, val) = {<<>>}
<1> DEFINE w == Leaf(type, val)
<1>1. DOMAIN w = {<<>>} /\ w = [p \in DOMAIN w |-> w[p]] /\ w[<<>>] = Node(type, val)
  BY DEF Leaf
<1> HIDE DEF w
<1>2. GoodNode(w[<<>>]) /\ w[<<>>].type = type /\ w[<<>>].val = val
  <2>1. /\ Node(type, val).type = type /\ Node(type, val).val = val
        /\ Node(type, val) = [field \in DOMAIN Null |-> Node(type, val)[field]]
    BY DEF Node, Null
  <2> QED
    BY <1>1, <2>1 DEF GoodNode
<1>3. ASSUME NEW q \in Routes, NEW k \in Keys
      PROVE  q \o <<k>> \notin DOMAIN w
  BY <1>1, LastOf DEF Routes
<1>4. IsFiniteSet(DOMAIN w)
  BY <1>1, FiniteOne
<1>5. DOMAIN w \subseteq Routes
  BY <1>1, EmptySeq DEF Routes
<1>6. Shaped(w)
  BY <1>1, <1>2, <1>3, <1>4, <1>5 DEF Shaped
<1> QED
  BY <1>1, <1>2, <1>6, ValueIsShaped DEF w

LEMMA EmptyPayloads ==
  IsPayload("null", <<>>) /\ IsPayload("array", <<>>) /\ IsPayload("object", <<>>)
<1>1. /\ Types[1] = "null" /\ Types[7] = "array" /\ Types[8] = "object"
      /\ 1 \in DOMAIN Types /\ 7 \in DOMAIN Types /\ 8 \in DOMAIN Types
  BY DEF Types
<1>2. <<>> \in Seq(Int)
  BY EmptySeq
<1> QED
  BY <1>1, <1>2 DEF IsPayload

LEMMA EmptyIsValue ==
  /\ IsValue(Empty) /\ Empty[<<>>].type = "null" /\ Empty[<<>>] = Null
  /\ DOMAIN Empty = {<<>>}
BY LeafIsValue, EmptyPayloads DEF Empty, Null

\* The parts of a Value that are needed most.
LEMMA ValueParts ==
  ASSUME NEW v, IsValue(v)
  PROVE  /\ <<>> \in DOMAIN v /\ DOMAIN v \subseteq Routes /\ IsFiniteSet(DOMAIN v)
         /\ v = [p \in DOMAIN v |-> v[p]]
         /\ \A p \in DOMAIN v : GoodNode(v[p])
         /\ \A k \in KeysOf(v) : IsKey(v[<<>>].type, k)
         /\ \A p \in DOMAIN v : p # <<>> => p[1] \in KeysOf(v)
<1>1. Shaped(v)
  BY ValueIsShaped
<1>2. ASSUME NEW k \in KeysOf(v)
      PROVE  IsKey(v[<<>>].type, k)
  <2>1. k \in Keys /\ <<k>> \in DOMAIN v /\ <<>> \in Routes /\ <<k>> \in Routes
    BY EmptySeq DEF KeysOf, Routes
  <2>2. <<>> \o <<k>> = <<k>>
    BY <2>1, ConcatEmptySeq DEF Routes
  <2> DEFINE e == <<>>
  <2>3. e \in Routes /\ e \o <<k>> \in DOMAIN v
    BY <2>1, <2>2
  <2> HIDE DEF e
  <2>4. IsKey(v[e].type, k)
    BY <1>1, <2>1, <2>3 DEF Shaped
  <2> QED
    BY <2>4 DEF e
<1>3. ASSUME NEW p \in DOMAIN v, p # <<>>
      PROVE  p[1] \in KeysOf(v)
  <2>1. p \in Routes
    BY <1>1 DEF Shaped
  <2> DEFINE n == Len(p)
             A == {m \in Nat : SubSeq(p, 1, n - m) \in DOMAIN v}
  <2>2. n \in Nat /\ n # 0
    BY <1>3, <2>1, LenProperties, EmptySeq DEF Routes
  <2>3. 0 \in A
    <3>1. SubSeq(p, 1, n) = p /\ n - 0 = n
      BY <2>1, <2>2, SubSeqFull DEF Routes
    <3>2. SubSeq(p, 1, n - 0) \in DOMAIN v
      BY <1>3, <3>1
    <3> QED
      BY <3>2
  <2>4. ASSUME NEW m \in 0 .. (n - 1) - 1, m \in A
        PROVE  m + 1 \in A
    <3> DEFINE r == SubSeq(p, 1, n - m)
    <3>1. /\ \A i \in 1 .. n - m : p[i] \in Keys
          /\ 1 \in Int /\ n - m \in Int /\ n - m >= 2
      <4>1. \A i \in 1 .. n - m : i \in 1 .. Len(p)
        BY <2>2
      <4> QED
        BY <2>1, <2>2, <4>1, ElementOfSeq DEF Routes
    <3>2. r \in Routes /\ Len(r) = n - m
      <4>1. /\ r \in Seq(Keys)
            /\ Len(r) = IF 1 <= n - m THEN n - m - 1 + 1 ELSE 0
        BY <3>1, SubSeqProperties
      <4> QED
        BY <3>1, <4>1 DEF Routes
    <3>3. r \in DOMAIN v
      BY <2>4
    <3> HIDE DEF r
    <3>4. r # <<>>
      BY <3>1, <3>2, EmptySeq
    <3>5. Front(r) \in Routes /\ Last(r) \in Keys /\ r = Front(r) \o <<Last(r)>>
      BY <3>2, <3>4, HasLast DEF Routes
    <3>6. Front(r) \in DOMAIN v
      <4> DEFINE f == Front(r)
                 k == Last(r)
      <4> HIDE DEF f, k
      <4>1. f \in Routes /\ k \in Keys /\ f \o <<k>> \in DOMAIN v
        BY <3>3, <3>5 DEF f, k
      <4> QED
        BY <1>1, <4>1 DEF Shaped, f
    <3>7. Front(r) = SubSeq(p, 1, n - (m + 1))
      <4>1. Len(r) - 1 = n - (m + 1)
        BY <2>2, <3>2
      <4>2. Front(r) = SubSeq(r, 1, n - (m + 1))
        BY <4>1 DEF Front
      <4>3. /\ p \in Seq(Keys) /\ 1 \in 1 .. Len(p) + 1 /\ n - m \in 1 - 1 .. Len(p)
            /\ 1 \in 1 .. (n - m) - 1 + 1 + 1 /\ n - (m + 1) \in 0 .. n - m
        BY <2>1, <2>2, <3>1 DEF Routes
      <4>4. SubSeq(r, 1, n - (m + 1)) = SubSeq(p, 1, n - (m + 1))
        <5> DEFINE s == SubSeq(r, 1, n - (m + 1))
                   t == SubSeq(p, 1, n - (m + 1))
        <5>1. \A i \in 1 .. n - m : r[i] = p[i] /\ r[i] \in Keys
          <6>1. \A i \in 1 .. n - m - 1 + 1 : r[i] = p[1 + i - 1]
            BY <3>1, SubSeqProperties DEF r
          <6>2. \A i \in 1 .. n - m : i \in 1 .. n - m - 1 + 1 /\ 1 + i - 1 = i
            BY <2>2
          <6> QED
            BY <3>1, <6>1, <6>2
        <5>2. /\ \A i \in 1 .. n - (m + 1) : r[i] \in Keys /\ p[i] \in Keys /\ r[i] = p[i]
              /\ n - (m + 1) \in Int
          <6>1. \A i \in 1 .. n - (m + 1) : i \in 1 .. n - m
            BY <2>2
          <6> QED
            BY <2>2, <3>1, <5>1, <6>1
        <5> DEFINE l == n - (m + 1)
        <5> HIDE DEF l
        <5>3. /\ SubSeq(r, 1, l) \in Seq(Keys)
              /\ Len(SubSeq(r, 1, l)) = IF 1 <= l THEN l - 1 + 1 ELSE 0
              /\ \A i \in 1 .. l - 1 + 1 : SubSeq(r, 1, l)[i] = r[1 + i - 1]
          BY <3>1, <5>2, SubSeqProperties DEF l
        <5>4. /\ SubSeq(p, 1, l) \in Seq(Keys)
              /\ Len(SubSeq(p, 1, l)) = IF 1 <= l THEN l - 1 + 1 ELSE 0
              /\ \A i \in 1 .. l - 1 + 1 : SubSeq(p, 1, l)[i] = p[1 + i - 1]
          BY <3>1, <5>2, SubSeqProperties DEF l
        <5>5. \A i \in 1 .. Len(SubSeq(r, 1, l)) : SubSeq(r, 1, l)[i] = SubSeq(p, 1, l)[i]
          <6>1. l \in Int /\ \A i \in 1 .. l : i \in 1 .. l - 1 + 1 /\ 1 + i - 1 = i /\ r[i] = p[i]
            BY <5>2 DEF l
          <6>2. \A i \in 1 .. Len(SubSeq(r, 1, l)) : i \in 1 .. l
            BY <5>3, <6>1
          <6> QED
            BY <5>3, <5>4, <6>1, <6>2
        <5>6. Len(SubSeq(r, 1, l)) = Len(SubSeq(p, 1, l))
          BY <5>3, <5>4
        <5>7. SubSeq(r, 1, l) = SubSeq(p, 1, l)
          BY ONLY <5>3, <5>4, <5>5, <5>6, SeqEqual
        <5> QED
          BY <5>7 DEF l
      <4> QED
        BY <4>2, <4>4
    <3> QED
      BY <2>2, <3>6, <3>7
  <2>5. n - 1 \in A
    <3>1. n - 1 \in Nat
      BY <2>2
    <3> HIDE DEF A, n
    <3>2. \A m \in 0 .. n - 1 : m \in A
      BY <2>3, <2>4, <3>1, InductionUpTo
    <3> QED
      BY <3>1, <3>2
  <2>6. SubSeq(p, 1, 1) \in DOMAIN v
    <3>1. n - (n - 1) = 1
      BY <2>2
    <3> QED
      BY <2>5, <3>1
  <2>7. SubSeq(p, 1, 1) = <<p[1]>> /\ p[1] \in Keys
    <3>1. \A i \in 1 .. 1 : p[i] \in Keys
      <4>1. 1 \in 1 .. Len(p)
        BY <2>2
      <4>2. p[1] \in Keys
        BY <2>1, <4>1, ElementOfSeq DEF Routes
      <4> QED
        BY <4>2
    <3>2. /\ SubSeq(p, 1, 1) \in Seq(Keys) /\ Len(SubSeq(p, 1, 1)) = IF 1 <= 1 THEN 1 - 1 + 1 ELSE 0
          /\ \A i \in 1 .. 1 - 1 + 1 : SubSeq(p, 1, 1)[i] = p[1 + i - 1]
      BY <3>1, SubSeqProperties
    <3> DEFINE s == SubSeq(p, 1, 1)
    <3> HIDE DEF s
    <3>3. s \in Seq(Keys) /\ Len(s) = 1 /\ s[1] = p[1]
      BY <3>2 DEF s
    <3>4. s = <<p[1]>>
      BY <3>3
    <3> QED
      BY <3>1, <3>4 DEF s
  <2> QED
    BY <2>6, <2>7 DEF KeysOf
<1> QED
  BY <1>1, <1>2, <1>3 DEF Shaped
\* Which paths begin with a key.
LEMMA BeginsWith ==
  ASSUME NEW k \in Keys, NEW r \in Routes
  PROVE  IsPrefix(<<k>>, r) <=> r # <<>> /\ r[1] = k
<1>1. <<k>> \in Routes
  BY LastOf DEF Routes
<1>2. ASSUME IsPrefix(<<k>>, r)
      PROVE  r # <<>> /\ r[1] = k
  <2> DEFINE at == <<k>>
  <2> HIDE DEF at
  <2>1. IsPrefix(at, r) /\ at \in Routes
    BY <1>1, <1>2 DEF at
  <2>2. \E q \in Routes : r = at \o q
    BY <2>1, RouteBehind
  <2>3. PICK q \in Routes : r = <<k>> \o q
    BY <2>2 DEF at
  <2>4. <<k>> \o q # <<>> /\ (<<k>> \o q)[1] = k
    BY FirstOf DEF Routes
  <2> QED
    BY <2>3, <2>4
<1>3. ASSUME r # <<>>, r[1] = k
      PROVE  IsPrefix(<<k>>, r)
  <2>1. Tail(r) \in Routes /\ r = <<r[1]>> \o Tail(r)
    BY <1>3, HasFirst DEF Routes
  <2> DEFINE q == Tail(r)
  <2> HIDE DEF q
  <2>2. q \in Routes /\ r = <<k>> \o q
    BY <1>3, <2>1 DEF q
  <2> QED
    BY <1>1, <2>2, PrefixIffBehind DEF Routes
<1> QED
  BY <1>2, <1>3

\* What is at a key, by the paths that begin with it.
LEMMA ChildAt ==
  ASSUME NEW v, DOMAIN v \subseteq Routes, NEW k \in Keys
  PROVE  /\ <<k>> \in Routes
         /\ DOMAIN Child(v, k) = {q \in Routes : <<k>> \o q \in DOMAIN v}
         /\ \A q \in Routes : <<k>> \o q \in DOMAIN v => Child(v, k)[q] = v[<<k>> \o q]
         /\ Child(v, k) = [q \in DOMAIN Child(v, k) |-> Child(v, k)[q]]
<1>1. <<k>> \in Routes
  BY LastOf DEF Routes
<1> QED
  BY <1>1, SubtreeAt DEF Child

LEMMA SameChild ==
  ASSUME NEW v, DOMAIN v \subseteq Routes, NEW w, DOMAIN w \subseteq Routes, NEW k \in Keys,
         \A r \in Routes : r # <<>> /\ r[1] = k => /\ r \in DOMAIN v <=> r \in DOMAIN w
                                                   /\ r \in DOMAIN v => v[r] = w[r]
  PROVE  Child(v, k) = Child(w, k)
<1> DEFINE a == Child(v, k)
           b == Child(w, k)
           at == <<k>>
<1>1. /\ DOMAIN a = {q \in Routes : at \o q \in DOMAIN v}
      /\ \A q \in Routes : at \o q \in DOMAIN v => a[q] = v[at \o q]
      /\ a = [q \in DOMAIN a |-> a[q]]
  BY ChildAt
<1>2. /\ DOMAIN b = {q \in Routes : at \o q \in DOMAIN w}
      /\ \A q \in Routes : at \o q \in DOMAIN w => b[q] = w[at \o q]
      /\ b = [q \in DOMAIN b |-> b[q]]
  BY ChildAt
<1>3. \A q \in Routes : at \o q \in Routes /\ at \o q # <<>> /\ (at \o q)[1] = k
  BY FirstOf DEF Routes
<1> HIDE DEF a, b, at
<1>4. ASSUME NEW q \in Routes
      PROVE  /\ at \o q \in DOMAIN v <=> at \o q \in DOMAIN w
             /\ at \o q \in DOMAIN v => v[at \o q] = w[at \o q]
  <2> DEFINE s == at \o q
  <2>1. s \in Routes /\ s # <<>> /\ s[1] = k
    BY <1>3
  <2> HIDE DEF s
  <2>2. (s \in DOMAIN v <=> s \in DOMAIN w) /\ (s \in DOMAIN v => v[s] = w[s])
    BY <2>1
  <2> QED
    BY <2>2 DEF s
<1>5. DOMAIN a = DOMAIN b
  BY <1>1, <1>2, <1>4
<1>6. \A q \in DOMAIN a : a[q] = b[q]
  BY <1>1, <1>2, <1>4
<1>7. a = b
  BY ONLY <1>1, <1>2, <1>5, <1>6, SameFunction
<1> QED
  BY <1>7 DEF a, b

\* An element is put at a key.
LEMMA ReplaceElements ==
  ASSUME NEW v, IsValue(v), NEW k \in Keys, IsKey(v[<<>>].type, k), NEW x, IsValue(x)
  PROVE  /\ IsValue(Replace(v, k, x)) /\ Replace(v, k, x)[<<>>] = v[<<>>]
         /\ KeysOf(Replace(v, k, x)) = KeysOf(v) \cup {k}
         /\ Child(Replace(v, k, x), k) = x
         /\ \A l \in KeysOf(v) : l # k => Child(Replace(v, k, x), l) = Child(v, l)
<1> DEFINE at == <<k>>
           w == Put(v, at, x)
<1>1. Replace(v, k, x) = w
  BY DEF Replace
<1>2. /\ <<>> \in DOMAIN v /\ DOMAIN v \subseteq Routes /\ DOMAIN x \subseteq Routes
      /\ x = [q \in DOMAIN x |-> x[q]] /\ <<>> \in DOMAIN x
  BY ValueParts
<1>3. at \in Routes /\ <<>> \in Routes
  BY LastOf, EmptySeq DEF Routes
<1>4. Fits(v, at)
  <2>1. at = <<>> \o <<k>>
    BY <1>3, ConcatEmptySeq DEF Routes
  <2> HIDE DEF at
  <2> QED
    BY <1>2, <1>3, <2>1 DEF Fits
<1>5. \A r \in Routes : IsPrefix(at, r) <=> r # <<>> /\ r[1] = k
  BY BeginsWith
<1>6. \A q \in Routes : at \o q \in Routes
  BY FirstOf DEF Routes
<1>7. at \o <<>> = at
  BY <1>3, ConcatEmptySeq DEF Routes
<1>8. \A l \in Keys : <<l>> \in Routes /\ <<l>> # <<>> /\ <<l>>[1] = l
  BY LastOf DEF Routes
<1> DEFINE e == <<>>
<1> HIDE DEF at, e
<1>9. /\ DOMAIN w \subseteq Routes
      /\ \A q \in Routes : at \o q \in DOMAIN w <=> q \in DOMAIN x
      /\ \A q \in DOMAIN x : w[at \o q] = x[q]
      /\ \A r \in Routes : ~IsPrefix(at, r) => (r \in DOMAIN w <=> r \in DOMAIN v)
      /\ \A r \in DOMAIN v : ~IsPrefix(at, r) => w[r] = v[r]
      /\ w = [r \in DOMAIN w |-> w[r]]
  BY <1>2, <1>3, PutAt
<1>10. IsValue(w)
  BY <1>3, <1>4, PutIsValue
<1> HIDE DEF w
<1>11. w[<<>>] = v[<<>>]
  BY <1>2, <1>3, <1>5, <1>9
<1>12. KeysOf(w) = KeysOf(v) \cup {k}
  <2>1. <<k>> \in DOMAIN w
    BY <1>2, <1>3, <1>7, <1>9 DEF at, e
  <2>2. \A l \in Keys : l # k => (<<l>> \in DOMAIN w <=> <<l>> \in DOMAIN v)
    BY <1>5, <1>8, <1>9
  <2> QED
    BY <2>1, <2>2 DEF KeysOf
<1>13. Child(w, k) = x
  <2> DEFINE c == Child(w, k)
  <2>1. /\ DOMAIN c = {q \in Routes : at \o q \in DOMAIN w}
        /\ \A q \in Routes : at \o q \in DOMAIN w => c[q] = w[at \o q]
        /\ c = [q \in DOMAIN c |-> c[q]]
    <3>1. DOMAIN w \subseteq Routes
      BY <1>9
    <3> HIDE DEF at
    <3>2. /\ DOMAIN Child(w, k) = {q \in Routes : <<k>> \o q \in DOMAIN w}
          /\ \A q \in Routes : <<k>> \o q \in DOMAIN w => Child(w, k)[q] = w[<<k>> \o q]
          /\ Child(w, k) = [q \in DOMAIN Child(w, k) |-> Child(w, k)[q]]
      BY ONLY <3>1, k \in Keys, ChildAt
    <3> QED
      BY <3>2 DEF at
  <2> HIDE DEF c
  <2>2. DOMAIN c = DOMAIN x
    BY <1>2, <1>9, <2>1
  <2>3. \A q \in DOMAIN c : c[q] = x[q]
    BY <1>2, <1>9, <2>1, <2>2
  <2>4. c = x
    BY ONLY <1>2, <2>1, <2>2, <2>3, SameFunction
  <2> QED
    BY <2>4 DEF c
<1>14. ASSUME NEW l \in KeysOf(v), l # k
       PROVE  Child(w, l) = Child(v, l)
  <2>1. l \in Keys
    BY DEF KeysOf
  <2>2. \A r \in Routes : r # <<>> /\ r[1] = l => /\ r \in DOMAIN w <=> r \in DOMAIN v
                                                  /\ r \in DOMAIN w => w[r] = v[r]
    BY <1>5, <1>9, <1>14
  <2> QED
    BY <1>2, <1>9, <2>1, <2>2, SameChild
<1> QED
  BY <1>1, <1>10, <1>11, <1>12, <1>13, <1>14
\* An element is asked for.
LEMMA SubscriptElements ==
  ASSUME NEW v, IsValue(v), NEW k \in Keys, IsKey(v[<<>>].type, k)
  PROVE  /\ IsValue(Subscript(v, k)) /\ Subscript(v, k)[<<>>] = v[<<>>]
         /\ KeysOf(Subscript(v, k)) = KeysOf(v) \cup {k}
         /\ Child(Subscript(v, k), k) = IF k \in KeysOf(v) THEN Child(v, k) ELSE Empty
         /\ \A l \in KeysOf(v) : l # k => Child(Subscript(v, k), l) = Child(v, l)
<1> DEFINE at == <<k>>
           w == [p \in DOMAIN v \cup {at} |-> IF p \in DOMAIN v THEN v[p] ELSE Null]
<1>1. Subscript(v, k) = w
  <2>1. Append(<<>>, k) = <<k>>
    OBVIOUS
  <2> QED
    BY <2>1 DEF Subscript, resolveReference
<1>2. /\ <<>> \in DOMAIN v /\ DOMAIN v \subseteq Routes /\ v = [p \in DOMAIN v |-> v[p]]
      /\ \A p \in DOMAIN v : p # <<>> => p[1] \in KeysOf(v)
  BY ValueParts
<1>3. at \in Routes
  BY LastOf DEF Routes
<1>4. CASE k \in KeysOf(v)
  <2>1. at \in DOMAIN v
    BY <1>4 DEF KeysOf
  <2>2. w = v
    BY <1>2, <2>1
  <2>3. KeysOf(v) = KeysOf(v) \cup {k}
    BY <1>4
  <2> HIDE DEF w
  <2> QED
    BY <1>1, <1>4, <2>2, <2>3
<1>5. CASE k \notin KeysOf(v)
  <2>1. w = Replace(v, k, Empty)
    <3> DEFINE D == {q \in DOMAIN v : ~IsPrefix(at, q)} \cup {at \o q : q \in DOMAIN Empty}
    <3>1. \A q \in DOMAIN v : ~IsPrefix(at, q)
      <4>1. \A q \in DOMAIN v : q \in Routes
        BY <1>2
      <4> QED
        BY <1>2, <1>5, <4>1, BeginsWith
    <3>2. at \o <<>> = at
      BY <1>3, ConcatEmptySeq DEF Routes
    <3>3. D = DOMAIN v \cup {at}
      <4>1. {at \o q : q \in DOMAIN Empty} = {at}
        <5>1. DOMAIN Empty = {<<>>}
          BY EmptyIsValue
        <5> HIDE DEF at
        <5> QED
          BY <3>2, <5>1
      <4> QED
        BY <3>1, <4>1
    <3>4. IsPrefix(at, at) /\ SubSeq(at, Len(at) + 1, Len(at)) = <<>>
      <4>1. <<>> \in Routes
        BY EmptySeq DEF Routes
      <4> DEFINE e == <<>>
      <4> HIDE DEF e
      <4>2. e \in Routes /\ at \o e = at
        BY <3>2, <4>1 DEF e
      <4>3. IsPrefix(at, at \o e) /\ SubSeq(at \o e, Len(at) + 1, Len(at \o e)) = e
        BY <1>3, <4>2, BehindOf DEF Routes
      <4> QED
        BY <4>2, <4>3 DEF e
    <3>5. at \notin DOMAIN v
      BY <1>3, <1>5 DEF KeysOf
    <3> DEFINE put == [p \in D |-> IF IsPrefix(at, p) THEN Empty[SubSeq(p, Len(at) + 1, Len(p))] ELSE v[p]]
    <3>6. Replace(v, k, Empty) = put
      BY DEF Replace, Put
    <3>7. ASSUME NEW p \in DOMAIN v \cup {at}
          PROVE  (IF p \in DOMAIN v THEN v[p] ELSE Null) =
                 (IF IsPrefix(at, p) THEN Empty[SubSeq(p, Len(at) + 1, Len(p))] ELSE v[p])
      <4> HIDE DEF at
      <4>1. CASE p = at
        BY <3>4, <3>5, <4>1, EmptyIsValue
      <4>2. CASE p # at
        BY <3>1, <4>2
      <4> QED
        BY <4>1, <4>2
    <3> HIDE DEF at, D
    <3> QED
      BY <3>3, <3>6, <3>7
  <2>2. IsValue(Empty)
    BY EmptyIsValue
  <2> HIDE DEF w
  <2>3. k \in Keys /\ \A l \in KeysOf(v) : l # k
    BY <1>5
  <2> DEFINE u == Replace(v, k, Empty)
  <2>4. /\ IsValue(u) /\ u[<<>>] = v[<<>>]
        /\ KeysOf(u) = KeysOf(v) \cup {k}
        /\ Child(u, k) = Empty
        /\ \A l \in KeysOf(v) : l # k => Child(u, l) = Child(v, l)
    BY <2>2, ReplaceElements
  <2> HIDE DEF u
  <2> QED
    BY <1>1, <1>5, <2>1, <2>4 DEF u
<1> QED
  BY <1>4, <1>5

\* Elements are erased.
LEMMA EraseElements ==
  ASSUME NEW v, IsValue(v), NEW S
  PROVE  /\ IsValue(Erase(v, S)) /\ Erase(v, S)[<<>>] = v[<<>>]
         /\ KeysOf(Erase(v, S)) = KeysOf(v) \ S
         /\ \A l \in KeysOf(v) \ S : Child(Erase(v, S), l) = Child(v, l)
<1> DEFINE w == Erase(v, S)
<1>1. Shaped(v)
  BY ValueIsShaped
<1>2. <<>> \in DOMAIN v /\ DOMAIN v \subseteq Routes /\ IsFiniteSet(DOMAIN v)
  BY <1>1 DEF Shaped
<1>3. /\ DOMAIN w = {q \in DOMAIN v : q = <<>> \/ q[1] \notin S}
      /\ \A q \in DOMAIN w : w[q] = v[q]
      /\ w = [q \in DOMAIN w |-> w[q]]
  BY DEF Erase
<1> HIDE DEF w
<1>4. <<>> \in DOMAIN w /\ w[<<>>] = v[<<>>] /\ DOMAIN w \subseteq Routes
  BY <1>2, <1>3
<1>5. IsFiniteSet(DOMAIN w)
  BY <1>2, <1>3, FinitePart
<1>6. \A q \in DOMAIN w : GoodNode(w[q])
  BY <1>1, <1>3 DEF Shaped
<1>7. ASSUME NEW q \in Routes, NEW k \in Keys, q \o <<k>> \in DOMAIN w
      PROVE  q \in DOMAIN w /\ IsKey(w[q].type, k)
  <2>1. q \o <<k>> \in DOMAIN v
    BY <1>3, <1>7
  <2>2. q \in DOMAIN v /\ IsKey(v[q].type, k)
    BY <1>1, <2>1 DEF Shaped
  <2>3. q \in DOMAIN w
    <3>1. CASE q = <<>>
      BY <1>4, <3>1
    <3>2. CASE q # <<>>
      <4>1. q[1] \in Keys /\ Tail(q) \in Routes /\ q = <<q[1]>> \o Tail(q)
        BY <3>2, HasFirst DEF Routes
      <4>2. q \o <<k>> # <<>> /\ (q \o <<k>>)[1] = q[1]
        <5>1. Len(q) \in Nat /\ Len(q) # 0
          BY <3>2, LenProperties, EmptySeq DEF Routes
        <5> DEFINE s == <<k>>
        <5>2. s \in Routes /\ Len(s) = 1
          BY DEF Routes
        <5> HIDE DEF s
        <5>3. \A i \in 1 .. Len(q) + Len(s) : (q \o s)[i] = IF i <= Len(q) THEN q[i] ELSE s[i - Len(q)]
          BY <5>2, ConcatProperties DEF Routes
        <5>4. 1 \in 1 .. Len(q) + Len(s) /\ 1 <= Len(q)
          BY <5>1, <5>2
        <5>5. (q \o s)[1] = q[1]
          BY <5>3, <5>4
        <5>6. q \o <<k>> # <<>>
          BY LastOf DEF Routes
        <5> QED
          BY <5>5, <5>6 DEF s
      <4> DEFINE r == q \o <<k>>
      <4> HIDE DEF r
      <4>3. r \in DOMAIN w /\ r # <<>> /\ r[1] = q[1]
        BY <1>7, <4>2 DEF r
      <4> QED
        BY <1>3, <2>2, <4>3
    <3> QED
      BY <3>1, <3>2
  <2> QED
    BY <1>3, <2>2, <2>3
<1>8. IsValue(w)
  <2>1. Shaped(w)
    BY <1>3, <1>4, <1>5, <1>6, <1>7 DEF Shaped
  <2> QED
    BY <2>1, ValueIsShaped
<1>9. \A l \in Keys : <<l>> \in Routes /\ <<l>> # <<>> /\ <<l>>[1] = l
  BY LastOf DEF Routes
<1>10. KeysOf(w) = KeysOf(v) \ S
  BY <1>3, <1>9 DEF KeysOf
<1>11. ASSUME NEW l \in KeysOf(v) \ S
       PROVE  Child(w, l) = Child(v, l)
  <2>1. l \in Keys
    BY DEF KeysOf
  <2>2. \A r \in Routes : r # <<>> /\ r[1] = l => /\ r \in DOMAIN w <=> r \in DOMAIN v
                                                  /\ r \in DOMAIN w => w[r] = v[r]
    BY <1>3, <1>11
  <2> QED
    BY <1>2, <1>4, <2>1, <2>2, SameChild
<1> QED
  BY <1>4, <1>8, <1>10, <1>11 DEF w
\* What is below a Value of a tree, by the keys of that Value.
LEMMA ChildrenAre ==
  ASSUME NEW v, IsValue(v), NEW p \in DOMAIN v
  PROVE  /\ Children(v, p) = KeysOf(Subtree(v, p))
         /\ Subtree(v, p)[<<>>] = v[p] /\ IsValue(Subtree(v, p))
<1>1. p \in Routes /\ DOMAIN v \subseteq Routes
  BY ValueParts
<1> DEFINE w == Subtree(v, p)
<1>2. /\ DOMAIN w = {q \in Routes : p \o q \in DOMAIN v}
      /\ \A q \in Routes : p \o q \in DOMAIN v => w[q] = v[p \o q]
  BY <1>1, SubtreeAt
<1>3. IsValue(w)
  BY SubtreeIsValue
<1> HIDE DEF w
<1>4. ASSUME NEW q \in DOMAIN v, Len(q) = Len(p) + 1, Below(p, q)
      PROVE  q[Len(q)] \in KeysOf(w)
  <2>1. IsPrefix(p, q) /\ q \in Routes
    BY <1>1, <1>4 DEF Below, IsStrictPrefix
  <2>2. PICK s \in Routes : q = p \o s
    BY <1>1, <2>1, RouteBehind
  <2>3. Len(p) \in Nat /\ Len(s) \in Nat /\ Len(p \o s) = Len(p) + Len(s)
    BY <1>1, BehindOf, LenProperties DEF Routes
  <2>4. Len(s) = 1
    <3> DEFINE a == Len(p)
               b == Len(s)
    <3>1. a + b = a + 1
      BY <1>4, <2>2, <2>3
    <3>2. a \in Nat /\ b \in Nat
      BY <2>3
    <3> HIDE DEF a, b
    <3>3. b = 1
      BY ONLY <3>1, <3>2
    <3> QED
      BY <3>3 DEF b
  <2>5. s[1] \in Keys
    <3>1. 1 \in 1 .. Len(s)
      BY <2>4
    <3> QED
      BY <3>1, ElementOfSeq DEF Routes
  <2>6. s = <<s[1]>>
    BY <2>4 DEF Routes
  <2>7. q[Len(q)] = s[1]
    <3>1. \A i \in 1 .. Len(p) + Len(s) : (p \o s)[i] = IF i <= Len(p) THEN p[i] ELSE s[i - Len(p)]
      BY <1>1, ConcatProperties DEF Routes
    <3>2. /\ Len(p) + 1 \in 1 .. Len(p) + Len(s) /\ ~(Len(p) + 1 <= Len(p)) /\ Len(p) + 1 - Len(p) = 1
          /\ Len(q) = Len(p) + 1
      BY <1>4, <2>3, <2>4
    <3> QED
      BY <2>2, <3>1, <3>2
  <2>8. s \in DOMAIN w
    BY <1>2, <2>2
  <2> QED
    BY <2>5, <2>6, <2>7, <2>8 DEF KeysOf
<1>5. ASSUME NEW k \in KeysOf(w)
      PROVE  \E q \in DOMAIN v : Len(q) = Len(p) + 1 /\ Below(p, q) /\ q[Len(q)] = k
  <2>1. k \in Keys /\ <<k>> \in DOMAIN w
    BY DEF KeysOf
  <2> DEFINE s == <<k>>
  <2>2. s \in Routes /\ p \o s \in DOMAIN v
    BY <1>2, <2>1
  <2>3. Last(p \o s) = k /\ Len(p \o s) = Len(p) + 1 /\ Len(p) \in Nat
    BY <1>1, <2>1, LastOf, LenProperties DEF Routes
  <2> HIDE DEF s
  <2>4. IsPrefix(p, p \o s)
    BY <1>1, <2>2, BehindOf DEF Routes
  <2> DEFINE q == p \o s
  <2> HIDE DEF q
  <2>5. q \in DOMAIN v /\ Last(q) = k /\ Len(q) = Len(p) + 1 /\ Len(p) \in Nat /\ IsPrefix(p, q)
    BY <2>2, <2>3, <2>4 DEF q
  <2>6. p # q
    BY <2>5
  <2>7. Below(p, q)
    BY <2>5, <2>6 DEF Below, IsStrictPrefix
  <2>8. q[Len(q)] = k
    BY <2>5 DEF Last
  <2> QED
    BY <2>5, <2>7, <2>8
<1>6. Children(v, p) = KeysOf(w)
  <2> DEFINE T == {q \in DOMAIN v : Len(q) = Len(p) + 1 /\ Below(p, q)}
  <2>1. Children(v, p) = {q[Len(q)] : q \in T}
    BY DEF Children
  <2>2. \A q \in T : q[Len(q)] \in KeysOf(w)
    BY <1>4
  <2>3. \A k \in KeysOf(w) : \E q \in T : q[Len(q)] = k
    BY <1>5
  <2> HIDE DEF T
  <2> QED
    BY <2>1, <2>2, <2>3
<1>7. w[<<>>] = v[p]
  <2>1. p \o <<>> = p /\ <<>> \in Routes
    BY <1>1, ConcatEmptySeq, EmptySeq DEF Routes
  <2> QED
    BY <1>2, <2>1
<1> QED
  BY <1>3, <1>6, <1>7 DEF w

LEMMA ChildrenAtRoot ==
  ASSUME NEW v, IsValue(v)
  PROVE  Children(v, <<>>) = KeysOf(v)
BY ChildrenAre, SubtreeAtRoot, ValueParts

LEMMA SizeBelow ==
  ASSUME NEW v, IsValue(v), NEW p \in DOMAIN v
  PROVE  size(v, p) = size(Subtree(v, p), <<>>)
<1>1. Children(v, p) = Children(Subtree(v, p), <<>>)
  BY ChildrenAre, ChildrenAtRoot
<1>2. v[p].type = Subtree(v, p)[<<>>].type
  BY ChildrenAre
<1> QED
  BY <1>1, <1>2 DEF size

\* The keys of an array.
LEMMA IndexKeys ==
  /\ \A i \in Nat : Index(i) \in Keys /\ IsKey("array", Index(i)) /\ Index(i)[2] = i /\ IsIndex(Index(i))
  /\ \A k : IsKey("array", k) => k[2] \in Nat /\ k = Index(k[2]) /\ IsIndex(k)
<1>1. ASSUME NEW i \in Nat
      PROVE  Index(i) \in Keys /\ IsKey("array", Index(i)) /\ Index(i)[2] = i /\ IsIndex(Index(i))
  <2>1. <<-1, i>> \in Seq(Int) /\ <<-1, i>> \in {-1} \X Nat /\ <<-1, i>>[2] = i
        /\ <<-1, i>> # <<>> /\ <<-1, i>>[1] = -1
    OBVIOUS
  <2> QED
    BY <2>1 DEF Index, IsKey, Keys, IsIndex
<1>2. ASSUME NEW k, IsKey("array", k)
      PROVE  k[2] \in Nat /\ k = Index(k[2])
  <2>1. k \in {-1} \X Nat
    BY <1>2 DEF IsKey
  <2> QED
    BY <2>1 DEF Index
<1> QED
  BY <1>1, <1>2

LEMMA NameKeys ==
  \A k : IsKey("object", k) => k \in Keys /\ k \in Seq(Nat) /\ ~IsIndex(k)
<1>1. ASSUME NEW k, IsKey("object", k)
      PROVE  k \in Keys /\ k \in Seq(Nat) /\ ~IsIndex(k)
  <2>1. k \in Seq(Nat)
    BY <1>1 DEF IsKey
  <2>2. k # <<>> => k[1] \in Nat
    <3>1. k # <<>> => Len(k) \in Nat /\ Len(k) # 0
      BY <2>1, LenProperties, EmptySeq
    <3>2. k # <<>> => 1 \in 1 .. Len(k)
      BY <3>1
    <3> QED
      BY <2>1, <3>2, ElementOfSeq
  <2>3. k \in Seq(Int)
    BY <2>1
  <2> QED
    BY <2>1, <2>2, <2>3 DEF Keys, IsIndex
<1> QED
  BY <1>1
\* A Value has finitely many keys.
LEMMA KeysFinite ==
  ASSUME NEW v, IsValue(v)
  PROVE  IsFiniteSet(KeysOf(v))
<1> DEFINE f == [k \in KeysOf(v) |-> <<k>>]
<1>1. f \in [KeysOf(v) -> DOMAIN v] /\ \A k, l \in KeysOf(v) : f[k] = f[l] => k = l
  <2>1. \A k, l \in KeysOf(v) : <<k>> = <<l>> => k = l
    OBVIOUS
  <2> QED
    BY <2>1 DEF KeysOf
<1> HIDE DEF f
<1>2. IsFiniteSet(DOMAIN v)
  BY ValueParts
<1> QED
  BY <1>1, <1>2, FiniteByInjection

\* The size of an array is one more than its greatest index.
LEMMA SizeOf ==
  ASSUME NEW v, IsValue(v), v[<<>>].type = "array"
  PROVE  /\ size(v, <<>>) \in Nat
         /\ \A k \in KeysOf(v) : k[2] \in 0 .. size(v, <<>>) - 1 /\ k = Index(k[2])
         /\ size(v, <<>>) > 0 => Index(size(v, <<>>) - 1) \in KeysOf(v)
<1> DEFINE S == {k[2] : k \in KeysOf(v)}
           n == size(v, <<>>)
<1>1. \A k \in KeysOf(v) : k[2] \in Nat /\ k = Index(k[2])
  BY ValueParts, IndexKeys
<1>2. n = IF KeysOf(v) # {} THEN 1 + Max(S) ELSE 0
  BY ChildrenAtRoot DEF size
<1>3. CASE KeysOf(v) = {}
  BY <1>2, <1>3
<1>4. CASE KeysOf(v) # {}
  <2>1. S \in SUBSET Nat /\ S # {}
    BY <1>1, <1>4
  <2>2. IsFiniteSet(S)
    <3> DEFINE f == [k \in KeysOf(v) |-> k[2]]
    <3>1. {f[k] : k \in KeysOf(v)} = S
      OBVIOUS
    <3> HIDE DEF f, S
    <3>2. IsFiniteSet({f[k] : k \in KeysOf(v)})
      BY KeysFinite, FiniteImage
    <3> QED
      BY <3>1, <3>2
  <2> HIDE DEF S
  <2>3. \E m \in S : \A l \in S : l <= m
    BY <2>1, <2>2, GreatestNumber
  <2>4. Max(S) \in S /\ \A l \in S : l <= Max(S)
    <3>1. \E m \in S : \A l \in S : m >= l
      BY <2>1, <2>3
    <3>2. Max(S) \in S /\ \A l \in S : Max(S) >= l
      BY <3>1 DEF Max
    <3> QED
      BY <2>1, <3>2
  <2>5. n = 1 + Max(S) /\ Max(S) \in Nat
    BY <1>2, <1>4, <2>1, <2>4 DEF S
  <2>6. PICK k \in KeysOf(v) : Max(S) = k[2]
    BY <2>4 DEF S
  <2>7. \A l \in KeysOf(v) : l[2] \in S
    BY DEF S
  <2> HIDE DEF n
  <2>8. \A l \in KeysOf(v) : l[2] \in 0 .. n - 1
    BY <1>1, <2>1, <2>4, <2>5, <2>7
  <2>9. Index(n - 1) \in KeysOf(v)
    <3>1. n - 1 = k[2]
      BY <2>5, <2>6
    <3> QED
      BY <1>1, <3>1
  <2> QED
    BY <1>1, <2>5, <2>8, <2>9 DEF n
<1> QED
  BY <1>3, <1>4

LEMMA SizeIs ==
  ASSUME NEW v, IsValue(v), v[<<>>].type = "array", NEW n \in Nat,
         \A k \in KeysOf(v) : k[2] < n, n = 0 \/ Index(n - 1) \in KeysOf(v)
  PROVE  size(v, <<>>) = n
<1> DEFINE m == size(v, <<>>)
<1>1. /\ m \in Nat /\ \A k \in KeysOf(v) : k[2] \in 0 .. m - 1
      /\ m > 0 => Index(m - 1) \in KeysOf(v)
  BY SizeOf
<1> HIDE DEF m
<1>2. m <= n
  <2>1. CASE m > 0
    <3>1. m - 1 \in Nat
      BY <1>1, <2>1
    <3>2. Index(m - 1)[2] = m - 1
      BY <3>1, IndexKeys
    <3>3. Index(m - 1)[2] < n
      BY <1>1, <2>1
    <3> QED
      BY <1>1, <3>2, <3>3
  <2> QED
    BY <1>1, <2>1
<1>3. n <= m
  <2>1. CASE n # 0
    <3>1. n - 1 \in Nat /\ Index(n - 1) \in KeysOf(v)
      BY <2>1
    <3>2. Index(n - 1)[2] = n - 1 /\ Index(n - 1)[2] \in 0 .. m - 1
      BY <1>1, <3>1, IndexKeys
    <3> QED
      BY <1>1, <3>1, <3>2
  <2> QED
    BY <1>1, <2>1
<1> QED
  BY <1>1, <1>2, <1>3 DEF m

\* The size of a Value that is no container.
LEMMA SizeOfOther ==
  ASSUME NEW v, v[<<>>].type \notin Containers
  PROVE  size(v, <<>>) = 0
BY DEF size, Containers

\* A null becomes an array, and a value without keys has no size.
LEMMA NoKeys ==
  ASSUME NEW v, IsValue(v), v[<<>>].type \notin Containers
  PROVE  KeysOf(v) = {}
<1>1. \A k \in KeysOf(v) : IsKey(v[<<>>].type, k)
  BY ValueParts
<1> QED
  BY <1>1 DEF IsKey, Containers

LEMMA AsContainer ==
  ASSUME NEW v, IsValue(v), NEW type \in Containers, May(v, type)
  PROVE  /\ IsValue(As(v, type)) /\ As(v, type)[<<>>].type = type
         /\ KeysOf(As(v, type)) = KeysOf(v)
         /\ \A k \in KeysOf(v) : Child(As(v, type), k) = Child(v, k)
         /\ size(As(v, type), <<>>) = size(v, <<>>)
         /\ v[<<>>].type = type => As(v, type) = v
<1>1. CASE v[<<>>].type # "null"
  BY <1>1 DEF As, May
<1>2. CASE v[<<>>].type = "null"
  <2> DEFINE w == Leaf(type, <<>>)
  <2>1. As(v, type) = w
    BY <1>2 DEF As
  <2>2. IsPayload(type, <<>>) /\ type # "null"
    BY EmptyPayloads DEF Containers
  <2>3. IsValue(w) /\ w[<<>>].type = type /\ DOMAIN w = {<<>>}
    BY <2>2, LeafIsValue
  <2> HIDE DEF w
  <2>4. KeysOf(v) = {}
    BY <1>2, NoKeys DEF Containers
  <2>5. KeysOf(w) = {}
    <3>1. \A k \in Keys : <<k>> # <<>>
      BY LastOf
    <3> QED
      BY <2>3, <3>1 DEF KeysOf
  <2>6. Children(w, <<>>) = {}
    BY <2>3, <2>5, ChildrenAtRoot
  <2>7. size(w, <<>>) = 0
    <3>1. Cardinality({}) = 0
      BY NoneAtAll
    <3> QED
      BY <2>6, <3>1 DEF size
  <2>8. size(v, <<>>) = 0
    BY <1>2, SizeOfOther DEF Containers
  <2> QED
    BY <1>2, <2>1, <2>2, <2>3, <2>4, <2>5, <2>7, <2>8
<1> QED
  BY <1>1, <1>2
\* A node in which something is noted.
LEMMA NodeNoted ==
  ASSUME NEW n, GoodNode(n), NEW m, DOMAIN m = DOMAIN n, m = [field \in DOMAIN m |-> m[field]],
         m.type = n.type, m.val = n.val
  PROVE  GoodNode(m)
<1>1. DOMAIN n = DOMAIN Null
  BY DEF GoodNode
<1> QED
  BY <1>1 DEF GoodNode

\* A Value whose own node is changed, and nothing below it.
LEMMA RootChanged ==
  ASSUME NEW v, IsValue(v), NEW w, DOMAIN w = DOMAIN v, w = [p \in DOMAIN w |-> w[p]],
         \A p \in DOMAIN v : p # <<>> => w[p] = v[p],
         GoodNode(w[<<>>]), w[<<>>].type = v[<<>>].type
  PROVE  /\ IsValue(w) /\ KeysOf(w) = KeysOf(v)
         /\ \A k \in KeysOf(v) : Child(w, k) = Child(v, k)
<1>1. Shaped(v)
  BY ValueIsShaped
<1>2. DOMAIN w \subseteq Routes /\ <<>> \in DOMAIN w /\ IsFiniteSet(DOMAIN w)
  BY <1>1 DEF Shaped
<1>3. \A p \in DOMAIN w : GoodNode(w[p]) /\ w[p].type = v[p].type
  BY <1>1 DEF Shaped
<1>4. \A q \in Routes, k \in Keys : q \o <<k>> \in DOMAIN w => q \in DOMAIN w /\ IsKey(w[q].type, k)
  <2>1. \A q \in Routes, k \in Keys : q \o <<k>> \in DOMAIN w => q \in DOMAIN v /\ IsKey(v[q].type, k)
    BY <1>1 DEF Shaped
  <2> QED
    BY <1>3, <2>1
<1>5. IsValue(w)
  <2>1. Shaped(w)
    BY <1>2, <1>3, <1>4 DEF Shaped
  <2> QED
    BY <2>1, ValueIsShaped
<1>6. ASSUME NEW k \in KeysOf(v)
      PROVE  Child(w, k) = Child(v, k)
  <2>1. k \in Keys /\ DOMAIN v \subseteq Routes
    BY <1>2 DEF KeysOf
  <2>2. \A r \in Routes : r # <<>> /\ r[1] = k => /\ r \in DOMAIN w <=> r \in DOMAIN v
                                                  /\ r \in DOMAIN w => w[r] = v[r]
    OBVIOUS
  <2> QED
    BY <1>2, <2>1, <2>2, SameChild
<1> QED
  BY <1>5, <1>6 DEF KeysOf

\* A comment is set, a payload copied, a container cleared.
LEMMA SetCommentElements ==
  ASSUME NEW v, IsValue(v), NEW comment, NEW slot
  PROVE  LET w == setComment(v, <<>>, comment, slot)
         IN  /\ IsValue(w) /\ KeysOf(w) = KeysOf(v) /\ w[<<>>].type = v[<<>>].type
             /\ \A k \in KeysOf(v) : Child(w, k) = Child(v, k)
<1> DEFINE w == setComment(v, <<>>, comment, slot)
           n == v[<<>>]
<1>1. <<>> \in DOMAIN v /\ v = [p \in DOMAIN v |-> v[p]] /\ GoodNode(n)
  BY ValueParts
<1>2. PICK c : w = [v EXCEPT ![<<>>] = [@ EXCEPT !.comments = c]]
  BY DEF setComment
<1>3. DOMAIN w = DOMAIN v /\ w = [p \in DOMAIN w |-> w[p]] /\ \A p \in DOMAIN v : p # <<>> => w[p] = v[p]
  BY <1>2
<1>4. w[<<>>] = [n EXCEPT !.comments = c]
  BY <1>1, <1>2
<1> HIDE DEF w
<1> DEFINE m == [n EXCEPT !.comments = c]
<1>5. /\ DOMAIN m = DOMAIN n /\ m = [field \in DOMAIN m |-> m[field]]
      /\ m.type = n.type /\ m.val = n.val
  <2>1. n = [field \in DOMAIN Null |-> n[field]]
    BY <1>1 DEF GoodNode
  <2>2. DOMAIN n = {"type", "val", "comments", "start", "limit"}
    BY <2>1 DEF Null, Node
  <2> HIDE DEF n
  <2> QED
    BY <2>2
<1> HIDE DEF m
<1>6. GoodNode(m)
  BY <1>1, <1>5, NodeNoted
<1>7. w = [p \in DOMAIN w |-> w[p]] /\ DOMAIN w = DOMAIN v
  BY <1>3
<1>8. w[<<>>] = m /\ (\A p \in DOMAIN v : p # <<>> => w[p] = v[p]) /\ m.type = v[<<>>].type
  BY <1>3, <1>4, <1>5 DEF m, n
<1> HIDE DEF w
<1>9. GoodNode(w[<<>>]) /\ w[<<>>].type = v[<<>>].type
  BY <1>6, <1>8
<1>10. /\ IsValue(w) /\ KeysOf(w) = KeysOf(v)
       /\ \A k \in KeysOf(v) : Child(w, k) = Child(v, k)
  BY <1>7, <1>8, <1>9, RootChanged
<1> QED
  BY <1>9, <1>10 DEF w

LEMMA WithPayloadElements ==
  ASSUME NEW v, IsValue(v), NEW x, IsValue(x)
  PROVE  /\ IsValue(WithPayload(v, x)) /\ KeysOf(WithPayload(v, x)) = KeysOf(x)
         /\ WithPayload(v, x)[<<>>].type = x[<<>>].type
         /\ \A k \in KeysOf(x) : Child(WithPayload(v, x), k) = Child(x, k)
<1> DEFINE w == WithPayload(v, x)
           n == v[<<>>]
           m == [n EXCEPT !.type = x[<<>>].type, !.val = x[<<>>].val]
<1>1. <<>> \in DOMAIN x /\ x = [p \in DOMAIN x |-> x[p]] /\ GoodNode(x[<<>>]) /\ GoodNode(n)
  BY ValueParts
<1>2. w = [x EXCEPT ![<<>>] = m]
  BY DEF WithPayload
<1>3. /\ DOMAIN w = DOMAIN x /\ w = [p \in DOMAIN w |-> w[p]] /\ \A p \in DOMAIN x : p # <<>> => w[p] = x[p]
      /\ w[<<>>] = m
  BY <1>1, <1>2
<1>4. GoodNode(m) /\ m.type = x[<<>>].type
  <2>1. n = [field \in DOMAIN Null |-> n[field]]
    BY <1>1 DEF GoodNode
  <2>2. DOMAIN n = {"type", "val", "comments", "start", "limit"} /\ DOMAIN Null = DOMAIN n
    BY <2>1 DEF Null, Node
  <2> HIDE DEF n
  <2>3. /\ DOMAIN m = DOMAIN n /\ m = [field \in DOMAIN m |-> m[field]]
        /\ m.type = x[<<>>].type /\ m.val = x[<<>>].val
    BY <2>2
  <2>4. IsPayload(x[<<>>].type, x[<<>>].val)
    BY <1>1 DEF GoodNode
  <2> HIDE DEF m
  <2> QED
    BY <2>2, <2>3, <2>4 DEF GoodNode
<1> HIDE DEF w, m
<1> QED
  BY <1>3, <1>4, RootChanged DEF w

LEMMA ClearElements ==
  ASSUME NEW v, IsValue(v)
  PROVE  IsValue(clear(v)) /\ KeysOf(clear(v)) = {} /\ clear(v)[<<>>].type = v[<<>>].type
<1> DEFINE n == v[<<>>]
           m == [n EXCEPT !.start = 0, !.limit = 0]
           w == [p \in {<<>>} |-> m]
<1>1. <<>> \in DOMAIN v /\ GoodNode(n)
  BY ValueParts
<1>2. clear(v) = w
  BY DEF clear
<1>3. GoodNode(m) /\ m.type = n.type
  <2>1. n = [field \in DOMAIN Null |-> n[field]]
    BY <1>1 DEF GoodNode
  <2>2. DOMAIN n = {"type", "val", "comments", "start", "limit"}
    BY <2>1 DEF Null, Node
  <2> HIDE DEF n
  <2>3. /\ DOMAIN m = DOMAIN n /\ m = [field \in DOMAIN m |-> m[field]]
        /\ m.type = n.type /\ m.val = n.val
    BY <2>2
  <2> HIDE DEF m
  <2> QED
    BY <1>1, <2>3, NodeNoted
<1> HIDE DEF m
<1>4. DOMAIN w = {<<>>} /\ w = [p \in DOMAIN w |-> w[p]] /\ w[<<>>] = m
  OBVIOUS
<1> HIDE DEF w
<1>5. \A q \in Routes, k \in Keys : q \o <<k>> \notin DOMAIN w
  BY <1>4, LastOf DEF Routes
<1>6. DOMAIN w \subseteq Routes /\ IsFiniteSet(DOMAIN w)
  BY <1>4, EmptySeq, FiniteOne DEF Routes
<1>7. IsValue(w)
  <2>1. Shaped(w)
    BY <1>3, <1>4, <1>5, <1>6 DEF Shaped
  <2> QED
    BY <2>1, ValueIsShaped
<1>8. KeysOf(w) = {}
  <2>1. \A k \in Keys : <<k>> # <<>>
    OBVIOUS
  <2> QED
    BY <1>4, <2>1 DEF KeysOf
<1> QED
  BY <1>2, <1>3, <1>4, <1>7, <1>8-----------------------------------------------------------------------------
(***************************************************************************)
(* Arrays.                                                                 *)
(***************************************************************************)
\* The element at an index: a null, if there is none.
Nth(v, i) == IF Index(i) \in KeysOf(v) THEN Child(v, Index(i)) ELSE Empty

IsArray(v) == IsValue(v) /\ v[<<>>].type = "array"

LEMMA ChildIsValue ==
  ASSUME NEW v, IsValue(v), NEW k \in KeysOf(v)
  PROVE  IsValue(Child(v, k))
<1>1. <<k>> \in DOMAIN v
  BY DEF KeysOf
<1> DEFINE p == <<k>>
<1> HIDE DEF p
<1>2. p \in DOMAIN v
  BY <1>1 DEF p
<1>3. IsValue(Subtree(v, p))
  BY <1>2, SubtreeIsValue
<1> QED
  BY <1>3 DEF Child, p

LEMMA NthIsValue ==
  ASSUME NEW v, IsValue(v), NEW i
  PROVE  IsValue(Nth(v, i))
BY ChildIsValue, EmptyIsValue DEF Nth

LEMMA OtherIndex ==
  \A i, j \in Nat : Index(i) = Index(j) => i = j
BY IndexKeys

LEMMA ReplaceNth ==
  ASSUME NEW v, IsArray(v), NEW i \in Nat, NEW x, IsValue(x)
  PROVE  LET w == Replace(v, Index(i), x)
         IN  /\ IsArray(w) /\ KeysOf(w) = KeysOf(v) \cup {Index(i)}
             /\ \A l \in Nat : Nth(w, l) = IF l = i THEN x ELSE Nth(v, l)
<1> DEFINE k == Index(i)
           w == Replace(v, k, x)
<1>1. k \in Keys /\ IsKey(v[<<>>].type, k)
  BY IndexKeys DEF IsArray
<1> HIDE DEF k
<1>2. /\ IsValue(w) /\ w[<<>>] = v[<<>>]
      /\ KeysOf(w) = KeysOf(v) \cup {k}
      /\ Child(w, k) = x
      /\ \A l \in KeysOf(v) : l # k => Child(w, l) = Child(v, l)
  BY <1>1, ReplaceElements DEF IsArray
<1> HIDE DEF w
<1>3. ASSUME NEW l \in Nat
      PROVE  Nth(w, l) = IF l = i THEN x ELSE Nth(v, l)
  <2>1. CASE l = i
    BY <1>2, <2>1 DEF Nth, k
  <2>2. CASE l # i
    <3>1. Index(l) # k
      BY <2>2, OtherIndex DEF k
    <3> QED
      BY <1>2, <2>2, <3>1 DEF Nth
  <2> QED
    BY <2>1, <2>2
<1> QED
  BY <1>2, <1>3 DEF IsArray, w, k

LEMMA SubscriptNth ==
  ASSUME NEW v, IsArray(v), NEW i \in Nat
  PROVE  LET w == Subscript(v, Index(i))
         IN  /\ IsArray(w) /\ KeysOf(w) = KeysOf(v) \cup {Index(i)}
             /\ \A l \in Nat : Nth(w, l) = Nth(v, l)
             /\ Child(w, Index(i)) = Nth(v, i)
<1> DEFINE k == Index(i)
           w == Subscript(v, k)
<1>1. k \in Keys /\ IsKey(v[<<>>].type, k)
  BY IndexKeys DEF IsArray
<1> HIDE DEF k
<1>2. /\ IsValue(w) /\ w[<<>>] = v[<<>>]
      /\ KeysOf(w) = KeysOf(v) \cup {k}
      /\ Child(w, k) = IF k \in KeysOf(v) THEN Child(v, k) ELSE Empty
      /\ \A l \in KeysOf(v) : l # k => Child(w, l) = Child(v, l)
  BY <1>1, SubscriptElements DEF IsArray
<1> HIDE DEF w
<1>3. ASSUME NEW l \in Nat
      PROVE  Nth(w, l) = Nth(v, l)
  <2>1. CASE l = i
    BY <1>2, <2>1 DEF Nth, k
  <2>2. CASE l # i
    <3>1. Index(l) # k
      BY <2>2, OtherIndex DEF k
    <3> QED
      BY <1>2, <2>2, <3>1 DEF Nth
  <2> QED
    BY <2>1, <2>2
<1>4. Child(w, k) = Nth(v, i)
  BY <1>2 DEF Nth, k
<1> QED
  BY <1>2, <1>3, <1>4 DEF IsArray, w, k

LEMMA SwappedNth ==
  ASSUME NEW v, IsArray(v), NEW i \in Nat, NEW j \in Nat, i # j
  PROVE  LET w == Swapped(v, Index(i), Index(j))
         IN  /\ IsArray(w) /\ KeysOf(w) = KeysOf(v) \cup {Index(i), Index(j)}
             /\ \A l \in Nat : Nth(w, l) = IF l = i THEN Nth(v, j) ELSE IF l = j THEN Nth(v, i) ELSE Nth(v, l)
<1> DEFINE a == Subscript(v, Index(i))
           b == Subscript(a, Index(j))
           x == Child(b, Index(j))
           y == Child(b, Index(i))
           c == Replace(b, Index(i), x)
           d == Replace(c, Index(j), y)
<1>1. Swapped(v, Index(i), Index(j)) = d
  BY DEF Swapped
<1>2. IsArray(a) /\ KeysOf(a) = KeysOf(v) \cup {Index(i)} /\ \A l \in Nat : Nth(a, l) = Nth(v, l)
  BY SubscriptNth
<1> HIDE DEF a
<1>3. /\ IsArray(b) /\ KeysOf(b) = KeysOf(a) \cup {Index(j)} /\ \A l \in Nat : Nth(b, l) = Nth(a, l)
  BY <1>2, SubscriptNth
<1> HIDE DEF b
<1>4. x = Nth(v, j) /\ y = Nth(v, i)
  <2>1. x = Nth(b, j) /\ y = Nth(b, i)
    BY <1>2, <1>3 DEF Nth
  <2> QED
    BY <1>2, <1>3, <2>1
<1>5. IsValue(x) /\ IsValue(y)
  BY <1>4, NthIsValue DEF IsArray
<1> HIDE DEF x, y
<1>6. /\ IsArray(c) /\ KeysOf(c) = KeysOf(b) \cup {Index(i)}
      /\ \A l \in Nat : Nth(c, l) = IF l = i THEN x ELSE Nth(b, l)
  BY <1>3, <1>5, ReplaceNth
<1> HIDE DEF c
<1>7. /\ IsArray(d) /\ KeysOf(d) = KeysOf(c) \cup {Index(j)}
      /\ \A l \in Nat : Nth(d, l) = IF l = j THEN y ELSE Nth(c, l)
  BY <1>5, <1>6, ReplaceNth
<1> HIDE DEF d
<1>8. KeysOf(d) = KeysOf(v) \cup {Index(i), Index(j)}
  BY <1>2, <1>3, <1>6, <1>7
<1>9. \A l \in Nat : Nth(d, l) = IF l = i THEN Nth(v, j) ELSE IF l = j THEN Nth(v, i) ELSE Nth(v, l)
  BY <1>2, <1>3, <1>4, <1>6, <1>7
<1> QED
  BY <1>1, <1>7, <1>8, <1>9

LEMMA EraseNth ==
  ASSUME NEW v, IsArray(v), NEW S
  PROVE  LET w == Erase(v, S)
         IN  /\ IsArray(w) /\ KeysOf(w) = KeysOf(v) \ S
             /\ \A l \in Nat : Nth(w, l) = IF Index(l) \in S THEN Empty ELSE Nth(v, l)
<1> DEFINE w == Erase(v, S)
<1>1. /\ IsValue(w) /\ w[<<>>] = v[<<>>] /\ KeysOf(w) = KeysOf(v) \ S
      /\ \A l \in KeysOf(v) \ S : Child(w, l) = Child(v, l)
  BY EraseElements DEF IsArray
<1> HIDE DEF w
<1>2. \A l \in Nat : Nth(w, l) = IF Index(l) \in S THEN Empty ELSE Nth(v, l)
  BY <1>1 DEF Nth
<1> QED
  BY <1>1, <1>2 DEF IsArray, w

\* The size of an array, by its indices.
LEMMA ArraySize ==
  ASSUME NEW v, IsArray(v)
  PROVE  /\ size(v, <<>>) \in Nat
         /\ \A l \in Nat : l >= size(v, <<>>) => Nth(v, l) = Empty /\ Index(l) \notin KeysOf(v)
         /\ \A k \in KeysOf(v) : k[2] \in 0 .. size(v, <<>>) - 1 /\ k = Index(k[2])
<1> DEFINE n == size(v, <<>>)
<1>1. n \in Nat /\ \A k \in KeysOf(v) : k[2] \in 0 .. n - 1 /\ k = Index(k[2])
  BY SizeOf DEF IsArray
<1> HIDE DEF n
<1>2. ASSUME NEW l \in Nat, l >= n
      PROVE  Index(l) \notin KeysOf(v)
  <2>1. Index(l)[2] = l
    BY IndexKeys
  <2> QED
    BY <1>1, <1>2, <2>1
<1> QED
  BY <1>1, <1>2 DEF Nth, n
\* The loop of insert has a result after each of its steps.
Lifted(v, last, index) ==
    LET moved[j \in 0 .. last - index] == IF j = 0 THEN As(v, "array") ELSE Swapped(moved[j - 1], Index(last + 1 - j), Index(last - j))
    IN  moved

LEMMA MovedUp ==
  ASSUME NEW v, NEW last \in Nat, NEW index \in 0 .. last
  PROVE  /\ Lifted(v, last, index)[0] = As(v, "array")
         /\ \A j \in 1 .. last - index : Lifted(v, last, index)[j] = Swapped(Lifted(v, last, index)[j - 1], Index(last + 1 - j), Index(last - j))
<1> DEFINE n == last - index
           b == As(v, "array")
           G(j, w) == Swapped(w, Index(last + 1 - j), Index(last - j))
           Is(k, f) == f = [j \in 0 .. k |-> IF j = 0 THEN b ELSE G(j, f[j - 1])]
           A == {k \in Nat : \E f : Is(k, f)}
<1>1. n \in Nat
  OBVIOUS
<1> HIDE DEF n, b, G
<1>2. 0 \in A
  <2>1. Is(0, [j \in 0 .. 0 |-> b])
    OBVIOUS
  <2> QED
    BY <2>1
<1>3. ASSUME NEW k \in 0 .. n - 1, k \in A
      PROVE  k + 1 \in A
  <2>1. PICK f : Is(k, f)
    BY <1>3
  <2> DEFINE g == [j \in 0 .. k + 1 |-> IF j <= k THEN f[j] ELSE G(k + 1, f[k])]
  <2>2. \A j \in 0 .. k : g[j] = f[j]
    BY <1>1
  <2>3. g[k + 1] = G(k + 1, f[k]) /\ g = [j \in 0 .. k + 1 |-> g[j]]
    BY <1>1
  <2> HIDE DEF g
  <2>4. ASSUME NEW j \in 0 .. k + 1
        PROVE  g[j] = IF j = 0 THEN b ELSE G(j, g[j - 1])
    <3>1. CASE j = 0
      <4>1. 0 \in 0 .. k
        BY <1>1
      <4>2. f[0] = b
        BY <2>1, <4>1
      <4> QED
        BY <2>2, <3>1, <4>1, <4>2
    <3>2. CASE j \in 1 .. k
      <4>1. j \in 0 .. k /\ j - 1 \in 0 .. k /\ j # 0
        BY <3>2
      <4>2. f[j] = G(j, f[j - 1])
        BY <2>1, <4>1
      <4> QED
        BY <2>2, <4>1, <4>2
    <3>3. CASE j = k + 1
      <4>1. j # 0 /\ j - 1 = k /\ k \in 0 .. k
        BY <1>1, <3>3
      <4> QED
        BY <2>2, <2>3, <3>3, <4>1
    <3> QED
      BY <1>1, <3>1, <3>2, <3>3
  <2>5. Is(k + 1, g)
    BY <2>3, <2>4
  <2> QED
    BY <1>1, <2>5
<1>4. n \in A
  <2> HIDE DEF A
  <2> QED
    BY <1>1, <1>2, <1>3, InductionUpTo
<1> DEFINE h == CHOOSE f : Is(n, f)
<1>5. Is(n, h)
  BY <1>4
<1> HIDE DEF h
<1>6. h[0] = b /\ \A j \in 1 .. n : h[j] = G(j, h[j - 1])
  <2>1. \A j \in 0 .. n : h[j] = IF j = 0 THEN b ELSE G(j, h[j - 1])
    BY <1>5
  <2>2. 0 \in 0 .. n /\ \A j \in 1 .. n : j \in 0 .. n /\ j # 0
    BY <1>1
  <2> QED
    BY <2>1, <2>2
<1> QED
  BY <1>6 DEF h, n, b, G, Lifted
LEMMA AsArray ==
  ASSUME NEW v, IsValue(v), May(v, "array")
  PROVE  /\ IsArray(As(v, "array")) /\ KeysOf(As(v, "array")) = KeysOf(v)
         /\ size(As(v, "array"), <<>>) = size(v, <<>>)
         /\ \A i : Nth(As(v, "array"), i) = Nth(v, i)
<1> DEFINE a == As(v, "array")
<1>1. /\ IsValue(a) /\ a[<<>>].type = "array" /\ KeysOf(a) = KeysOf(v)
      /\ \A k \in KeysOf(v) : Child(a, k) = Child(v, k)
      /\ size(a, <<>>) = size(v, <<>>)
  BY AsContainer DEF Containers
<1> HIDE DEF a
<1>2. \A i : Nth(a, i) = Nth(v, i)
  BY <1>1 DEF Nth
<1> QED
  BY <1>1, <1>2 DEF IsArray, a

\* insert: the elements from the index on are one higher than they were.
LEMMA InsertNth ==
  ASSUME NEW v, IsValue(v), May(v, "array"), NEW x, IsValue(x), NEW index \in 0 .. size(v, <<>>)
  PROVE  LET w == insert(v, index, x)
         IN  /\ IsArray(w) /\ size(w, <<>>) = size(v, <<>>) + 1
             /\ \A i \in Nat :
                    Nth(w, i) = IF i < index THEN Nth(v, i) ELSE IF i = index THEN x ELSE Nth(v, i - 1)
<1> DEFINE n == size(v, <<>>)
           a == As(v, "array")
           moved == Lifted(v, n, index)
           w == Replace(moved[n - index], Index(index), x)
<1>1. insert(v, index, x) = w
  BY DEF insert, Lifted
<1>2. /\ IsArray(a) /\ KeysOf(a) = KeysOf(v) /\ size(a, <<>>) = n
      /\ \A i : Nth(a, i) = Nth(v, i)
  BY AsArray
<1>3. /\ n \in Nat /\ index \in 0 .. n
      /\ \A l \in Nat : l >= n => Nth(a, l) = Empty /\ Index(l) \notin KeysOf(a)
      /\ \A k \in KeysOf(a) : k[2] \in 0 .. n - 1
  <2> HIDE DEF a
  <2>1. /\ size(a, <<>>) \in Nat
        /\ \A l \in Nat : l >= size(a, <<>>) => Nth(a, l) = Empty /\ Index(l) \notin KeysOf(a)
        /\ \A k \in KeysOf(a) : k[2] \in 0 .. size(a, <<>>) - 1
    BY <1>2, ArraySize
  <2> QED
    BY <1>2, <2>1
<1>4. moved[0] = a /\ \A j \in 1 .. n - index : moved[j] = Swapped(moved[j - 1], Index(n + 1 - j), Index(n - j))
  <2> HIDE DEF n
  <2> QED
    BY <1>3, MovedUp
<1> HIDE DEF n, a, moved
<1> DEFINE Good(j, u) ==
               /\ IsArray(u) /\ \A k \in KeysOf(u) : k[2] <= n
               /\ j > 0 => Index(n) \in KeysOf(u)
               /\ \A i \in Nat : Nth(u, i) = IF i < n - j THEN Nth(a, i)
                                             ELSE IF i = n - j THEN Empty ELSE Nth(a, i - 1)
           B == {j \in 0 .. n - index : Good(j, moved[j])}
<1>5. 0 \in B
  <2>1. ASSUME NEW i \in Nat
        PROVE  Nth(a, i) = IF i < n - 0 THEN Nth(a, i) ELSE IF i = n - 0 THEN Empty ELSE Nth(a, i - 1)
    <3>1. CASE i < n
      BY <1>3, <3>1
    <3>2. CASE i = n
      BY <1>3, <3>2
    <3>3. CASE i > n
      <4>1. i - 1 \in Nat /\ i - 1 >= n /\ i >= n
        BY <1>3, <3>3
      <4>2. Nth(a, i) = Empty /\ Nth(a, i - 1) = Empty
        BY <1>3, <4>1
      <4> QED
        BY <1>3, <3>3, <4>2
    <3> QED
      BY <1>3, <3>1, <3>2, <3>3
  <2>2. \A k \in KeysOf(a) : k[2] <= n
    BY <1>3
  <2>3. Good(0, moved[0])
    BY <1>2, <1>4, <2>1, <2>2
  <2> HIDE DEF Good
  <2> QED
    BY <1>3, <2>3
<1>6. ASSUME NEW j \in 0 .. n - index - 1, j \in B
      PROVE  j + 1 \in B
  <2>1. /\ j + 1 \in 1 .. n - index /\ (j + 1) - 1 = j /\ n + 1 - (j + 1) = n - j /\ n - (j + 1) \in Nat
        /\ n - j \in Nat /\ n - j # n - (j + 1)
    BY <1>3
  <2> DEFINE u == moved[j]
             hi == n - j
             lo == n - (j + 1)
             t == Swapped(u, Index(hi), Index(lo))
  <2>2. moved[j + 1] = t
    <3> HIDE DEF t
    <3>1. moved[j + 1] = Swapped(moved[(j + 1) - 1], Index(n + 1 - (j + 1)), Index(n - (j + 1)))
      BY <1>4, <2>1
    <3> QED
      BY <2>1, <3>1 DEF t
  <2>3. Good(j, u)
    BY <1>6
  <2>4. hi \in Nat /\ lo \in Nat /\ hi = lo + 1 /\ hi <= n /\ hi = n - j /\ lo = n - (j + 1)
    BY <1>3, <2>1
  <2> HIDE DEF u, hi, lo
  <2>5. /\ IsArray(t) /\ KeysOf(t) = KeysOf(u) \cup {Index(hi), Index(lo)}
        /\ \A l \in Nat : Nth(t, l) = IF l = hi THEN Nth(u, lo) ELSE IF l = lo THEN Nth(u, hi) ELSE Nth(u, l)
    BY <2>3, <2>4, SwappedNth
  <2> HIDE DEF t
  <2>6. \A k \in KeysOf(t) : k[2] <= n
    <3>1. Index(hi)[2] = hi /\ Index(lo)[2] = lo /\ lo <= n
      BY <1>3, <2>4, IndexKeys
    <3> QED
      BY <2>3, <2>4, <2>5, <3>1
  <2>7. Index(n) \in KeysOf(t)
    <3>1. CASE j = 0
      <4>1. hi = n
        BY <1>3, <2>4, <3>1
      <4> QED
        BY <2>5, <4>1
    <3>2. CASE j # 0
      <4>1. j > 0
        BY <3>2
      <4> QED
        BY <2>3, <2>5, <4>1
    <3> QED
      BY <3>1, <3>2
  <2>8. ASSUME NEW i \in Nat
        PROVE  Nth(t, i) = IF i < n - (j + 1) THEN Nth(a, i)
                           ELSE IF i = n - (j + 1) THEN Empty ELSE Nth(a, i - 1)
    <3>1. \A l \in Nat : Nth(u, l) = IF l < hi THEN Nth(a, l) ELSE IF l = hi THEN Empty ELSE Nth(a, l - 1)
      BY <2>3, <2>4
    <3>2. Nth(t, i) = IF i = hi THEN Nth(u, lo) ELSE IF i = lo THEN Nth(u, hi) ELSE Nth(u, i)
      BY <2>5
    <3>3. Nth(u, lo) = Nth(a, lo) /\ Nth(u, hi) = Empty
      BY <2>4, <3>1
    <3>4. Nth(t, i) = IF i < lo THEN Nth(a, i) ELSE IF i = lo THEN Empty ELSE Nth(a, i - 1)
      <4>1. CASE i = hi
        <5>1. i - 1 = lo /\ ~(i < lo) /\ i # lo
          BY <2>4, <4>1
        <5> QED
          BY <3>2, <3>3, <4>1, <5>1
      <4>2. CASE i = lo
        <5>1. i # hi /\ ~(i < lo)
          BY <2>4, <4>2
        <5> QED
          BY <3>2, <3>3, <4>2, <5>1
      <4>3. CASE i # hi /\ i # lo
        <5>1. (i < hi <=> i < lo) /\ ~(i = hi)
          BY <2>4, <4>3
        <5> QED
          BY <3>1, <3>2, <4>3, <5>1
      <4> QED
        BY <4>1, <4>2, <4>3
    <3> QED
      BY <2>4, <3>4
  <2>9. Good(j + 1, t)
    BY <2>5, <2>6, <2>7, <2>8
  <2> HIDE DEF Good
  <2> QED
    BY <1>3, <2>1, <2>2, <2>9
<1>7. n - index \in B
  <2>1. n - index \in Nat
    BY <1>3
  <2> DEFINE m == n - index
  <2> HIDE DEF B, m
  <2>2. m \in Nat /\ \A j \in 0 .. m - 1 : j \in B => j + 1 \in B
    BY <1>6, <2>1 DEF m
  <2>3. \A j \in 0 .. m : j \in B
    BY <1>5, <2>2, InductionUpTo
  <2> QED
    BY <2>2, <2>3 DEF m
<1> DEFINE u == moved[n - index]
<1>8. /\ IsArray(u) /\ \A k \in KeysOf(u) : k[2] <= n
      /\ n - index > 0 => Index(n) \in KeysOf(u)
      /\ \A i \in Nat : Nth(u, i) = IF i < index THEN Nth(a, i) ELSE IF i = index THEN Empty ELSE Nth(a, i - 1)
  <2>1. n - (n - index) = index
    BY <1>3
  <2>2. Good(n - index, u)
    BY <1>7
  <2> HIDE DEF u
  <2> QED
    BY <2>1, <2>2
<1> HIDE DEF u, B, Good
<1>9. /\ IsArray(w) /\ KeysOf(w) = KeysOf(u) \cup {Index(index)}
      /\ \A l \in Nat : Nth(w, l) = IF l = index THEN x ELSE Nth(u, l)
  <2>1. index \in Nat
    BY <1>3
  <2> QED
    BY <1>8, <2>1, ReplaceNth DEF u
<1> HIDE DEF w
<1>10. size(w, <<>>) = n + 1
  <2>1. Index(index)[2] = index /\ index \in Nat /\ index < n + 1
    BY <1>3, IndexKeys
  <2>2. \A k \in KeysOf(w) : k[2] < n + 1
    <3>1. \A k \in KeysOf(u) : k[2] \in Nat
      BY <1>8, ValueParts, IndexKeys DEF IsArray
    <3> QED
      BY <1>3, <1>8, <1>9, <2>1, <3>1
  <2>3. Index(n) \in KeysOf(w)
    <3>1. n - index > 0 \/ n = index
      BY <1>3
    <3> QED
      BY <1>8, <1>9, <3>1
  <2>4. n + 1 \in Nat /\ (n + 1) - 1 = n
    BY <1>3
  <2> QED
    BY <1>9, <2>2, <2>3, <2>4, SizeIs DEF IsArray
<1>11. \A i \in Nat : Nth(w, i) = IF i < index THEN Nth(v, i) ELSE IF i = index THEN x ELSE Nth(v, i - 1)
  BY <1>2, <1>3, <1>8, <1>9
<1> QED
  BY <1>1, <1>9, <1>10, <1>11 DEF n
\* append
LEMMA AppendNth ==
  ASSUME NEW v, IsValue(v), May(v, "array"), NEW x, IsValue(x)
  PROVE  LET w == append(v, x)
         IN  /\ IsArray(w) /\ size(w, <<>>) = size(v, <<>>) + 1
             /\ \A i \in Nat : Nth(w, i) = IF i = size(v, <<>>) THEN x ELSE Nth(v, i)
<1> DEFINE n == size(v, <<>>)
           a == As(v, "array")
           w == Replace(a, Index(n), x)
<1>1. /\ IsArray(a) /\ KeysOf(a) = KeysOf(v) /\ size(a, <<>>) = n
      /\ \A i : Nth(a, i) = Nth(v, i)
  BY AsArray
<1>2. append(v, x) = w
  BY <1>1 DEF append
<1> HIDE DEF a
<1>3. n \in Nat /\ \A k \in KeysOf(a) : k[2] \in 0 .. n - 1
  BY <1>1, ArraySize
<1> HIDE DEF n
<1>4. /\ IsArray(w) /\ KeysOf(w) = KeysOf(a) \cup {Index(n)}
      /\ \A l \in Nat : Nth(w, l) = IF l = n THEN x ELSE Nth(a, l)
  BY <1>1, <1>3, ReplaceNth
<1> HIDE DEF w
<1>5. size(w, <<>>) = n + 1
  <2>1. \A k \in KeysOf(w) : k[2] < n + 1
    <3>1. Index(n)[2] = n
      BY <1>3, IndexKeys
    <3> QED
      BY <1>3, <1>4, <3>1
  <2>2. n + 1 \in Nat /\ (n + 1) - 1 = n /\ Index(n) \in KeysOf(w)
    BY <1>3, <1>4
  <2> QED
    BY <1>4, <2>1, <2>2, SizeIs DEF IsArray
<1> QED
  BY <1>1, <1>2, <1>4, <1>5 DEF n


\* The loop of removeIndex has a result after each of its steps.
Lower(u, i) == LET next == Subscript(u, Index(i + 1)) IN Replace(next, Index(i), Child(next, Index(i + 1)))

Lowered(v, last, index) ==
    LET moved[j \in 0 .. last - index] == IF j = 0 THEN v ELSE Lower(moved[j - 1], index + j - 1)
    IN  moved

LEMMA MovedDown ==
  ASSUME NEW v, NEW last \in Nat, NEW index \in 0 .. last
  PROVE  /\ Lowered(v, last, index)[0] = v
         /\ \A j \in 1 .. last - index :
                Lowered(v, last, index)[j] = Lower(Lowered(v, last, index)[j - 1], index + j - 1)
<1> DEFINE n == last - index
           b == v
           G(j, w) == Lower(w, index + j - 1)
           Is(k, f) == f = [j \in 0 .. k |-> IF j = 0 THEN b ELSE G(j, f[j - 1])]
           A == {k \in Nat : \E f : Is(k, f)}
<1>1. n \in Nat
  OBVIOUS
<1> HIDE DEF n, b, G
<1>2. 0 \in A
  <2>1. Is(0, [j \in 0 .. 0 |-> b])
    OBVIOUS
  <2> QED
    BY <2>1
<1>3. ASSUME NEW k \in 0 .. n - 1, k \in A
      PROVE  k + 1 \in A
  <2>1. PICK f : Is(k, f)
    BY <1>3
  <2> DEFINE g == [j \in 0 .. k + 1 |-> IF j <= k THEN f[j] ELSE G(k + 1, f[k])]
  <2>2. \A j \in 0 .. k : g[j] = f[j]
    BY <1>1
  <2>3. g[k + 1] = G(k + 1, f[k]) /\ g = [j \in 0 .. k + 1 |-> g[j]]
    BY <1>1
  <2> HIDE DEF g
  <2>4. ASSUME NEW j \in 0 .. k + 1
        PROVE  g[j] = IF j = 0 THEN b ELSE G(j, g[j - 1])
    <3>1. CASE j = 0
      <4>1. 0 \in 0 .. k
        BY <1>1
      <4>2. f[0] = b
        BY <2>1, <4>1
      <4> QED
        BY <2>2, <3>1, <4>1, <4>2
    <3>2. CASE j \in 1 .. k
      <4>1. j \in 0 .. k /\ j - 1 \in 0 .. k /\ j # 0
        BY <3>2
      <4>2. f[j] = G(j, f[j - 1])
        BY <2>1, <4>1
      <4> QED
        BY <2>2, <4>1, <4>2
    <3>3. CASE j = k + 1
      <4>1. j # 0 /\ j - 1 = k /\ k \in 0 .. k
        BY <1>1, <3>3
      <4> QED
        BY <2>2, <2>3, <3>3, <4>1
    <3> QED
      BY <1>1, <3>1, <3>2, <3>3
  <2>5. Is(k + 1, g)
    BY <2>3, <2>4
  <2> QED
    BY <1>1, <2>5
<1>4. n \in A
  <2> HIDE DEF A
  <2> QED
    BY <1>1, <1>2, <1>3, InductionUpTo
<1> DEFINE h == CHOOSE f : Is(n, f)
<1>5. Is(n, h)
  BY <1>4
<1> HIDE DEF h
<1>6. h[0] = b /\ \A j \in 1 .. n : h[j] = G(j, h[j - 1])
  <2>1. \A j \in 0 .. n : h[j] = IF j = 0 THEN b ELSE G(j, h[j - 1])
    BY <1>5
  <2>2. 0 \in 0 .. n /\ \A j \in 1 .. n : j \in 0 .. n /\ j # 0
    BY <1>1
  <2> QED
    BY <2>1, <2>2
<1> QED
  BY <1>6 DEF h, n, b, G, Lowered


\* So has the one of resize.
Grown(v, old, to) ==
    LET grown[j \in 0 .. to - old] == IF j = 0 THEN v ELSE Subscript(grown[j - 1], Index(old + j - 1))
    IN  grown

LEMMA GrownUp ==
  ASSUME NEW v, NEW old \in Nat, NEW to \in Nat, old <= to
  PROVE  /\ Grown(v, old, to)[0] = v
         /\ \A j \in 1 .. to - old : Grown(v, old, to)[j] = Subscript(Grown(v, old, to)[j - 1], Index(old + j - 1))
<1> DEFINE n == to - old
           b == v
           G(j, w) == Subscript(w, Index(old + j - 1))
           Is(k, f) == f = [j \in 0 .. k |-> IF j = 0 THEN b ELSE G(j, f[j - 1])]
           A == {k \in Nat : \E f : Is(k, f)}
<1>1. n \in Nat
  OBVIOUS
<1> HIDE DEF n, b, G
<1>2. 0 \in A
  <2>1. Is(0, [j \in 0 .. 0 |-> b])
    OBVIOUS
  <2> QED
    BY <2>1
<1>3. ASSUME NEW k \in 0 .. n - 1, k \in A
      PROVE  k + 1 \in A
  <2>1. PICK f : Is(k, f)
    BY <1>3
  <2> DEFINE g == [j \in 0 .. k + 1 |-> IF j <= k THEN f[j] ELSE G(k + 1, f[k])]
  <2>2. \A j \in 0 .. k : g[j] = f[j]
    BY <1>1
  <2>3. g[k + 1] = G(k + 1, f[k]) /\ g = [j \in 0 .. k + 1 |-> g[j]]
    BY <1>1
  <2> HIDE DEF g
  <2>4. ASSUME NEW j \in 0 .. k + 1
        PROVE  g[j] = IF j = 0 THEN b ELSE G(j, g[j - 1])
    <3>1. CASE j = 0
      <4>1. 0 \in 0 .. k
        BY <1>1
      <4>2. f[0] = b
        BY <2>1, <4>1
      <4> QED
        BY <2>2, <3>1, <4>1, <4>2
    <3>2. CASE j \in 1 .. k
      <4>1. j \in 0 .. k /\ j - 1 \in 0 .. k /\ j # 0
        BY <3>2
      <4>2. f[j] = G(j, f[j - 1])
        BY <2>1, <4>1
      <4> QED
        BY <2>2, <4>1, <4>2
    <3>3. CASE j = k + 1
      <4>1. j # 0 /\ j - 1 = k /\ k \in 0 .. k
        BY <1>1, <3>3
      <4> QED
        BY <2>2, <2>3, <3>3, <4>1
    <3> QED
      BY <1>1, <3>1, <3>2, <3>3
  <2>5. Is(k + 1, g)
    BY <2>3, <2>4
  <2> QED
    BY <1>1, <2>5
<1>4. n \in A
  <2> HIDE DEF A
  <2> QED
    BY <1>1, <1>2, <1>3, InductionUpTo
<1> DEFINE h == CHOOSE f : Is(n, f)
<1>5. Is(n, h)
  BY <1>4
<1> HIDE DEF h
<1>6. h[0] = b /\ \A j \in 1 .. n : h[j] = G(j, h[j - 1])
  <2>1. \A j \in 0 .. n : h[j] = IF j = 0 THEN b ELSE G(j, h[j - 1])
    BY <1>5
  <2>2. 0 \in 0 .. n /\ \A j \in 1 .. n : j \in 0 .. n /\ j # 0
    BY <1>1
  <2> QED
    BY <2>1, <2>2
<1> QED
  BY <1>6 DEF h, n, b, G, Grown
\* Without a hole
LEMMA DenseKeys ==
  ASSUME NEW v, IsArray(v), Cardinality(KeysOf(v)) = size(v, <<>>)
  PROVE  \A i \in 0 .. size(v, <<>>) - 1 : Index(i) \in KeysOf(v)
<1> DEFINE n == size(v, <<>>)
           f == [k \in KeysOf(v) |-> k[2]]
<1>1. n \in Nat /\ \A k \in KeysOf(v) : k[2] \in 0 .. n - 1 /\ k = Index(k[2])
  BY ArraySize
<1>2. f \in [KeysOf(v) -> 0 .. n - 1] /\ \A k, l \in KeysOf(v) : f[k] = f[l] => k = l
  BY <1>1
<1>3. IsFiniteSet(KeysOf(v))
  BY KeysFinite DEF IsArray
<1>4. \A k \in KeysOf(v) : f[k] = k[2]
  OBVIOUS
<1> HIDE DEF n, f
<1>5. \A i \in 0 .. n - 1 : \E k \in KeysOf(v) : f[k] = i
  BY <1>1, <1>2, <1>3, AllBelow DEF n
<1>6. \A i \in 0 .. n - 1 : Index(i) \in KeysOf(v)
  BY <1>1, <1>4, <1>5
<1> QED
  BY <1>6 DEF n

\* removeIndex: the elements behind the index are one lower than they were.
LEMMA RemoveNth ==
  ASSUME NEW v, IsArray(v), NEW index \in Nat, Index(index) \in KeysOf(v)
  PROVE  LET w == removeIndex(v, index)
         IN  /\ IsArray(w)
             /\ \A i \in Nat : Nth(w, i) = IF i < index THEN Nth(v, i) ELSE Nth(v, i + 1)
             /\ (\A i \in 0 .. size(v, <<>>) - 1 : Index(i) \in KeysOf(v)) =>
                    size(w, <<>>) = size(v, <<>>) - 1
<1> DEFINE last == size(v, <<>>) - 1
           moved == Lowered(v, last, index)
           w == Erase(moved[last - index], {Index(last)})
<1>1. removeIndex(v, index) = w
  BY DEF removeIndex, Lowered, Lower
<1>2. /\ last \in Nat /\ index \in 0 .. last /\ last + 1 = size(v, <<>>)
      /\ \A l \in Nat : l > last => Nth(v, l) = Empty
      /\ \A k \in KeysOf(v) : k[2] \in 0 .. last
  <2>1. /\ size(v, <<>>) \in Nat
        /\ \A l \in Nat : l >= size(v, <<>>) => Nth(v, l) = Empty
        /\ \A k \in KeysOf(v) : k[2] \in 0 .. size(v, <<>>) - 1
    BY ArraySize
  <2>2. Index(index)[2] = index
    BY IndexKeys
  <2>3. index \in 0 .. last
    BY <2>1, <2>2
  <2> QED
    BY <2>1, <2>3
<1>3. moved[0] = v /\ \A j \in 1 .. last - index : moved[j] = Lower(moved[j - 1], index + j - 1)
  <2> HIDE DEF last
  <2> QED
    BY <1>2, MovedDown
<1> HIDE DEF last, moved
<1>4. ASSUME NEW u, IsArray(u), NEW i \in Nat
      PROVE  /\ IsArray(Lower(u, i)) /\ KeysOf(Lower(u, i)) = KeysOf(u) \cup {Index(i), Index(i + 1)}
             /\ \A l \in Nat : Nth(Lower(u, i), l) = IF l = i THEN Nth(u, i + 1) ELSE Nth(u, l)
  <2> DEFINE s == Subscript(u, Index(i + 1))
             x == Child(s, Index(i + 1))
             t == Replace(s, Index(i), x)
  <2>1. Lower(u, i) = t
    BY DEF Lower
  <2>2. /\ IsArray(s) /\ KeysOf(s) = KeysOf(u) \cup {Index(i + 1)}
        /\ \A l \in Nat : Nth(s, l) = Nth(u, l)
        /\ x = Nth(u, i + 1)
    <3>1. i + 1 \in Nat
      OBVIOUS
    <3> HIDE DEF t
    <3> DEFINE m == i + 1
    <3> HIDE DEF m
    <3>2. m \in Nat
      BY <3>1 DEF m
    <3>3. LET y == Subscript(u, Index(m))
          IN  /\ IsArray(y) /\ KeysOf(y) = KeysOf(u) \cup {Index(m)}
              /\ \A l \in Nat : Nth(y, l) = Nth(u, l)
              /\ Child(y, Index(m)) = Nth(u, m)
      BY <3>2, <1>4, SubscriptNth
    <3> QED
      BY <3>3 DEF m
  <2> HIDE DEF s
  <2>3. IsValue(x)
    BY <1>4, <2>2, NthIsValue DEF IsArray
  <2> HIDE DEF x
  <2>4. /\ IsArray(t) /\ KeysOf(t) = KeysOf(s) \cup {Index(i)}
        /\ \A l \in Nat : Nth(t, l) = IF l = i THEN x ELSE Nth(s, l)
    BY <2>2, <2>3, ReplaceNth
  <2> HIDE DEF t
  <2> QED
    BY <2>1, <2>2, <2>4
<1> DEFINE Good(j, u) ==
               /\ IsArray(u) /\ KeysOf(v) \subseteq KeysOf(u) /\ \A k \in KeysOf(u) : k[2] <= last
               /\ j > 0 => Index(index + j - 1) \in KeysOf(u)
               /\ \A i \in Nat : Nth(u, i) = IF index <= i /\ i < index + j THEN Nth(v, i + 1) ELSE Nth(v, i)
           B == {j \in 0 .. last - index : Good(j, moved[j])}
<1>5. 0 \in B
  <2>1. Good(0, v)
    BY <1>2
  <2> HIDE DEF Good
  <2> QED
    BY <1>2, <1>3, <2>1
<1>6. ASSUME NEW j \in 0 .. last - index - 1, j \in B
      PROVE  j + 1 \in B
  <2> DEFINE u == moved[j]
             at == index + j
             t == Lower(u, at)
  <2>1. /\ j + 1 \in 1 .. last - index /\ (j + 1) - 1 = j /\ index + (j + 1) - 1 = at
        /\ at \in Nat /\ at + 1 <= last /\ j + 1 \in 0 .. last - index
    BY <1>2
  <2>2. moved[j + 1] = t
    <3>1. moved[j + 1] = Lower(moved[(j + 1) - 1], index + (j + 1) - 1)
      BY <1>3, <2>1
    <3> QED
      BY <2>1, <3>1
  <2>3. Good(j, u)
    BY <1>6
  <2>4. at = index + j
    OBVIOUS
  <2> HIDE DEF u, at
  <2>5. /\ IsArray(t) /\ KeysOf(t) = KeysOf(u) \cup {Index(at), Index(at + 1)}
        /\ \A l \in Nat : Nth(t, l) = IF l = at THEN Nth(u, at + 1) ELSE Nth(u, l)
    BY <1>4, <2>1, <2>3
  <2> HIDE DEF t
  <2>6. \A k \in KeysOf(t) : k[2] <= last
    <3>1. Index(at)[2] = at /\ Index(at + 1)[2] = at + 1
      BY <2>1, IndexKeys
    <3> QED
      BY <1>2, <2>1, <2>3, <2>5, <3>1
  <2>7. \A i \in Nat : Nth(t, i) = IF index <= i /\ i < index + (j + 1) THEN Nth(v, i + 1) ELSE Nth(v, i)
    <3>1. Nth(u, at + 1) = Nth(v, at + 1)
      <4>1. at + 1 \in Nat /\ ~(at + 1 < index + j)
        BY <2>1, <2>4
      <4> QED
        BY <2>3, <4>1
    <3>2. ASSUME NEW i \in Nat
          PROVE  Nth(t, i) = IF index <= i /\ i < index + (j + 1) THEN Nth(v, i + 1) ELSE Nth(v, i)
      <4>1. CASE i = at
        <5>1. index <= i /\ i < index + (j + 1)
          BY <1>2, <2>1, <2>4, <4>1
        <5> QED
          BY <2>5, <3>1, <4>1, <5>1
      <4>2. CASE i # at
        <5>1. i < index + (j + 1) <=> i < index + j
          BY <1>2, <2>1, <2>4, <4>2
        <5> QED
          BY <2>3, <2>5, <4>2, <5>1
      <4> QED
        BY <4>1, <4>2
    <3> QED
      BY <3>2
  <2>8. Good(j + 1, t)
    <3>1. Index(index + (j + 1) - 1) \in KeysOf(t) /\ KeysOf(v) \subseteq KeysOf(t)
      BY <2>1, <2>3, <2>5
    <3> QED
      BY <2>5, <2>6, <2>7, <3>1
  <2> HIDE DEF Good
  <2> QED
    BY <2>1, <2>2, <2>8
<1> DEFINE m == last - index
           u == moved[m]
<1>7. m \in B /\ m \in Nat
  <2>1. m \in Nat
    BY <1>2
  <2>2. \A j \in 0 .. m - 1 : j \in B => j + 1 \in B
    BY <1>6
  <2> HIDE DEF B, m
  <2>3. \A j \in 0 .. m : j \in B
    BY <1>5, <2>1, <2>2, InductionUpTo
  <2> QED
    BY <2>1, <2>3
<1>8. /\ IsArray(u) /\ KeysOf(v) \subseteq KeysOf(u) /\ \A k \in KeysOf(u) : k[2] <= last
      /\ index < last => Index(last - 1) \in KeysOf(u)
      /\ \A i \in Nat : Nth(u, i) = IF index <= i /\ i < last THEN Nth(v, i + 1) ELSE Nth(v, i)
  <2>1. index + m = last /\ index + m - 1 = last - 1 /\ (index < last => m > 0)
    BY <1>2
  <2>2. Good(m, u)
    BY <1>7
  <2> HIDE DEF m, u
  <2>3. /\ m > 0 => Index(index + m - 1) \in KeysOf(u)
        /\ \A i \in Nat : Nth(u, i) = IF index <= i /\ i < index + m THEN Nth(v, i + 1) ELSE Nth(v, i)
    BY <2>2
  <2>4. index < last => Index(last - 1) \in KeysOf(u)
    BY <2>1, <2>3
  <2>5. \A i \in Nat : Nth(u, i) = IF index <= i /\ i < last THEN Nth(v, i + 1) ELSE Nth(v, i)
    BY <2>1, <2>3
  <2>6. IsArray(u) /\ KeysOf(v) \subseteq KeysOf(u) /\ \A k \in KeysOf(u) : k[2] <= last
    BY <2>2
  <2> QED
    BY <2>4, <2>5, <2>6
<1> HIDE DEF u, m, B, Good
<1>9. /\ IsArray(w) /\ KeysOf(w) = KeysOf(u) \ {Index(last)}
      /\ \A l \in Nat : Nth(w, l) = IF Index(l) \in {Index(last)} THEN Empty ELSE Nth(u, l)
  BY <1>8, EraseNth DEF u, m
<1> HIDE DEF w
<1>10. ASSUME NEW i \in Nat
       PROVE  Nth(w, i) = IF i < index THEN Nth(v, i) ELSE Nth(v, i + 1)
  <2>1. CASE i = last
    <3>1. i + 1 \in Nat /\ i + 1 > last /\ ~(i < index)
      BY <1>2, <2>1
    <3>2. Nth(v, i + 1) = Empty
      BY <1>2, <3>1
    <3> QED
      BY <1>9, <2>1, <3>1, <3>2
  <2>2. CASE i # last
    <3>1. Index(i) # Index(last)
      BY <1>2, <2>2, OtherIndex
    <3>2. Nth(w, i) = Nth(u, i)
      BY <1>9, <3>1
    <3>3. CASE i < last
      BY <1>2, <1>8, <3>2, <3>3
    <3>4. CASE i > last
      <4>1. i + 1 \in Nat /\ i + 1 > last /\ ~(i < index) /\ ~(i < last)
        BY <1>2, <3>4
      <4>2. Nth(v, i) = Empty /\ Nth(v, i + 1) = Empty
        BY <1>2, <3>4, <4>1
      <4> QED
        BY <1>8, <3>2, <4>1, <4>2
    <3> QED
      BY <1>2, <2>2, <3>3, <3>4
  <2> QED
    BY <2>1, <2>2
<1>11. ASSUME \A i \in 0 .. last : Index(i) \in KeysOf(v)
       PROVE  size(w, <<>>) = last
  <2>1. \A k \in KeysOf(w) : k[2] < last
    <3>1. \A k \in KeysOf(u) : k[2] \in Nat /\ k = Index(k[2])
      BY <1>8, ValueParts, IndexKeys DEF IsArray
    <3> QED
      BY <1>2, <1>8, <1>9, <3>1
  <2>2. last = 0 \/ Index(last - 1) \in KeysOf(w)
    <3>1. CASE last # 0
      <4>1. last - 1 \in 0 .. last /\ last - 1 \in Nat /\ last - 1 # last
        BY <1>2, <3>1
      <4>2. Index(last - 1) \in KeysOf(u) /\ Index(last - 1) # Index(last)
        BY <1>2, <1>8, <1>11, <4>1, OtherIndex
      <4> QED
        BY <1>9, <4>2
    <3> QED
      BY <3>1
  <2> QED
    BY <1>2, <1>9, <2>1, <2>2, SizeIs DEF IsArray
<1>12. (\A i \in 0 .. size(v, <<>>) - 1 : Index(i) \in KeysOf(v)) => size(w, <<>>) = size(v, <<>>) - 1
  BY <1>11 DEF last
<1> QED
  BY <1>1, <1>9, <1>10, <1>12
\* resize
LEMMA ResizeNth ==
  ASSUME NEW v, IsValue(v), May(v, "array"), NEW n \in Nat
  PROVE  LET w == resize(v, n)
         IN  /\ IsArray(w)
             /\ \A i \in Nat : Nth(w, i) = IF i < n THEN Nth(v, i) ELSE Empty
             /\ n = 0 \/ (\A i \in 0 .. size(v, <<>>) - 1 : Index(i) \in KeysOf(v)) => size(w, <<>>) = n
<1> DEFINE a == As(v, "array")
           old == size(a, <<>>)
           grown == Grown(a, old, n)
           w == resize(v, n)
<1>1. w = CASE n = 0 -> clear(a)
            [] n > old -> grown[n - old]
            [] OTHER -> Erase(a, {Index(i) : i \in n .. old - 1})
  BY DEF resize, Grown
<1>2. /\ IsArray(a) /\ KeysOf(a) = KeysOf(v) /\ old = size(v, <<>>)
      /\ \A i : Nth(a, i) = Nth(v, i)
  BY AsArray
<1> HIDE DEF w, a, grown
<1>3. /\ old \in Nat
      /\ \A l \in Nat : l >= old => Nth(a, l) = Empty /\ Index(l) \notin KeysOf(a)
      /\ \A k \in KeysOf(a) : k[2] \in 0 .. old - 1 /\ k = Index(k[2])
  BY <1>2, ArraySize
<1> HIDE DEF old
<1> DEFINE Dense0 == \A i \in 0 .. old - 1 : Index(i) \in KeysOf(a)
<1> SUFFICES /\ IsArray(w)
             /\ \A i \in Nat : Nth(w, i) = IF i < n THEN Nth(a, i) ELSE Empty
             /\ n = 0 \/ Dense0 => size(w, <<>>) = n
  BY <1>2 DEF w
<1>4. CASE n = 0
  <2>1. w = clear(a)
    <3>1. ~(n > old)
      BY <1>3, <1>4
    <3> QED
      BY <1>1, <1>4, <3>1
  <2>2. IsArray(w) /\ KeysOf(w) = {}
    BY <1>2, <2>1, ClearElements DEF IsArray
  <2>3. \A i \in Nat : Nth(w, i) = Empty /\ ~(i < n)
    BY <1>4, <2>2 DEF Nth
  <2>4. size(w, <<>>) = n
    BY <1>4, <2>2, SizeIs DEF IsArray
  <2> QED
    BY <2>2, <2>3, <2>4
<1>5. CASE n # 0 /\ n > old
  <2>1. w = grown[n - old]
    BY <1>1, <1>5
  <2>2. grown[0] = a /\ \A j \in 1 .. n - old : grown[j] = Subscript(grown[j - 1], Index(old + j - 1))
    <3>1. old <= n
      BY <1>3, <1>5
    <3> QED
      BY <1>3, <3>1, GrownUp DEF grown
  <2> DEFINE Good(j, u) ==
                 /\ IsArray(u) /\ \A k \in KeysOf(u) : k[2] < old + j
                 /\ j > 0 => Index(old + j - 1) \in KeysOf(u)
                 /\ \A i \in Nat : Nth(u, i) = Nth(a, i)
             B == {j \in 0 .. n - old : Good(j, grown[j])}
  <2>3. 0 \in B
    <3>1. Good(0, a)
      BY <1>2, <1>3
    <3> HIDE DEF Good
    <3> QED
      BY <1>3, <1>5, <2>2, <3>1
  <2>4. ASSUME NEW j \in 0 .. n - old - 1, j \in B
        PROVE  j + 1 \in B
    <3> DEFINE u == grown[j]
               at == old + j
               t == Subscript(u, Index(at))
    <3>1. /\ j + 1 \in 1 .. n - old /\ (j + 1) - 1 = j /\ old + (j + 1) - 1 = at
          /\ at \in Nat /\ j + 1 \in 0 .. n - old /\ at < old + (j + 1)
      BY <1>3
    <3>2. grown[j + 1] = t
      <4>1. grown[j + 1] = Subscript(grown[(j + 1) - 1], Index(old + (j + 1) - 1))
        BY <2>2, <3>1
      <4> QED
        BY <3>1, <4>1
    <3>3. Good(j, u)
      BY <2>4
    <3>4. at = old + j
      OBVIOUS
    <3> HIDE DEF u, at
    <3>5. /\ IsArray(t) /\ KeysOf(t) = KeysOf(u) \cup {Index(at)}
          /\ \A l \in Nat : Nth(t, l) = Nth(u, l)
      BY <3>1, <3>3, SubscriptNth
    <3> HIDE DEF t
    <3>6. \A k \in KeysOf(t) : k[2] < old + (j + 1)
      <4>1. Index(at)[2] = at
        BY <3>1, IndexKeys
      <4>2. \A k \in KeysOf(u) : k[2] \in Nat
        BY <3>3, ValueParts, IndexKeys DEF IsArray
      <4> QED
        BY <1>3, <3>1, <3>3, <3>5, <4>1, <4>2
    <3>7. Good(j + 1, t)
      BY <3>1, <3>3, <3>5, <3>6
    <3> HIDE DEF Good
    <3> QED
      BY <3>1, <3>2, <3>7
  <2>5. Good(n - old, w)
    <3> DEFINE m == n - old
    <3>1. m \in Nat
      BY <1>3, <1>5
    <3>2. \A j \in 0 .. m - 1 : j \in B => j + 1 \in B
      BY <2>4
    <3> HIDE DEF B, m
    <3>3. m \in B
      <4>1. \A j \in 0 .. m : j \in B
        BY <2>3, <3>1, <3>2, InductionUpTo
      <4> QED
        BY <3>1, <4>1
    <3> HIDE DEF Good
    <3> QED
      BY <2>1, <3>3 DEF B, m
  <2>6. /\ IsArray(w) /\ \A k \in KeysOf(w) : k[2] < n
        /\ Index(n - 1) \in KeysOf(w)
        /\ \A i \in Nat : Nth(w, i) = Nth(a, i)
    <3> DEFINE m == n - old
    <3>1. old + m = n /\ m > 0 /\ old + m - 1 = n - 1
      BY <1>3, <1>5
    <3>2. Good(m, w)
      BY <2>5
    <3> HIDE DEF m
    <3>3. /\ IsArray(w) /\ \A k \in KeysOf(w) : k[2] < old + m
          /\ Index(old + m - 1) \in KeysOf(w)
          /\ \A i \in Nat : Nth(w, i) = Nth(a, i)
      BY <3>1, <3>2
    <3> QED
      BY <3>1, <3>3
  <2>7. size(w, <<>>) = n
    BY <2>6, SizeIs DEF IsArray
  <2>8. \A i \in Nat : Nth(w, i) = IF i < n THEN Nth(a, i) ELSE Empty
    <3>1. \A i \in Nat : ~(i < n) => i >= old
      BY <1>3, <1>5
    <3> QED
      BY <1>3, <2>6, <3>1
  <2> QED
    BY <2>6, <2>7, <2>8
<1>6. CASE n # 0 /\ ~(n > old)
  <2> DEFINE S == {Index(i) : i \in n .. old - 1}
  <2>1. w = Erase(a, S)
    BY <1>1, <1>6
  <2>2. \A l \in Nat : Index(l) \in S <=> n <= l /\ l < old
    <3>1. ASSUME NEW l \in Nat, Index(l) \in S
          PROVE  n <= l /\ l < old
      <4>1. PICK i \in n .. old - 1 : Index(l) = Index(i)
        BY <3>1
      <4>2. i \in Nat /\ i = l
        BY <1>3, <4>1, OtherIndex
      <4> QED
        BY <1>3, <4>1, <4>2
    <3>2. ASSUME NEW l \in Nat, n <= l, l < old
          PROVE  Index(l) \in S
      <4>1. l \in n .. old - 1
        BY <1>3, <3>2
      <4> QED
        BY <4>1
    <3> QED
      BY <3>1, <3>2
  <2> HIDE DEF S
  <2>3. /\ IsArray(w) /\ KeysOf(w) = KeysOf(a) \ S
        /\ \A l \in Nat : Nth(w, l) = IF Index(l) \in S THEN Empty ELSE Nth(a, l)
    BY <1>2, <2>1, EraseNth
  <2>4. \A i \in Nat : Nth(w, i) = IF i < n THEN Nth(a, i) ELSE Empty
    <3>1. \A i \in Nat : i < n \/ (n <= i /\ i < old) \/ (n <= i /\ i >= old)
      BY <1>3
    <3> QED
      BY <1>3, <2>2, <2>3, <3>1
  <2>5. ASSUME Dense0
        PROVE  size(w, <<>>) = n
    <3>1. \A k \in KeysOf(w) : k[2] < n
      <4>1. ASSUME NEW k \in KeysOf(w)
            PROVE  k[2] < n
        <5>1. k[2] \in 0 .. old - 1 /\ k = Index(k[2]) /\ k \notin S
          BY <1>3, <2>3
        <5> QED
          BY <1>3, <2>2, <5>1
      <4> QED
        BY <4>1
    <3>2. Index(n - 1) \in KeysOf(w)
      <4>1. n - 1 \in 0 .. old - 1 /\ n - 1 \in Nat /\ ~(n <= n - 1)
        BY <1>3, <1>6
      <4>2. Index(n - 1) \in KeysOf(a) /\ Index(n - 1) \notin S
        BY <2>2, <2>5, <4>1
      <4> QED
        BY <2>3, <4>2
    <3> QED
      BY <2>3, <3>1, <3>2, SizeIs DEF IsArray
  <2> QED
    BY <1>6, <2>3, <2>4, <2>5
<1> QED
  BY <1>4, <1>5, <1>6-----------------------------------------------------------------------------
(***************************************************************************)
(* Paths made into a Value.                                                *)
(***************************************************************************)
\* What is there is asked for, and put where it is.
LEMMA SubscriptThere ==
  ASSUME NEW v, IsValue(v), NEW k \in KeysOf(v)
  PROVE  Subscript(v, k) = v
<1> DEFINE at == <<k>>
           w == [p \in DOMAIN v \cup {at} |-> IF p \in DOMAIN v THEN v[p] ELSE Null]
<1>1. Subscript(v, k) = w
  <2>1. Append(<<>>, k) = <<k>>
    OBVIOUS
  <2> QED
    BY <2>1 DEF Subscript, resolveReference
<1>2. v = [p \in DOMAIN v |-> v[p]]
  BY ValueParts
<1>3. at \in DOMAIN v
  BY DEF KeysOf
<1>4. w = v
  BY <1>2, <1>3
<1> QED
  BY <1>1, <1>4

LEMMA PutSame ==
  ASSUME NEW v, IsValue(v), NEW p \in DOMAIN v
  PROVE  Put(v, p, Subtree(v, p)) = v
<1> DEFINE x == Subtree(v, p)
           w == Put(v, p, x)
<1>1. p \in Routes /\ DOMAIN v \subseteq Routes /\ v = [q \in DOMAIN v |-> v[q]]
  BY ValueParts
<1>2. /\ DOMAIN x = {q \in Routes : p \o q \in DOMAIN v}
      /\ \A q \in Routes : p \o q \in DOMAIN v => x[q] = v[p \o q]
  BY <1>1, SubtreeAt
<1> HIDE DEF x
<1>3. /\ DOMAIN w \subseteq Routes
      /\ \A q \in Routes : p \o q \in DOMAIN w <=> q \in DOMAIN x
      /\ \A q \in DOMAIN x : w[p \o q] = x[q]
      /\ \A r \in Routes : ~IsPrefix(p, r) => (r \in DOMAIN w <=> r \in DOMAIN v)
      /\ \A r \in DOMAIN v : ~IsPrefix(p, r) => w[r] = v[r]
      /\ w = [r \in DOMAIN w |-> w[r]]
  <2>1. DOMAIN x \subseteq Routes
    BY <1>2
  <2> QED
    BY <1>1, <2>1, PutAt
<1> HIDE DEF w
<1>4. ASSUME NEW r \in Routes
      PROVE  (r \in DOMAIN w <=> r \in DOMAIN v) /\ (r \in DOMAIN v => w[r] = v[r])
  <2>1. CASE IsPrefix(p, r)
    <3>1. PICK q \in Routes : r = p \o q
      BY <1>1, <2>1, RouteBehind
    <3>2. r \in DOMAIN w <=> q \in DOMAIN x
      BY <1>3, <3>1
    <3>3. q \in DOMAIN x <=> r \in DOMAIN v
      BY <1>2, <3>1
    <3>4. r \in DOMAIN v => w[r] = x[q] /\ x[q] = v[r]
      BY <1>2, <1>3, <3>1, <3>3
    <3> QED
      BY <3>2, <3>3, <3>4
  <2>2. CASE ~IsPrefix(p, r)
    BY <1>3, <2>2
  <2> QED
    BY <2>1, <2>2
<1>5. DOMAIN w = DOMAIN v /\ \A r \in DOMAIN w : w[r] = v[r]
  BY <1>1, <1>3, <1>4
<1>6. w = v
  BY ONLY <1>1, <1>3, <1>5, SameFunction
<1> QED
  BY <1>6 DEF w, x

\* What a path asks for.
ArgKeys == ({-1} \X Nat) \cup Seq(Nat)

LEMMA ArgKeyOf ==
  ASSUME NEW k \in ArgKeys
  PROVE  /\ k \in Keys /\ IsKey(ContainerFor(k), k) /\ ContainerFor(k) \in Containers
         /\ \A type : IsKey(type, k) => type = ContainerFor(k)
<1>1. CASE k \in {-1} \X Nat
  <2>1. IsKey("array", k)
    BY <1>1 DEF IsKey
  <2>2. IsIndex(k) /\ k \in Keys
    <3>1. k = Index(k[2]) /\ k[2] \in Nat
      BY <2>1, IndexKeys
    <3> QED
      BY <3>1, IndexKeys
  <2>3. \A type : IsKey(type, k) => type = "array"
    BY <2>2, NameKeys DEF IsKey
  <2> QED
    BY <2>1, <2>2, <2>3 DEF ContainerFor, Containers
<1>2. CASE k \in Seq(Nat)
  <2>1. IsKey("object", k)
    BY <1>2 DEF IsKey
  <2>2. ~IsIndex(k) /\ k \in Keys
    BY <2>1, NameKeys
  <2>3. \A type : IsKey(type, k) => type = "object"
    BY <2>2, IndexKeys DEF IsKey
  <2> QED
    BY <2>1, <2>2, <2>3 DEF ContainerFor, Containers
<1> QED
  BY <1>1, <1>2 DEF ArgKeys

\* operator[] at a path: there is something then, which is what was there or a
\* new null.
LEMMA SubscriptedIs ==
  ASSUME NEW root, IsValue(root), NEW p \in DOMAIN root, NEW k \in ArgKeys,
         May(Subtree(root, p), ContainerFor(k))
  PROVE  /\ IsValue(Subscripted(root, p, k)) /\ Append(p, k) \in DOMAIN Subscripted(root, p, k)
         /\ \/ Subscripted(root, p, k) = root
            \/ Subscripted(root, p, k)[Append(p, k)].type = "null"
<1> DEFINE v == Subtree(root, p)
           c == As(v, ContainerFor(k))
           u == Subscript(c, k)
           w == Put(root, p, u)
<1>1. Subscripted(root, p, k) = w
  BY DEF Subscripted, As, Subscript
<1>2. /\ k \in Keys /\ IsKey(ContainerFor(k), k) /\ ContainerFor(k) \in Containers
  BY ArgKeyOf
<1>3. p \in Routes /\ DOMAIN root \subseteq Routes
  BY ValueParts
<1>4. IsValue(v)
  BY SubtreeIsValue
<1> HIDE DEF v
<1>5. /\ IsValue(c) /\ c[<<>>].type = ContainerFor(k) /\ KeysOf(c) = KeysOf(v)
      /\ v[<<>>].type = ContainerFor(k) => c = v
  BY <1>2, <1>4, AsContainer DEF v
<1> HIDE DEF c
<1>6. /\ IsValue(u) /\ KeysOf(u) = KeysOf(c) \cup {k}
      /\ Child(u, k) = IF k \in KeysOf(c) THEN Child(c, k) ELSE Empty
  BY <1>2, <1>5, SubscriptElements
<1>7. k \in KeysOf(c) => u = v
  <2>1. ASSUME k \in KeysOf(c)
        PROVE  u = v
    <3>1. u = c
      BY <1>5, <2>1, SubscriptThere
    <3>2. v[<<>>].type = ContainerFor(k)
      <4>1. v[<<>>].type # "null"
        BY <1>4, <1>5, <2>1, NoKeys DEF Containers
      <4> QED
        BY <4>1 DEF May, v
    <3> QED
      BY <1>5, <3>1, <3>2
  <2> QED
    BY <2>1
<1> HIDE DEF u
<1>8. IsValue(w)
  BY <1>6, PutIsValue, <1>3 DEF Fits
<1> DEFINE at == <<k>>
<1>9. /\ at \in DOMAIN u /\ at \in Routes /\ Append(p, k) = p \o at
  BY <1>2, <1>3, <1>6, LastOf DEF KeysOf, Routes
<1>10. /\ DOMAIN u \subseteq Routes
       /\ \A q \in Routes : p \o q \in DOMAIN w <=> q \in DOMAIN u
       /\ \A q \in DOMAIN u : w[p \o q] = u[q]
  <2>1. DOMAIN u \subseteq Routes
    BY <1>6, ValueParts
  <2> QED
    BY <1>3, <2>1, PutAt
<1>11. CASE k \in KeysOf(c)
  <2>1. w = root
    BY <1>7, <1>11, PutSame DEF v
  <2> HIDE DEF w, at
  <2> QED
    BY <1>1, <1>8, <1>9, <1>10, <2>1
<1>12. CASE k \notin KeysOf(c)
  <2>1. u[at].type = "null"
    <3>1. Child(u, k) = Empty
      BY <1>6, <1>12
    <3>2. at \o <<>> = at /\ <<>> \in Routes
      BY <1>9, ConcatEmptySeq, EmptySeq DEF Routes
    <3>3. Child(u, k)[<<>>] = u[at]
      <4> DEFINE e == <<>>
      <4> HIDE DEF e
      <4>1. e \in Routes /\ at \o e = at
        BY <3>2 DEF e
      <4>2. \A q \in Routes : <<k>> \o q \in DOMAIN u => Child(u, k)[q] = u[<<k>> \o q]
        BY <1>2, <1>10, ChildAt
      <4> HIDE DEF at
      <4>3. Child(u, k)[e] = u[at]
        BY <1>9, <4>1, <4>2 DEF at
      <4> QED
        BY <4>3 DEF e
    <3> QED
      BY <3>1, <3>3, EmptyIsValue
  <2> HIDE DEF w, at
  <2>2. w[p \o at].type = "null"
    BY <1>9, <1>10, <2>1
  <2> QED
    BY <1>1, <1>8, <1>9, <1>10, <2>2
<1> QED
  BY <1>11, <1>12
\* The loop of make has a result after each of its steps.
Begun(root) == [ok |-> TRUE, root |-> root, at |-> <<>>]

Asked(x, key) ==
    IF ~x.ok \/ ~May(Subtree(x.root, x.at), ContainerFor(key))
    THEN [x EXCEPT !.ok = FALSE]
    ELSE [x EXCEPT !.root = Subscripted(x.root, x.at, key), !.at = Append(@, key)]

Made(root, args) ==
    LET made[i \in 0 .. Len(args)] ==
            LET x   == made[i - 1]
                key == args[i]
            IN  CASE i = 0 -> [ok |-> TRUE, root |-> root, at |-> <<>>]
                  [] i > 0 /\ (~x.ok \/ ~May(Subtree(x.root, x.at), ContainerFor(key))) ->
                         [x EXCEPT !.ok = FALSE]
                  [] OTHER -> [x EXCEPT !.root = Subscripted(x.root, x.at, key), !.at = Append(@, key)]
    IN  made

LEMMA MadeSteps ==
  ASSUME NEW root, NEW args, Len(args) \in Nat
  PROVE  /\ make(root, args) = Made(root, args)[Len(args)]
         /\ Made(root, args)[0] = Begun(root)
         /\ \A i \in 1 .. Len(args) : Made(root, args)[i] = Asked(Made(root, args)[i - 1], args[i])
<1> DEFINE n == Len(args)
           Step(i, x) ==
               CASE i = 0 -> [ok |-> TRUE, root |-> root, at |-> <<>>]
                 [] i > 0 /\ (~x.ok \/ ~May(Subtree(x.root, x.at), ContainerFor(args[i]))) ->
                        [x EXCEPT !.ok = FALSE]
                 [] OTHER -> [x EXCEPT !.root = Subscripted(x.root, x.at, args[i]), !.at = Append(@, args[i])]
           b == Begun(root)
           Is(k, f) == f = [i \in 0 .. k |-> Step(i, f[i - 1])]
           A == {k \in Nat : \E f : Is(k, f)}
<1>1. n \in Nat
  OBVIOUS
<1>2. \A x : Step(0, x) = b
  BY DEF Begun
<1>3. \A i \in 1 .. n : \A x : Step(i, x) = Asked(x, args[i])
  BY DEF Asked
<1> HIDE DEF n, Step, b
<1>4. 0 \in A
  <2> DEFINE f == [i \in 0 .. 0 |-> b]
  <2>1. Is(0, f)
    BY <1>2
  <2> HIDE DEF Is, f
  <2> QED
    BY <2>1
<1>5. ASSUME NEW k \in 0 .. n - 1, k \in A
      PROVE  k + 1 \in A
  <2>1. PICK f : Is(k, f)
    BY <1>5
  <2> DEFINE g == [i \in 0 .. k + 1 |-> IF i <= k THEN f[i] ELSE Step(k + 1, f[k])]
  <2>2. \A i \in 0 .. k : g[i] = f[i]
    BY <1>1
  <2>3. g[k + 1] = Step(k + 1, f[k]) /\ g = [i \in 0 .. k + 1 |-> g[i]]
    BY <1>1
  <2> HIDE DEF g
  <2>4. ASSUME NEW i \in 0 .. k + 1
        PROVE  g[i] = Step(i, g[i - 1])
    <3>1. CASE i = 0
      <4>1. 0 \in 0 .. k
        BY <1>1
      <4>2. f[0] = b
        BY <1>2, <2>1, <4>1
      <4> QED
        BY <1>2, <2>2, <3>1, <4>1, <4>2
    <3>2. CASE i \in 1 .. k
      <4>1. i \in 0 .. k /\ i - 1 \in 0 .. k
        BY <3>2
      <4>2. f[i] = Step(i, f[i - 1])
        BY <2>1, <4>1
      <4> QED
        BY <2>2, <4>1, <4>2
    <3>3. CASE i = k + 1
      <4>1. i - 1 = k /\ k \in 0 .. k
        BY <1>1, <3>3
      <4> QED
        BY <2>2, <2>3, <3>3, <4>1
    <3> QED
      BY <1>1, <3>1, <3>2, <3>3
  <2>5. Is(k + 1, g)
    BY <2>3, <2>4
  <2> HIDE DEF Is
  <2> QED
    BY <1>1, <2>5
<1>6. n \in A
  <2> HIDE DEF A, Is
  <2>1. \A k \in 0 .. n - 1 : k \in A => k + 1 \in A
    BY <1>5
  <2>2. \A k \in 0 .. n : k \in A
    BY <1>1, <1>4, <2>1, InductionUpTo
  <2> QED
    BY <1>1, <2>2
<1> DEFINE h == CHOOSE f : Is(n, f)
<1>7. Is(n, h)
  BY <1>6
<1> HIDE DEF h
<1>8. h[0] = b /\ \A i \in 1 .. n : h[i] = Step(i, h[i - 1])
  <2>1. \A i \in 0 .. n : h[i] = Step(i, h[i - 1])
    BY <1>7
  <2>2. 0 \in 0 .. n /\ \A i \in 1 .. n : i \in 0 .. n
    BY <1>1
  <2> QED
    BY <1>2, <2>1, <2>2
<1>9. h = Made(root, args)
  BY DEF h, Made, Step, n
<1>10. make(root, args) = Made(root, args)[n]
  BY DEF make, Made, n
<1>11. \A i \in 1 .. n : h[i] = Asked(h[i - 1], args[i])
  BY <1>3, <1>8
<1> HIDE DEF Is, A
<1> QED
  BY <1>8, <1>9, <1>10, <1>11 DEF n, b

\* Path::make: all of the path is there then, or nothing has been changed.
LEMMA MakeIs ==
  ASSUME NEW root, IsValue(root), NEW args \in Seq(ArgKeys)
  PROVE  LET m == make(root, args)
         IN  /\ IsValue(m.root) /\ m.at \in DOMAIN m.root
             /\ m.ok \in BOOLEAN
             /\ m.ok => m.at = args
             /\ ~m.ok => m.root = root
<1> DEFINE n == Len(args)
           made == Made(root, args)
           Good(i, x) ==
               /\ x = [ok |-> x.ok, root |-> x.root, at |-> x.at] /\ x.ok \in BOOLEAN
               /\ IsValue(x.root) /\ x.at \in DOMAIN x.root
               /\ x.ok => x.at = SubSeq(args, 1, i) /\ (x.root = root \/ x.root[x.at].type = "null")
               /\ ~x.ok => x.root = root
           B == {i \in 0 .. n : Good(i, made[i])}
<1>1. n \in Nat
  BY LenProperties
<1>2. /\ make(root, args) = made[n] /\ made[0] = Begun(root)
      /\ \A i \in 1 .. n : made[i] = Asked(made[i - 1], args[i])
  BY <1>1, MadeSteps
<1> HIDE DEF made
<1>3. 0 \in B
  <2> DEFINE x == Begun(root)
  <2>1. /\ x = [ok |-> x.ok, root |-> x.root, at |-> x.at] /\ x.ok = TRUE
        /\ x.root = root /\ x.at = <<>>
    BY DEF Begun
  <2>2. <<>> \in DOMAIN root
    BY ValueParts
  <2>3. SubSeq(args, 1, 0) = <<>>
    BY SubSeqEmpty
  <2> HIDE DEF x
  <2>4. Good(0, x)
    BY <2>1, <2>2, <2>3
  <2> HIDE DEF Good
  <2> QED
    BY <1>1, <1>2, <2>4 DEF x
<1>4. ASSUME NEW i \in 0 .. n - 1, i \in B
      PROVE  i + 1 \in B
  <2> DEFINE x == made[i]
             y == made[i + 1]
             key == args[i + 1]
  <2>1. i + 1 \in 1 .. n /\ (i + 1) - 1 = i /\ i + 1 \in 0 .. n /\ i \in Nat
    BY <1>1
  <2>2. y = Asked(x, key)
    BY <1>2, <2>1
  <2>3. Good(i, x)
    BY <1>4
  <2>4. key \in ArgKeys
    BY <2>1, ElementOfSeq
  <2> HIDE DEF x, y
  <2>5. CASE ~x.ok \/ ~May(Subtree(x.root, x.at), ContainerFor(key))
    <3>1. y = [x EXCEPT !.ok = FALSE]
      BY <2>2, <2>5 DEF Asked
    <3>2. y.ok = FALSE /\ y.root = x.root /\ y.at = x.at /\ y = [ok |-> y.ok, root |-> y.root, at |-> y.at]
      <4>1. x = [ok |-> x.ok, root |-> x.root, at |-> x.at]
        BY <2>3
      <4> QED
        BY <3>1, <4>1
    <3>3. x.root = root
      <4>1. CASE x.ok
        <5>1. x.root[x.at].type # "null"
          <6>1. Subtree(x.root, x.at)[<<>>] = x.root[x.at]
            BY <2>3, ChildrenAre
          <6> QED
            BY <2>5, <4>1, <6>1 DEF May
        <5> QED
          BY <2>3, <4>1, <5>1
      <4> QED
        BY <2>3, <4>1
    <3>4. Good(i + 1, y)
      BY <2>3, <3>2, <3>3
    <3> HIDE DEF Good
    <3> QED
      BY <2>1, <3>4 DEF y
  <2>6. CASE x.ok /\ May(Subtree(x.root, x.at), ContainerFor(key))
    <3> DEFINE w == Subscripted(x.root, x.at, key)
               at == Append(x.at, key)
    <3>1. y = [x EXCEPT !.root = w, !.at = at]
      BY <2>2, <2>6 DEF Asked
    <3>2. /\ IsValue(w) /\ at \in DOMAIN w
          /\ w = x.root \/ w[at].type = "null"
      BY <2>3, <2>4, <2>6, SubscriptedIs
    <3> HIDE DEF w, at
    <3>3. y.ok = TRUE /\ y.root = w /\ y.at = at /\ y = [ok |-> y.ok, root |-> y.root, at |-> y.at]
      <4>1. x = [ok |-> x.ok, root |-> x.root, at |-> x.at] /\ x.ok = TRUE
        BY <2>3, <2>6
      <4> QED
        BY <3>1, <4>1
    <3>4. at = SubSeq(args, 1, i + 1)
      <4>1. SubSeq(args, 1, i + 1) = SubSeq(args, 1, i) \o <<args[i + 1]>>
        <5>1. 1 \in 1 .. Len(args) /\ i + 1 \in 1 .. Len(args)
          BY <1>1, <2>1
        <5>2. SubSeq(args, 1, i + 1) = SubSeq(args, 1, (i + 1) - 1) \o <<args[i + 1]>>
          BY <5>1, SubSeqRecursiveSecond
        <5> QED
          BY <2>1, <5>2
      <4>2. SubSeq(args, 1, i) \in Seq(ArgKeys)
        <5>1. \A j \in 1 .. i : args[j] \in ArgKeys
          <6>1. \A j \in 1 .. i : j \in 1 .. Len(args)
            BY <1>1, <2>1
          <6> QED
            BY <6>1, ElementOfSeq
        <5>2. 1 \in Int /\ i \in Int
          BY <2>1
        <5> QED
          BY ONLY <5>1, <5>2, SubSeqProperties
      <4> DEFINE s == SubSeq(args, 1, i)
      <4>3. x.at = s
        BY <2>3, <2>6
      <4> HIDE DEF s, key
      <4>4. Append(s, key) = s \o <<key>>
        BY <2>4, <4>2, AppendIsConcat DEF s
      <4> QED
        BY <4>1, <4>3, <4>4 DEF at, s, key
    <3>5. w = root \/ w[at].type = "null"
      <4>1. CASE w[at].type = "null"
        BY <4>1
      <4>2. CASE w[at].type # "null"
        <5>1. w = x.root
          BY <3>2, <4>2
        <5>2. CASE x.root = root
          BY <5>1, <5>2
        <5>3. CASE x.root # root
          <6>1. x.root[x.at].type = "null"
            BY <2>3, <2>6, <5>3
          <6>2. FALSE
            \* a null has nothing below it
            <7>1. Append(x.at, key) \in DOMAIN x.root
              BY <3>2, <5>1 DEF at
            <7>2. x.at \in Routes /\ key \in Keys
              BY <2>3, <2>4, ValueParts, ArgKeyOf
            <7>3. Append(x.at, key) = x.at \o <<key>>
              BY <7>2, LastOf DEF Routes
            <7>4. Shaped(x.root)
              BY <2>3, ValueIsShaped
            <7> DEFINE p == x.at
            <7> HIDE DEF p, key
            <7>5. IsKey(x.root[p].type, key)
              BY <7>1, <7>2, <7>3, <7>4 DEF Shaped, p
            <7> QED
              BY <6>1, <7>5 DEF IsKey, p
          <6> QED
            BY <6>2
        <5> QED
          BY <5>2, <5>3
      <4> QED
        BY <4>1, <4>2
    <3>6. Good(i + 1, y)
      BY <3>2, <3>3, <3>4, <3>5
    <3> HIDE DEF Good
    <3> QED
      BY <2>1, <3>6 DEF y
  <2> QED
    BY <2>3, <2>5, <2>6
<1>5. Good(n, made[n])
  <2> HIDE DEF B, n
  <2>1. \A i \in 0 .. n : i \in B
    BY <1>1, <1>3, <1>4, InductionUpTo
  <2>2. n \in B
    BY <1>1, <2>1
  <2> HIDE DEF Good
  <2> QED
    BY <2>2 DEF B
<1>6. SubSeq(args, 1, n) = args
  BY SubSeqFull
<1> QED
  BY <1>2, <1>5, <1>6-----------------------------------------------------------------------------
(***************************************************************************)
(* The keys that the text of a path stands for.                            *)
(***************************************************************************)
\* The codes of characters are numbers.
LEMMA CodeIsNumber ==
  ASSUME NEW n \in DOMAIN Ascii
  PROVE  C(Ascii[n]) \in Int /\ \E i \in Int : Ascii[i] = Ascii[n] /\ C(Ascii[n]) = 31 + i
<1> DEFINE c == Ascii[n]
<1>1. DOMAIN Ascii = 1 .. Len(Ascii) /\ Len(Ascii) \in Nat
  BY DEF Ascii
<1>2. c \in ToSet(Ascii)
  BY DEF ToSet
<1> DEFINE i == CHOOSE j \in DOMAIN Ascii : Ascii[j] = c
<1>3. i \in DOMAIN Ascii
  OBVIOUS
<1>4. CodeOf[c] = 31 + i
  <2> HIDE DEF c
  <2> QED
    BY <1>2 DEF CodeOf
<1> HIDE DEF i
<1>5. i \in Int
  BY <1>1, <1>3
<1>6. i \in DOMAIN Ascii /\ Ascii[i] = c
  <2> HIDE DEF c
  <2> QED
    BY <1>2 DEF i, ToSet
<1> QED
  BY <1>4, <1>5, <1>6 DEF C

\* Of different characters they are different.
LEMMA CodesDiffer ==
  ASSUME NEW m \in DOMAIN Ascii, NEW n \in DOMAIN Ascii, Ascii[m] # Ascii[n]
  PROVE  C(Ascii[m]) # C(Ascii[n])
<1>1. PICK i \in Int : Ascii[i] = Ascii[m] /\ C(Ascii[m]) = 31 + i
  BY CodeIsNumber
<1>2. PICK j \in Int : Ascii[j] = Ascii[n] /\ C(Ascii[n]) = 31 + j
  BY CodeIsNumber
<1>3. i # j
  BY <1>1, <1>2
<1> QED
  BY <1>1, <1>2, <1>3

\* Those of the digits.
LEMMA CodeOfDigits == C("0") \in Int /\ C("9") \in Int
<1>1. Ascii[17] = "0" /\ Ascii[26] = "9" /\ 17 \in DOMAIN Ascii /\ 26 \in DOMAIN Ascii
  BY DEF Ascii
<1>2. C(Ascii[17]) \in Int /\ C(Ascii[26]) \in Int
  BY <1>1, CodeIsNumber
<1> QED
  BY <1>1, <1>2

\* The number that digits denote is one.
LEMMA NumberIsNat ==
  ASSUME NEW digits \in Seq(Digits)
  PROVE  Number(digits) \in Nat
<1> DEFINE n == Len(digits)
           z == C("0")
           body(g) == [i \in 0 .. n |-> IF i = 0 THEN 0 ELSE 10 * g[i - 1] + digits[i] - z]
           upto == CHOOSE g : g = body(g)
           step == [x \in (1 .. n) \X Nat |-> 10 * x[2] + digits[x[1]] - z]
<1>0. n \in Nat /\ z \in Int /\ \A i \in 1 .. n : digits[i] \in Int /\ digits[i] >= z
  <2>1. \A i \in 1 .. n : digits[i] \in Digits
    BY ElementOfSeq
  <2> QED
    BY <2>1, CodeOfDigits, LenProperties DEF Digits
<1> HIDE DEF n, z
<1>1. step \in Steps(n, Nat)
  <2>1. ASSUME NEW x \in (1 .. n) \X Nat
        PROVE  10 * x[2] + digits[x[1]] - z \in Nat
    <3>1. x[1] \in 1 .. n /\ x[2] \in Nat
      OBVIOUS
    <3>2. digits[x[1]] \in Int /\ digits[x[1]] >= z
      BY <1>0, <3>1
    <3> QED
      BY <1>0, <3>1, <3>2
  <2> QED
    BY <2>1 DEF Steps
<1>2. PICK f : f \in Recursive(n, Nat, 0, step)
  <2> HIDE DEF step
  <2>1. 0 \in Nat
    OBVIOUS
  <2> QED
    BY <1>0, <1>1, <2>1, Recursion
<1>3. f \in [0 .. n -> Nat] /\ f[0] = 0 /\ \A i \in 1 .. n : f[i] = step[<<i, f[i - 1]>>]
  BY <1>2 DEF Recursive
<1>4. \A i \in 1 .. n : f[i] = 10 * f[i - 1] + digits[i] - z
  <2>1. ASSUME NEW i \in 1 .. n
        PROVE  f[i] = 10 * f[i - 1] + digits[i] - z
    <3>1. i - 1 \in 0 .. n
      BY <1>0
    <3>2. f[i - 1] \in Nat
      BY <1>3, <3>1
    <3>3. <<i, f[i - 1]>> \in (1 .. n) \X Nat
      BY <3>2
    <3> QED
      BY <1>3, <3>2, <3>3
  <2> QED
    BY <2>1
<1>5. f = body(f)
  <2>1. \A k \in 0 .. n : f[k] = IF k = 0 THEN 0 ELSE 10 * f[k - 1] + digits[k] - z
    BY <1>0, <1>3, <1>4
  <2> QED
    BY <1>3, <2>1
<1>6. upto = body(upto)
  <2> HIDE DEF body
  <2> QED
    BY <1>5
<1>7. \A k \in 0 .. n : upto[k] = IF k = 0 THEN 0 ELSE 10 * upto[k - 1] + digits[k] - z
  BY <1>6
<1>8. Number(digits) = upto[n]
  BY DEF Number, n, z
<1> HIDE DEF upto
<1> DEFINE T == {k \in 0 .. n : upto[k] \in Nat}
<1>9. 0 \in T
  BY <1>0, <1>7
<1>10. \A k \in 0 .. n - 1 : k \in T => k + 1 \in T
  <2>1. ASSUME NEW k \in 0 .. n - 1, k \in T
        PROVE  k + 1 \in T
    <3>1. k + 1 \in 0 .. n /\ k + 1 \in 1 .. n /\ (k + 1) - 1 = k /\ k + 1 # 0
      BY <1>0
    <3>2. upto[k + 1] = 10 * upto[k] + digits[k + 1] - z
      BY <1>7, <3>1
    <3>3. upto[k] \in Nat /\ digits[k + 1] \in Int /\ digits[k + 1] >= z
      BY <1>0, <2>1, <3>1
    <3> QED
      BY <1>0, <3>1, <3>2, <3>3
  <2> QED
    BY <2>1
<1>11. \A k \in 0 .. n : k \in T
  <2> HIDE DEF T
  <2> QED
    BY <1>0, <1>9, <1>10, InductionUpTo
<1> QED
  BY <1>0, <1>8, <1>11

\* The run of characters that begins somewhere in a text.
LEMMA RunOf ==
  ASSUME NEW K, NEW text \in Seq(K), NEW from \in 0 .. Len(text), NEW S
  PROVE  /\ Span(text, from, S) \in from .. Len(text)
         /\ \A p \in from .. Span(text, from, S) - 1 : text[p + 1] \in S
         /\ Span(text, from, S) < Len(text) => text[Span(text, from, S) + 1] \notin S
<1> DEFINE stops == {p \in from .. Len(text) - 1 : text[p + 1] \notin S}
<1>1. Len(text) \in Nat
  BY LenProperties
<1>2. stops \in SUBSET Nat /\ stops \subseteq from .. Len(text)
  BY <1>1
<1>3. Span(text, from, S) = IF stops = {} THEN Len(text) ELSE Min(stops)
  BY DEF Span
<1>4. CASE stops = {}
  <2>1. \A p \in from .. Len(text) - 1 : text[p + 1] \in S
    BY <1>4
  <2> QED
    BY <1>1, <1>3, <1>4, <2>1
<1>5. CASE stops # {}
  <2>1. PICK n \in stops : \A m \in stops : n <= m
    <3> HIDE DEF stops
    <3> QED
      BY <1>2, <1>5, LeastNumber
  <2>2. \A k : k \in stops /\ (\A m \in stops : k <= m) => k = n
    <3>1. \A k \in stops : k \in Int
      BY <1>2
    <3> HIDE DEF stops
    <3> QED
      BY <2>1, <3>1
  <2>3. Min(stops) = n
    <3> HIDE DEF stops
    <3> QED
      BY <2>1, <2>2 DEF Min
  <2>4. n \in from .. Len(text)
    BY <1>2
  <2>5. \A p \in from .. n - 1 : text[p + 1] \in S
    <3>1. ASSUME NEW p \in from .. n - 1, text[p + 1] \notin S
          PROVE  FALSE
      <4>1. p \in from .. Len(text) - 1 /\ p < n
        BY <1>1, <2>4
      <4>2. p \in stops
        BY <3>1, <4>1
      <4> HIDE DEF stops
      <4>3. n <= p
        BY <2>1, <4>2
      <4> QED
        BY <2>4, <4>1, <4>3
    <3> QED
      BY <3>1
  <2>6. text[n + 1] \notin S
    OBVIOUS
  <2> HIDE DEF stops
  <2> QED
    BY <1>3, <1>5, <2>3, <2>4, <2>5, <2>6
<1> QED
  BY <1>4, <1>5

\* The loop of makePath, and what it makes at a location of what it makes behind it.
Says(path, in, from, at, k) ==
    LET n == Len(path)
        fits(j, kind) == j <= Len(in) /\ in[j].kind = kind
        argument(kind, next) ==
            IF fits(k, kind) THEN <<in[k].key>> \o from[next][k + 1] ELSE from[next][k]
        digits == Span(path, at + 1, Digits)
        name   == Span(path, at, Byte \ {C("["), C("."), 0})
    IN  CASE at = n -> <<>>
          [] HasAt(path, at, C("[")) /\ HasAt(path, at + 1, C("%")) ->
                 argument("index", BehindIndex(path, at + 1))
          [] HasAt(path, at, C("[")) /\ ~HasAt(path, at + 1, C("%")) ->
                 <<Index(Number(Slice(path, at + 1, digits)))>> \o from[BehindIndex(path, digits)][k]
          [] HasAt(path, at, C("%")) -> argument("key", at + 1)
          [] HasAt(path, at, C(".")) \/ HasAt(path, at, C("]")) -> from[at + 1][k]
          [] OTHER -> <<Slice(path, at, name)>> \o from[name][k]

Told(path, in) ==
    LET n == Len(path)
        fits(k, kind) == k <= Len(in) /\ in[k].kind = kind
        from[at \in 0 .. n] ==
            [k \in 1 .. Len(in) + 1 |->
                LET argument(kind, next) ==
                        IF fits(k, kind) THEN <<in[k].key>> \o from[next][k + 1] ELSE from[next][k]
                    digits == Span(path, at + 1, Digits)
                    name   == Span(path, at, Byte \ {C("["), C("."), 0})
                IN  CASE at = n -> <<>>
                      [] HasAt(path, at, C("[")) /\ HasAt(path, at + 1, C("%")) ->
                             argument("index", BehindIndex(path, at + 1))
                      [] HasAt(path, at, C("[")) /\ ~HasAt(path, at + 1, C("%")) ->
                             <<Index(Number(Slice(path, at + 1, digits)))>> \o from[BehindIndex(path, digits)][k]
                      [] HasAt(path, at, C("%")) -> argument("key", at + 1)
                      [] HasAt(path, at, C(".")) \/ HasAt(path, at, C("]")) -> from[at + 1][k]
                      [] OTHER -> <<Slice(path, at, name)>> \o from[name][k]]
    IN  from

\* At the end of the text nothing, and before it at most one key and what comes of
\* the text behind.
LEMMA SaysNext ==
  ASSUME NEW path \in Seq(Byte \ {0}), NEW at \in 0 .. Len(path)
  PROVE  \/ \A from : Says(path, <<>>, from, at, 1) = <<>>
         \/ \E next \in at + 1 .. Len(path) : \A from :
                Says(path, <<>>, from, at, 1) = from[next][1]
         \/ \E next \in at + 1 .. Len(path), key \in ArgKeys : \A from :
                Says(path, <<>>, from, at, 1) = <<key>> \o from[next][1]
<1> DEFINE n == Len(path)
           has(i, c) == HasAt(path, i, c)
           digits == Span(path, at + 1, Digits)
           name == Span(path, at, Byte \ {C("["), C("."), 0})
           number == Number(Slice(path, at + 1, digits))
           word == Slice(path, at, name)
<1>1. n \in Nat /\ Len(<<>>) = 0
  BY LenProperties
<1>2. \A from : Says(path, <<>>, from, at, 1) =
          CASE at = n -> <<>>
            [] has(at, C("[")) /\ has(at + 1, C("%")) -> from[BehindIndex(path, at + 1)][1]
            [] has(at, C("[")) /\ ~has(at + 1, C("%")) ->
                   <<Index(number)>> \o from[BehindIndex(path, digits)][1]
            [] has(at, C("%")) -> from[at + 1][1]
            [] has(at, C(".")) \/ has(at, C("]")) -> from[at + 1][1]
            [] OTHER -> <<word>> \o from[name][1]
  BY <1>1 DEF Says
<1>3. \A i, c : has(i, c) <=> i < n /\ path[i + 1] = c
  BY DEF HasAt
<1>4. \A i, c : has(i, c) => i < n
  BY <1>3
<1>11. C("[") # C("%") /\ C("[") # C(".") /\ C("[") # C("]")
  <2>1. /\ Ascii[60] = "[" /\ Ascii[6] = "%" /\ Ascii[15] = "." /\ Ascii[62] = "]"
        /\ {60, 6, 15, 62} \subseteq DOMAIN Ascii
    BY DEF Ascii
  <2> QED
    BY <2>1, CodesDiffer
<1>12. has(at, C("[")) => ~has(at, C("%")) /\ ~has(at, C(".")) /\ ~has(at, C("]"))
  BY <1>3, <1>11
<1>10. \A from :
          /\ at # n /\ has(at, C("[")) /\ has(at + 1, C("%")) =>
                 Says(path, <<>>, from, at, 1) = from[BehindIndex(path, at + 1)][1]
          /\ at # n /\ has(at, C("[")) /\ ~has(at + 1, C("%")) =>
                 Says(path, <<>>, from, at, 1) = <<Index(number)>> \o from[BehindIndex(path, digits)][1]
  <2> HIDE DEF has, n, digits, number
  <2> QED
    BY <1>2, <1>12
<1>5. CASE at = n
  <2>1. \A c : ~has(at, c)
    <3>1. ~(at < n)
      BY <1>1, <1>5
    <3> QED
      BY <1>4, <3>1
  <2>2. ASSUME NEW from
        PROVE  Says(path, <<>>, from, at, 1) = <<>>
    <3> HIDE DEF n
    <3> QED
      BY <1>2, <1>5, <2>1
  <2> QED
    BY <2>2
<1>6. CASE has(at, C("[")) /\ has(at + 1, C("%"))
  <2>1. at + 1 < n
    BY <1>4, <1>6
  <2>2. BehindIndex(path, at + 1) \in at + 1 .. n
    BY <1>1, <2>1 DEF BehindIndex
  <2> HIDE DEF has
  <2>3. ASSUME NEW from
        PROVE  Says(path, <<>>, from, at, 1) = from[BehindIndex(path, at + 1)][1]
    <3>1. at # n
      BY <1>1, <2>1
    <3> HIDE DEF n
    <3> QED
      BY <1>10, <1>6, <3>1
  <2> QED
    BY <2>2, <2>3
<1>7. CASE has(at, C("[")) /\ ~has(at + 1, C("%"))
  <2>1. at < n
    BY <1>4, <1>7
  <2>2. at + 1 \in 0 .. n
    BY <1>1, <2>1
  <2>3. /\ digits \in at + 1 .. n
        /\ \A p \in at + 1 .. digits - 1 : path[p + 1] \in Digits
    BY <2>2, RunOf
  <2> HIDE DEF digits
  <2>4. BehindIndex(path, digits) \in at + 1 .. n
    BY <1>1, <2>1, <2>3 DEF BehindIndex
  <2>5. Index(number) \in ArgKeys
    <3>1. Slice(path, at + 1, digits) \in Seq(Digits)
      <4>1. \A i \in (at + 1) + 1 .. digits : path[i] \in Digits
        <5>1. ASSUME NEW i \in (at + 1) + 1 .. digits PROVE path[i] \in Digits
          <6>1. i - 1 \in at + 1 .. digits - 1 /\ (i - 1) + 1 = i
            BY <2>2, <2>3
          <6> QED
            BY <2>3, <6>1
        <5> QED
          BY <5>1
      <4>2. (at + 1) + 1 \in Int /\ digits \in Int
        BY <2>2, <2>3
      <4> DEFINE a == (at + 1) + 1
      <4>3. a \in Int /\ \A i \in a .. digits : path[i] \in Digits
        BY <4>1, <4>2
      <4> HIDE DEF a
      <4>4. SubSeq(path, a, digits) \in Seq(Digits)
        BY <4>2, <4>3, SubSeqProperties
      <4> QED
        BY <4>4 DEF Slice, a
    <3>2. number \in Nat
      BY <3>1, NumberIsNat
    <3> HIDE DEF number
    <3> QED
      BY <3>2 DEF ArgKeys, Index
  <2> HIDE DEF has, number
  <2>6. ASSUME NEW from
        PROVE  Says(path, <<>>, from, at, 1) = <<Index(number)>> \o from[BehindIndex(path, digits)][1]
    <3>1. at # n
      BY <1>1, <2>1
    <3> HIDE DEF n
    <3> QED
      BY <1>10, <1>7, <3>1
  <2> QED
    BY <2>4, <2>5, <2>6
<1>8. CASE ~has(at, C("[")) /\ (has(at, C("%")) \/ has(at, C(".")) \/ has(at, C("]")))
  <2>1. at < n
    BY <1>4, <1>8
  <2>2. at + 1 \in at + 1 .. n
    BY <1>1, <2>1
  <2> HIDE DEF has
  <2>3. \A from : Says(path, <<>>, from, at, 1) = from[at + 1][1]
    <3>1. at # n
      BY <1>1, <2>1
    <3> QED
      BY <1>2, <1>8, <3>1
  <2> QED
    BY <2>2, <2>3
<1>9. CASE /\ at # n /\ ~has(at, C("[")) /\ ~has(at, C("%"))
           /\ ~has(at, C(".")) /\ ~has(at, C("]"))
  <2>1. at < n
    BY <1>1, <1>9
  <2>2. path[at + 1] \in Byte \ {C("["), C("."), 0}
    <3>1. at + 1 \in 1 .. n
      BY <1>1, <2>1
    <3>2. path[at + 1] \in Byte \ {0}
      BY <3>1, ElementOfSeq
    <3>3. path[at + 1] # C("[") /\ path[at + 1] # C(".")
      BY <1>3, <1>9, <2>1
    <3> QED
      BY <3>2, <3>3
  <2>3. /\ name \in at .. n
        /\ name < n => path[name + 1] \notin Byte \ {C("["), C("."), 0}
    BY RunOf
  <2> HIDE DEF name
  <2>4. name \in at + 1 .. n
    <3>1. name # at
      BY <2>1, <2>2, <2>3
    <3> QED
      BY <1>1, <2>3, <3>1
  <2>5. word \in ArgKeys
    <3>1. \A i \in at + 1 .. name : path[i] \in Nat
      <4>1. ASSUME NEW i \in at + 1 .. name PROVE path[i] \in Nat
        <5>1. i \in 1 .. n
          BY <1>1, <2>4
        <5>2. path[i] \in Byte \ {0}
          <6> DEFINE S == Byte \ {0}
          <6> HIDE DEF S
          <6>1. path \in Seq(S)
            BY DEF S
          <6>2. path[i] \in S
            BY <5>1, <6>1, ElementOfSeq
          <6> QED
            BY <6>2 DEF S
        <5> DEFINE x == path[i]
        <5>3. x \in Byte \ {0}
          BY <5>2
        <5> HIDE DEF x
        <5>4. x \in Nat
          BY ONLY <5>3 DEF Byte
        <5> QED
          BY <5>4 DEF x
      <4> QED
        BY <4>1
    <3>2. at + 1 \in Int /\ name \in Int
      BY <2>4
    <3> DEFINE a == at + 1
    <3>3. a \in Int /\ \A i \in a .. name : path[i] \in Nat
      BY <3>1, <3>2
    <3> HIDE DEF a
    <3>4. SubSeq(path, a, name) \in Seq(Nat)
      BY <3>2, <3>3, SubSeqProperties
    <3> QED
      BY <3>4 DEF Slice, a, ArgKeys
  <2> HIDE DEF has, word
  <2>6. \A from : Says(path, <<>>, from, at, 1) = <<word>> \o from[name][1]
    BY <1>2, <1>9
  <2> QED
    BY <2>4, <2>5, <2>6
<1> QED
  BY <1>5, <1>6, <1>7, <1>8, <1>9

\* What the text of a path stands for are keys.
LEMMA MakesKeys ==
  ASSUME NEW path \in Seq(Byte \ {0})
  PROVE  makePath(path, <<>>) \in Seq(ArgKeys)
<1> DEFINE n == Len(path)
           S == Seq(ArgKeys)
           T == [1 .. 1 -> S]
           row(f, at) == [k \in 1 .. Len(<<>>) + 1 |-> Says(path, <<>>, f, at, k)]
           body(f) == [at \in 0 .. n |-> row(f, at)]
           from == CHOOSE f : f = body(f)
<1>1. n \in Nat /\ Len(<<>>) + 1 = 1 /\ <<>> \in S
  BY LenProperties, EmptySeq
<1>2. \A key \in ArgKeys, s \in S : <<key>> \o s \in S
  <2>1. ASSUME NEW key \in ArgKeys, NEW s \in S
        PROVE  <<key>> \o s \in S
    <3>1. <<key>> \in S
      OBVIOUS
    <3> DEFINE t == <<key>>
    <3> HIDE DEF t
    <3>2. t \in S
      BY <3>1 DEF t
    <3>3. t \o s \in S
      BY <3>2, ConcatProperties
    <3> QED
      BY <3>3 DEF t
  <2> QED
    BY <2>1
<1>3. \A f, at : row(f, at) = [k \in 1 .. 1 |-> Says(path, <<>>, f, at, 1)]
  <2>1. \A k \in 1 .. 1 : k = 1
    OBVIOUS
  <2> QED
    BY <1>1, <2>1
<1> HIDE DEF row
<1>4. ASSUME NEW at \in 0 .. n, NEW f, \A q \in at + 1 .. n : f[q] \in T
      PROVE  row(f, at) \in T
  <2>1. \A q \in at + 1 .. n : f[q][1] \in S
    BY <1>4
  <2>2. Says(path, <<>>, f, at, 1) \in S
    <3> DEFINE says(x) == Says(path, <<>>, x, at, 1)
    <3>1. \/ \A x : says(x) = <<>>
          \/ \E next \in at + 1 .. n : \A x : says(x) = x[next][1]
          \/ \E next \in at + 1 .. n, key \in ArgKeys : \A x : says(x) = <<key>> \o x[next][1]
      BY SaysNext
    <3> HIDE DEF says, n, S
    <3>2. CASE \A x : says(x) = <<>>
      BY <1>1, <3>2 DEF says
    <3>3. CASE \E next \in at + 1 .. n : \A x : says(x) = x[next][1]
      <4>1. PICK next \in at + 1 .. n : \A x : says(x) = x[next][1]
        BY <3>3
      <4>2. says(f) = f[next][1] /\ f[next][1] \in S
        BY <2>1, <4>1
      <4> QED
        BY <4>2 DEF says
    <3>4. CASE \E next \in at + 1 .. n, key \in ArgKeys : \A x : says(x) = <<key>> \o x[next][1]
      <4>1. PICK next \in at + 1 .. n, key \in ArgKeys : \A x : says(x) = <<key>> \o x[next][1]
        BY <3>4
      <4>2. says(f) = <<key>> \o f[next][1] /\ f[next][1] \in S
        BY <2>1, <4>1
      <4> QED
        BY <1>2, <4>2 DEF says
    <3> QED
      BY <3>1, <3>2, <3>3, <3>4
  <2> HIDE DEF S
  <2> QED
    BY <1>3, <2>2
<1>5. ASSUME NEW at \in 0 .. n, NEW f, NEW g, \A q \in at + 1 .. n : f[q] = g[q]
      PROVE  row(f, at) = row(g, at)
  <2>1. \A q \in at + 1 .. n : f[q][1] = g[q][1]
    BY <1>5
  <2>2. Says(path, <<>>, f, at, 1) = Says(path, <<>>, g, at, 1)
    <3> DEFINE says(x) == Says(path, <<>>, x, at, 1)
    <3>1. \/ \A x : says(x) = <<>>
          \/ \E next \in at + 1 .. n : \A x : says(x) = x[next][1]
          \/ \E next \in at + 1 .. n, key \in ArgKeys : \A x : says(x) = <<key>> \o x[next][1]
      BY SaysNext
    <3> HIDE DEF says, n
    <3>2. CASE \A x : says(x) = <<>>
      BY <3>2 DEF says
    <3>3. CASE \E next \in at + 1 .. n : \A x : says(x) = x[next][1]
      <4>1. PICK next \in at + 1 .. n : \A x : says(x) = x[next][1]
        BY <3>3
      <4>2. says(f) = f[next][1] /\ says(g) = g[next][1]
        BY <4>1
      <4> QED
        BY <2>1, <4>2 DEF says
    <3>4. CASE \E next \in at + 1 .. n, key \in ArgKeys : \A x : says(x) = <<key>> \o x[next][1]
      <4>1. PICK next \in at + 1 .. n, key \in ArgKeys : \A x : says(x) = <<key>> \o x[next][1]
        BY <3>4
      <4>2. says(f) = <<key>> \o f[next][1] /\ says(g) = <<key>> \o g[next][1]
        BY <4>1
      <4>3. f[next][1] = g[next][1]
        BY <2>1
      <4> QED
        BY <4>2, <4>3 DEF says
    <3> QED
      BY <3>1, <3>2, <3>3, <3>4
  <2> QED
    BY <1>3, <2>2
<1>6. \E f : f = body(f)
  <2> DEFINE step == [x \in (0 .. n) \X [0 .. n -> T] |->
                         IF row(x[2], x[1]) \in T THEN row(x[2], x[1]) ELSE [k \in 1 .. 1 |-> <<>>]]
  <2>1. ASSUME NEW at \in 0 .. n, NEW h \in [0 .. n -> T]
        PROVE  step[<<at, h>>] = row(h, at)
    <3>1. \A q \in at + 1 .. n : h[q] \in T
      BY <1>1
    <3>2. row(h, at) \in T
      BY <1>4, <3>1
    <3> HIDE DEF n, T
    <3> QED
      BY <3>2
  <2>2. step \in StepsBack(n, T)
    <3>1. [k \in 1 .. 1 |-> <<>>] \in T
      BY <1>1
    <3> DEFINE none == [k \in 1 .. 1 |-> <<>>]
    <3> HIDE DEF none, n, T
    <3> QED
      BY <3>1 DEF StepsBack, none
  <2>3. LooksBehind(n, T, step)
    <3>1. ASSUME NEW p \in 0 .. n, NEW f \in [0 .. n -> T], NEW g \in [0 .. n -> T],
                 \A q \in p + 1 .. n : f[q] = g[q]
          PROVE  step[<<p, f>>] = step[<<p, g>>]
      <4>1. row(f, p) = row(g, p)
        BY <1>5, <3>1
      <4> HIDE DEF step, n, T
      <4> QED
        BY <2>1, <4>1
    <3> HIDE DEF step, n, T
    <3> QED
      BY <3>1 DEF LooksBehind
  <2>4. [k \in 1 .. 1 |-> <<>>] \in T
    BY <1>1
  <2>5. PICK h \in [0 .. n -> T] : \A p \in 0 .. n : h[p] = step[<<p, h>>]
    <3> HIDE DEF step, n, T
    <3> QED
      BY <1>1, <2>2, <2>3, <2>4, RecursionBack
  <2>6. \A at \in 0 .. n : h[at] = row(h, at)
    <3> HIDE DEF step, n, T
    <3> QED
      BY <2>1, <2>5
  <2>7. h = body(h)
    <3>1. h = [at \in 0 .. n |-> h[at]]
      OBVIOUS
    <3> HIDE DEF n, T
    <3> QED
      BY <2>6, <3>1
  <2> HIDE DEF body
  <2> QED
    BY <2>7
<1>7. from = body(from)
  <2> HIDE DEF body
  <2> QED
    BY <1>6
<1>8. \A at \in 0 .. n : from[at] = row(from, at)
  <2> DEFINE f == from
  <2>1. f = body(f)
    BY <1>7
  <2> HIDE DEF f
  <2>2. \A at \in 0 .. n : f[at] = row(f, at)
    BY <2>1
  <2> QED
    BY <2>2 DEF f
<1>9. makePath(path, <<>>) = from[0][1]
  <2>1. from = Told(path, <<>>)
    BY DEF Told, Says, row
  <2>2. makePath(path, <<>>) = Told(path, <<>>)[0][1]
    BY DEF makePath, Told
  <2> HIDE DEF from
  <2> QED
    BY <2>1, <2>2
<1> HIDE DEF from, body
<1> DEFINE A == {p \in 0 .. n : from[p] \in T}
<1>10. \A p \in 0 .. n : (\A q \in p + 1 .. n : q \in A) => p \in A
  <2> HIDE DEF T
  <2> QED
    BY <1>4, <1>8
<1>11. \A p \in 0 .. n : p \in A
  <2> HIDE DEF A, n
  <2> QED
    BY <1>1, <1>10, InductionBack
<1>12. from[0] \in T
  BY <1>1, <1>11
<1> QED
  BY <1>9, <1>12
-----------------------------------------------------------------------------
(***************************************************************************)
(* What every call keeps.                                                  *)
(***************************************************************************)
\* The inductive invariant: both are Values.
ValueInv == IsValue(value) /\ IsValue(other)

\* A call on a Value below: what is put there leaves a Value, and a call that
\* throws leaves what there was.
LEMMA Attempted ==
  ASSUME IsValue(value), NEW p \in DOMAIN value, NEW op, NEW index, NEW name, NEW may, NEW v, NEW result,
         may => IsValue(v), Attempt(op, p, index, name, may, v, result)
  PROVE  IsValue(value') /\ (~may => value' = value) /\ (call'.ok <=> may) /\ call'.op = op
<1>1. value' = IF may THEN Put(value, p, v) ELSE value
  BY DEF Attempt
<1>2. call' = [op |-> op, at |-> p, index |-> index, name |-> name, arg |-> other,
               ok |-> may, result |-> IF may THEN result ELSE {}]
  BY DEF Attempt, Called
<1>3. (call'.ok <=> may) /\ call'.op = op
  BY <1>2
<1>4. ASSUME may
      PROVE  IsValue(value')
  <2>1. p \in Routes
    BY ValueParts
  <2>2. IsValue(Put(value, p, v))
    BY <1>4, <2>1, PutIsValue DEF Fits
  <2> QED
    BY <1>1, <1>4, <2>2
<1> QED
  BY <1>1, <1>3, <1>4

\* What is directly below a path.
LEMMA KeyBelow ==
  ASSUME NEW v, IsValue(v), NEW p \in DOMAIN v, NEW k \in Keys
  PROVE  Append(p, k) \in DOMAIN v <=> k \in KeysOf(Subtree(v, p))
<1>1. p \in Routes /\ DOMAIN v \subseteq Routes
  BY ValueParts
<1> DEFINE e == <<k>>
<1>2. e \in Routes /\ Append(p, k) = p \o e
  BY <1>1, LastOf DEF Routes
<1> HIDE DEF e
<1>3. e \in DOMAIN Subtree(v, p) <=> p \o e \in DOMAIN v
  <2>1. DOMAIN Subtree(v, p) = {q \in Routes : p \o q \in DOMAIN v}
    BY <1>1, SubtreeAt
  <2> QED
    BY <1>2, <2>1
<1> QED
  BY <1>2, <1>3 DEF KeysOf, e

\* An index and a name of a member for a container that has its kind of keys.
LEMMA Subscripts ==
  ASSUME NEW v, IsValue(v)
  PROVE  /\ \A i \in Nat : May(v, "array") => IsValue(Subscript(As(v, "array"), Index(i)))
         /\ \A n \in Seq(Nat) : May(v, "object") => IsValue(Subscript(As(v, "object"), n))
<1>1. ASSUME NEW i \in Nat, May(v, "array")
      PROVE  IsValue(Subscript(As(v, "array"), Index(i)))
  <2>1. IsValue(As(v, "array")) /\ As(v, "array")[<<>>].type = "array"
    BY <1>1, AsContainer DEF Containers
  <2>2. Index(i) \in Keys /\ IsKey("array", Index(i))
    BY IndexKeys
  <2> QED
    BY <2>1, <2>2, SubscriptElements
<1>2. ASSUME NEW n \in Seq(Nat), May(v, "object")
      PROVE  IsValue(Subscript(As(v, "object"), n))
  <2>1. IsValue(As(v, "object")) /\ As(v, "object")[<<>>].type = "object"
    BY <1>2, AsContainer DEF Containers
  <2>2. IsKey("object", n)
    BY DEF IsKey
  <2>3. n \in Keys
    BY <2>2, NameKeys
  <2> QED
    BY <2>1, <2>2, <2>3, SubscriptElements
<1> QED
  BY <1>1, <1>2

\* The calls that put something into a Value below, keep the other one or exchange
\* it for a Value: both are Values then, and a call that throws changes neither.
LEMMA CallsKeep ==
  ASSUME ValueInv, JsonValueAssumption, NEW p \in DOMAIN value,
         \/ CallAppend(p) \/ CallClear(p) \/ CallAssign(p) \/ CallSwap(p)
         \/ CallCopyPayload(p) \/ CallSwapPayload(p)
         \/ \E i \in Indices : CallInsert(p, i) \/ CallRemoveIndex(p, i) \/ CallIndex(p, i)
         \/ \E n \in Names : \/ CallName(p, n) \/ CallRemoveMember(p, n) \/ CallEraseMember(p, n)
         \/ \E comment \in Comments : CallSetComment(p, comment, Before)
  PROVE  ValueInv' /\ (~call'.ok => UNCHANGED <<value, other>>)
<1>1. IsValue(value) /\ IsValue(other) /\ IsValue(At(p)) /\ value[p] = At(p)[<<>>]
  BY ChildrenAre DEF ValueInv, At
<1>2. Indices \subseteq Nat /\ Names \subseteq Seq(Nat)
  BY DEF JsonValueAssumption, Indices
<1>3. \A at \in DOMAIN value : IsValue(At(at))
  BY <1>1, SubtreeIsValue DEF At
<1>4. CASE CallAppend(p)
  <2>1. May(At(p), "array") => IsValue(append(At(p), other))
    BY <1>1, AppendNth DEF IsArray
  <2> QED
    BY <1>1, <1>4, <2>1, Attempted DEF CallAppend, ValueInv
<1>5. CASE CallClear(p)
  <2>1. IsValue(clear(At(p)))
    BY <1>1, ClearElements
  <2> QED
    BY <1>1, <1>5, <2>1, Attempted DEF CallClear, ValueInv
<1>6. CASE CallAssign(p)
  BY <1>1, <1>6, Attempted DEF CallAssign, ValueInv
<1>7. CASE CallSwap(p)
  BY <1>1, <1>7, Attempted DEF CallSwap, ValueInv
<1>8. CASE CallCopyPayload(p)
  <2>1. IsValue(WithPayload(At(p), other))
    BY <1>1, WithPayloadElements
  <2> QED
    BY <1>1, <1>8, <2>1, Attempted DEF CallCopyPayload, ValueInv
<1>9. CASE CallSwapPayload(p)
  <2>1. IsValue(WithPayload(At(p), other)) /\ IsValue(WithPayload(other, At(p)))
    BY <1>1, WithPayloadElements
  <2> QED
    BY <1>1, <1>9, <2>1, Attempted DEF CallSwapPayload, ValueInv
<1>10. CASE \E i \in Indices : CallInsert(p, i)
  <2>1. PICK i \in Indices : CallInsert(p, i)
    BY <1>10
  <2> DEFINE v == IF i <= Size(p) THEN insert(At(p), i, other) ELSE At(p)
  <2>2. May(At(p), "array") => IsValue(v)
    <3>1. Size(p) = size(At(p), <<>>)
      BY <1>1, SizeBelow DEF Size, At
    <3>2. May(At(p), "array") => size(At(p), <<>>) \in Nat
      BY <1>1, AsArray, ArraySize
    <3>3. May(At(p), "array") /\ i <= Size(p) => i \in 0 .. size(At(p), <<>>)
      BY <1>2, <3>1, <3>2
    <3>4. May(At(p), "array") /\ i <= Size(p) => IsValue(insert(At(p), i, other))
      BY <1>1, <3>3, InsertNth DEF IsArray
    <3> QED
      BY <1>1, <3>4
  <2>3. /\ Attempt("insert", p, i, <<>>, May(At(p), "array"), v, IF i <= Size(p) THEN {other} ELSE {})
        /\ UNCHANGED other
    BY <2>1 DEF CallInsert
  <2> HIDE DEF v
  <2> QED
    BY <1>1, <2>2, <2>3, Attempted DEF ValueInv
<1>11. CASE \E i \in Indices : CallRemoveIndex(p, i)
  <2>1. PICK i \in Indices : CallRemoveIndex(p, i)
    BY <1>11
  <2> DEFINE at == Append(p, Index(i))
             there == value[p].type = "array" /\ at \in DOMAIN value
             v == IF there THEN removeIndex(At(p), i) ELSE At(p)
             result == IF there THEN {At(at)} ELSE {}
  <2>2. IsValue(v)
    <3>1. ASSUME there
          PROVE  IsValue(removeIndex(At(p), i))
      <4>1. IsArray(At(p))
        BY <1>1, <3>1 DEF IsArray
      <4>2. Index(i) \in KeysOf(At(p))
        BY <1>1, <1>2, <3>1, KeyBelow, IndexKeys DEF At
      <4> QED
        BY <1>2, <4>1, <4>2, RemoveNth DEF IsArray
    <3> HIDE DEF there
    <3> QED
      BY <1>1, <3>1
  <2>3. /\ Attempt("removeIndex", p, i, <<>>, TRUE, v, result)
        /\ other' = IF there THEN At(at) ELSE other
    BY <2>1 DEF CallRemoveIndex
  <2>4. IsValue(other')
    BY <1>1, <1>3, <2>3
  <2> HIDE DEF v, result
  <2> QED
    BY <1>1, <2>2, <2>3, <2>4, Attempted DEF ValueInv
<1>12. CASE \E i \in Indices : CallIndex(p, i)
  <2>1. PICK i \in Indices : CallIndex(p, i)
    BY <1>12
  <2>2. May(At(p), "array") => IsValue(Subscript(As(At(p), "array"), Index(i)))
    BY <1>1, <1>2, Subscripts
  <2> QED
    BY <1>1, <2>1, <2>2, Attempted DEF CallIndex, ValueInv
<1>13. CASE \E n \in Names : CallName(p, n)
  <2>1. PICK n \in Names : CallName(p, n)
    BY <1>13
  <2>2. May(At(p), "object") => IsValue(Subscript(As(At(p), "object"), n))
    BY <1>1, <1>2, Subscripts
  <2> QED
    BY <1>1, <2>1, <2>2, Attempted DEF CallName, ValueInv
<1>14. CASE \E n \in Names : CallRemoveMember(p, n)
  <2>1. PICK n \in Names : CallRemoveMember(p, n)
    BY <1>14
  <2> DEFINE at == Append(p, n)
             there == value[p].type = "object" /\ at \in DOMAIN value
             v == IF there THEN Erase(At(p), {n}) ELSE At(p)
             result == IF there THEN {At(at)} ELSE {}
  <2>2. IsValue(v)
    BY <1>1, EraseElements
  <2>3. /\ Attempt("removeMember", p, 0, n, TRUE, v, result)
        /\ other' = IF there THEN At(at) ELSE other
    BY <2>1 DEF CallRemoveMember
  <2>4. IsValue(other')
    BY <1>1, <1>3, <2>3
  <2> HIDE DEF v, result
  <2> QED
    BY <1>1, <2>2, <2>3, <2>4, Attempted DEF ValueInv
<1>15. CASE \E n \in Names : CallEraseMember(p, n)
  <2>1. PICK n \in Names : CallEraseMember(p, n)
    BY <1>15
  <2>2. IsValue(Erase(At(p), {n}))
    BY <1>1, EraseElements
  <2> QED
    BY <1>1, <2>1, <2>2, Attempted DEF CallEraseMember, ValueInv
<1>16. CASE \E comment \in Comments : CallSetComment(p, comment, Before)
  <2>1. PICK comment \in Comments : CallSetComment(p, comment, Before)
    BY <1>16
  <2> DEFINE kept == IF comment # <<>> /\ Last(comment) = LF THEN Front(comment) ELSE comment
             may == kept # <<>> /\ kept[1] \in {0, C("/")}
             v == setComment(At(p), <<>>, comment, Before)
  <2>2. IsValue(v)
    BY <1>1, SetCommentElements
  <2>3. Attempt("note", p, 0, <<>>, may, v, {}) /\ UNCHANGED other
    BY <2>1 DEF CallSetComment
  <2> HIDE DEF v, may
  <2> QED
    BY <1>1, <2>2, <2>3, Attempted DEF ValueInv
<1> QED
  BY <1>4, <1>5, <1>6, <1>7, <1>8, <1>9, <1>10, <1>11, <1>12, <1>13, <1>14, <1>15, <1>16

\* resize, which throws behind its changes only where an index is missing.
LEMMA ResizeKeeps ==
  ASSUME ValueInv, JsonValueAssumption, NEW p \in DOMAIN value, NEW n \in Nat, CallResize(p, n)
  PROVE  /\ ValueInv' /\ call'.op = "resize"
         /\ ~call'.ok => UNCHANGED <<value, other>> \/ ~Dense
<1> DEFINE v == resize(At(p), n)
           may == May(At(p), "array")
<1>1. IsValue(value) /\ IsValue(other) /\ IsValue(At(p)) /\ value[p] = At(p)[<<>>]
  BY ChildrenAre DEF ValueInv, At
<1>2. /\ value' = IF may THEN Put(value, p, v) ELSE value
      /\ Called("resize", p, n, <<>>, may /\ (n = 0 \/ size(v, <<>>) = n), {})
      /\ UNCHANGED other
  BY DEF CallResize
<1>3. (call'.ok <=> may /\ (n = 0 \/ size(v, <<>>) = n)) /\ call'.op = "resize"
  BY <1>2 DEF Called
<1>4. may => IsValue(v)
  BY <1>1, ResizeNth DEF IsArray
<1>5. IsValue(value')
  <2>1. p \in Routes
    BY <1>1, ValueParts
  <2>2. ASSUME may
        PROVE  IsValue(Put(value, p, v))
    <3> HIDE DEF v
    <3> QED
      BY <1>1, <1>4, <2>1, <2>2, PutIsValue DEF Fits
  <2> QED
    BY <1>1, <1>2, <2>2
<1>6. ASSUME may, Dense
      PROVE  n = 0 \/ size(v, <<>>) = n
  <2>1. \A i \in 0 .. size(At(p), <<>>) - 1 : Index(i) \in KeysOf(At(p))
    <3>1. CASE At(p)[<<>>].type = "array"
      <4>1. Cardinality(Children(value, p)) = size(value, p)
        BY <1>1, <1>6, <3>1 DEF Dense
      <4>2. Children(value, p) = KeysOf(At(p))
        BY <1>1, ChildrenAre DEF At
      <4>3. size(value, p) = size(At(p), <<>>)
        BY <1>1, SizeBelow DEF At
      <4>4. Cardinality(KeysOf(At(p))) = size(At(p), <<>>) /\ IsArray(At(p))
        BY <1>1, <3>1, <4>1, <4>2, <4>3 DEF IsArray
      <4> QED
        BY <4>4, DenseKeys
    <3>2. CASE At(p)[<<>>].type = "null"
      <4>1. size(At(p), <<>>) = 0
        BY <3>2, SizeOfOther DEF Containers
      <4> QED
        BY <4>1
    <3> QED
      BY <1>6, <3>1, <3>2 DEF May
  <2> QED
    BY <1>1, <1>6, <2>1, ResizeNth
<1>7. ~may => value' = value
  BY <1>2
<1> HIDE DEF v, may
<1> QED
  BY <1>1, <1>2, <1>3, <1>5, <1>6, <1>7 DEF ValueInv

\* Path::make.
LEMMA MakeKeeps ==
  ASSUME ValueInv, JsonValueAssumption, NEW path \in Paths, CallMake(path)
  PROVE  ValueInv' /\ (~call'.ok => UNCHANGED <<value, other>>)
<1> DEFINE args == makePath(path, <<>>)
           m == make(value, args)
<1>1. path \in Seq(Byte \ {0})
  BY DEF JsonValueAssumption
<1>2. args \in Seq(ArgKeys)
  BY <1>1, MakesKeys
<1>3. /\ value' = m.root /\ Called("make", <<>>, 0, path, m.ok, {Subtree(m.root, m.at)})
      /\ UNCHANGED other
  BY DEF CallMake
<1> HIDE DEF args
<1>4. IsValue(m.root) /\ m.ok \in BOOLEAN /\ (~m.ok => m.root = value)
  BY <1>2, MakeIs DEF ValueInv
<1> HIDE DEF m
<1>5. call'.ok = m.ok
  BY <1>3 DEF Called
<1> QED
  BY <1>3, <1>4, <1>5 DEF ValueInv

\* The second Value is made another one.
LEMMA OtherKeeps ==
  ASSUME ValueInv, JsonValueAssumption, NEW x \in Elements, CallOther(x)
  PROVE  ValueInv' /\ call'.ok
<1>1. IsValue(value) /\ <<>> \in DOMAIN value /\ IsValue(x)
  BY ValueParts DEF ValueInv, JsonValueAssumption
<1>2. other' = x /\ Attempt("note", <<>>, 0, <<>>, TRUE, value, {})
  BY DEF CallOther
<1> QED
  BY <1>1, <1>2, Attempted DEF ValueInv

LEMMA NextKeeps ==
  ASSUME ValueInv, JsonValueAssumption, Next
  PROVE  /\ ValueInv'
         /\ ~call'.ok => UNCHANGED <<value, other>> \/ (call'.op = "resize" /\ ~Dense)
<1>1. CASE Change
  <2>1. PICK p \in DOMAIN value :
           \/ CallAppend(p) \/ CallClear(p) \/ CallAssign(p) \/ CallSwap(p)
           \/ CallCopyPayload(p) \/ CallSwapPayload(p)
           \/ \E i \in Indices : \/ CallInsert(p, i) \/ CallRemoveIndex(p, i)
                                 \/ CallResize(p, i) \/ CallIndex(p, i)
           \/ \E n \in Names : \/ CallName(p, n) \/ CallRemoveMember(p, n) \/ CallEraseMember(p, n)
           \/ \E comment \in Comments : CallSetComment(p, comment, Before)
           \/ \E path \in Paths : CallMake(path)
    BY <1>1 DEF Change
  <2>2. CASE \E i \in Indices : CallResize(p, i)
    <3>1. PICK i \in Indices : CallResize(p, i)
      BY <2>2
    <3>2. i \in Nat
      BY DEF JsonValueAssumption, Indices
    <3> QED
      BY <3>1, <3>2, ResizeKeeps
  <2>3. CASE \E path \in Paths : CallMake(path)
    BY <2>3, MakeKeeps
  <2>4. CASE \/ CallAppend(p) \/ CallClear(p) \/ CallAssign(p) \/ CallSwap(p)
             \/ CallCopyPayload(p) \/ CallSwapPayload(p)
             \/ \E i \in Indices : CallInsert(p, i) \/ CallRemoveIndex(p, i) \/ CallIndex(p, i)
             \/ \E n \in Names : \/ CallName(p, n) \/ CallRemoveMember(p, n) \/ CallEraseMember(p, n)
             \/ \E comment \in Comments : CallSetComment(p, comment, Before)
    BY <2>4, CallsKeep
  <2> QED
    BY <2>1, <2>2, <2>3, <2>4
<1>2. CASE \E x \in Elements : CallOther(x)
  BY <1>2, OtherKeeps
<1> QED
  BY <1>1, <1>2 DEF Next

\* Whatever is called, and on whatever Value below: both are Values that a program
\* can hold, with containers only above others and keys of the kind of the container
\* (the calls of json_value.cpp).
THEOREM ValueCorrect == Spec => []ValueInv
<1>1. Init => ValueInv
  BY JsonValueAssumption DEF Init, ValueInv, JsonValueAssumption
<1>2. ValueInv /\ [Next]_vars => ValueInv'
  BY JsonValueAssumption, NextKeeps DEF vars, ValueInv
<1> QED
  BY <1>1, <1>2, PTL DEF Spec

\* A call that throws leaves both Values as they were, but a resize of an array that
\* has a hole (JSON_ASSERT in json_value.cpp, Path::make).
THEOREM ThrowsCleanlyCorrect == Spec => ThrowsCleanly
<1>1. ValueInv /\ [Next]_vars =>
          [~call'.ok => UNCHANGED <<value, other>> \/ (call'.op = "resize" /\ ~Dense)]_vars
  BY JsonValueAssumption, NextKeeps DEF vars
<1> QED
  BY <1>1, ValueCorrect, PTL DEF Spec, ThrowsCleanly

-----------------------------------------------------------------------------
(***************************************************************************)
(* What a path finds.                                                      *)
(***************************************************************************)
\* The element of an element.
LEMMA SubtreeBelow ==
  ASSUME NEW v, IsValue(v), NEW p \in DOMAIN v, NEW k \in Keys, Append(p, k) \in DOMAIN v
  PROVE  Child(Subtree(v, p), k) = Subtree(v, Append(p, k))
<1> DEFINE w == Subtree(v, p)
           e == <<k>>
           at == Append(p, k)
           x == Subtree(v, at)
           y == Subtree(w, e)
<1>1. p \in Routes /\ DOMAIN v \subseteq Routes
  BY ValueParts
<1>2. e \in Routes /\ at = p \o e /\ at \in Routes
  BY <1>1, LastOf DEF Routes
<1>3. Child(w, k) = y
  BY DEF Child
<1> HIDE DEF e, at
<1>4. /\ DOMAIN w = {q \in Routes : p \o q \in DOMAIN v}
      /\ \A q \in Routes : p \o q \in DOMAIN v => w[q] = v[p \o q]
  BY <1>1, SubtreeAt
<1>5. DOMAIN w \subseteq Routes
  BY <1>4
<1> HIDE DEF w
<1>6. /\ DOMAIN y = {q \in Routes : e \o q \in DOMAIN w}
      /\ \A q \in Routes : e \o q \in DOMAIN w => y[q] = w[e \o q]
      /\ y = [q \in DOMAIN y |-> y[q]]
  BY <1>2, <1>5, SubtreeAt
<1>7. /\ DOMAIN x = {q \in Routes : at \o q \in DOMAIN v}
      /\ \A q \in Routes : at \o q \in DOMAIN v => x[q] = v[at \o q]
      /\ x = [q \in DOMAIN x |-> x[q]]
  BY <1>1, <1>2, SubtreeAt
<1> HIDE DEF x, y
<1>8. ASSUME NEW q \in Routes
      PROVE  e \o q \in Routes /\ p \o (e \o q) = at \o q
  <2>1. e \in Seq(Keys) /\ p \in Seq(Keys) /\ q \in Seq(Keys)
    BY <1>1, <1>2 DEF Routes
  <2>2. e \o q \in Seq(Keys)
    BY <2>1, ConcatProperties
  <2>3. (p \o e) \o q = p \o (e \o q)
    BY <2>1, ConcatAssociative
  <2> QED
    BY <1>2, <2>2, <2>3 DEF Routes
<1>9. \A q \in Routes : e \o q \in DOMAIN w <=> at \o q \in DOMAIN v
  BY <1>4, <1>8
<1>10. DOMAIN x = DOMAIN y
  BY <1>6, <1>7, <1>9
<1>11. ASSUME NEW q \in DOMAIN x
       PROVE  x[q] = y[q]
  <2>1. q \in Routes /\ at \o q \in DOMAIN v /\ e \o q \in DOMAIN w /\ e \o q \in Routes
    BY <1>7, <1>8, <1>9
  <2>2. x[q] = v[at \o q] /\ y[q] = w[e \o q]
    BY <1>6, <1>7, <2>1
  <2>3. w[e \o q] = v[p \o (e \o q)]
    BY <1>4, <2>1
  <2> QED
    BY <1>8, <2>1, <2>2, <2>3
<1>12. x = y
  BY ONLY <1>6, <1>7, <1>10, <1>11, SameFunction
<1> QED
  BY <1>3, <1>12 DEF x, at, w

\* A key for which something is there leads to it, and to nothing else.
LEMMA FoundThere ==
  ASSUME NEW root, IsValue(root), NEW p \in DOMAIN root, NEW k \in ArgKeys, Append(p, k) \in DOMAIN root
  PROVE  Found(Subtree(root, p), k) = {Subtree(root, Append(p, k))}
<1> DEFINE v == Subtree(root, p)
<1>1. IsValue(v) /\ k \in Keys
  BY SubtreeIsValue, ArgKeyOf
<1>2. k \in KeysOf(v) /\ Child(v, k) = Subtree(root, Append(p, k))
  BY <1>1, KeyBelow, SubtreeBelow
<1> HIDE DEF v
<1>3. <<k>> \in DOMAIN v /\ IsKey(v[<<>>].type, k)
  BY <1>1, <1>2, ValueParts DEF KeysOf
<1>4. v[<<>>].type = ContainerFor(k)
  BY <1>3, ArgKeyOf
<1>5. IsIndex(k) => isValidIndex(v, k[2])
  <2>1. ASSUME IsIndex(k)
        PROVE  k[2] < size(v, <<>>)
    <3>1. v[<<>>].type = "array"
      BY <1>4, <2>1 DEF ContainerFor
    <3>2. size(v, <<>>) \in Nat /\ k[2] \in 0 .. size(v, <<>>) - 1
      BY <1>1, <1>2, <3>1, SizeOf
    <3> QED
      BY <3>2
  <2> QED
    BY <2>1 DEF isValidIndex
<1>6. Found(v, k) = {Child(v, k)}
  BY <1>3, <1>4, <1>5 DEF Found
<1> QED
  BY <1>2, <1>6 DEF v

\* The loop of resolve has a result after each of its steps.
Reached(root, args) ==
    LET reached[i \in 0 .. Len(args)] ==
            IF i = 0 THEN {root} ELSE UNION {Found(v, args[i]) : v \in reached[i - 1]}
    IN  reached

LEMMA ReachedSteps ==
  ASSUME NEW root, NEW args, Len(args) \in Nat
  PROVE  /\ Resolved(root, args) = Reached(root, args)[Len(args)]
         /\ Reached(root, args)[0] = {root}
         /\ \A i \in 1 .. Len(args) :
                Reached(root, args)[i] = UNION {Found(v, args[i]) : v \in Reached(root, args)[i - 1]}
<1> DEFINE n == Len(args)
           Step(i, x) == IF i = 0 THEN {root} ELSE UNION {Found(v, args[i]) : v \in x}
           b == {root}
           Is(k, f) == f = [i \in 0 .. k |-> Step(i, f[i - 1])]
           A == {k \in Nat : \E f : Is(k, f)}
<1>1. n \in Nat
  OBVIOUS
<1>2. \A x : Step(0, x) = b
  OBVIOUS
<1>3. \A i \in 1 .. n : \A x : Step(i, x) = UNION {Found(v, args[i]) : v \in x}
  OBVIOUS
<1> HIDE DEF n, Step, b
<1>4. 0 \in A
  <2> DEFINE f == [i \in 0 .. 0 |-> b]
  <2>1. Is(0, f)
    BY <1>2
  <2> HIDE DEF Is, f
  <2> QED
    BY <2>1
<1>5. ASSUME NEW k \in 0 .. n - 1, k \in A
      PROVE  k + 1 \in A
  <2>1. PICK f : Is(k, f)
    BY <1>5
  <2> DEFINE g == [i \in 0 .. k + 1 |-> IF i <= k THEN f[i] ELSE Step(k + 1, f[k])]
  <2>2. \A i \in 0 .. k : g[i] = f[i]
    BY <1>1
  <2>3. g[k + 1] = Step(k + 1, f[k]) /\ g = [i \in 0 .. k + 1 |-> g[i]]
    BY <1>1
  <2> HIDE DEF g
  <2>4. ASSUME NEW i \in 0 .. k + 1
        PROVE  g[i] = Step(i, g[i - 1])
    <3>1. CASE i = 0
      <4>1. 0 \in 0 .. k
        BY <1>1
      <4>2. f[0] = b
        BY <1>2, <2>1, <4>1
      <4> QED
        BY <1>2, <2>2, <3>1, <4>1, <4>2
    <3>2. CASE i \in 1 .. k
      <4>1. i \in 0 .. k /\ i - 1 \in 0 .. k
        BY <3>2
      <4>2. f[i] = Step(i, f[i - 1])
        BY <2>1, <4>1
      <4> QED
        BY <2>2, <4>1, <4>2
    <3>3. CASE i = k + 1
      <4>1. i - 1 = k /\ k \in 0 .. k
        BY <1>1, <3>3
      <4> QED
        BY <2>2, <2>3, <3>3, <4>1
    <3> QED
      BY <1>1, <3>1, <3>2, <3>3
  <2>5. Is(k + 1, g)
    BY <2>3, <2>4
  <2> HIDE DEF Is
  <2> QED
    BY <1>1, <2>5
<1>6. n \in A
  <2> HIDE DEF A, Is
  <2>1. \A k \in 0 .. n - 1 : k \in A => k + 1 \in A
    BY <1>5
  <2>2. \A k \in 0 .. n : k \in A
    BY <1>1, <1>4, <2>1, InductionUpTo
  <2> QED
    BY <1>1, <2>2
<1> DEFINE h == CHOOSE f : Is(n, f)
<1>7. Is(n, h)
  BY <1>6
<1> HIDE DEF h
<1>8. h[0] = b /\ \A i \in 1 .. n : h[i] = Step(i, h[i - 1])
  <2>1. \A i \in 0 .. n : h[i] = Step(i, h[i - 1])
    BY <1>7
  <2>2. 0 \in 0 .. n /\ \A i \in 1 .. n : i \in 0 .. n
    BY <1>1
  <2> QED
    BY <1>2, <2>1, <2>2
<1>9. h = Reached(root, args)
  BY DEF h, Reached, Step, n
<1>10. Resolved(root, args) = Reached(root, args)[n]
  BY DEF Resolved, Reached, n
<1>11. \A i \in 1 .. n : h[i] = UNION {Found(v, args[i]) : v \in h[i - 1]}
  BY <1>3, <1>8
<1> HIDE DEF Is, A
<1> QED
  BY <1>8, <1>9, <1>10, <1>11 DEF n, b

\* Where the arguments are the keys of something, they lead there.
LEMMA ResolvesTo ==
  ASSUME NEW root, IsValue(root), NEW args \in Seq(ArgKeys), args \in DOMAIN root
  PROVE  Resolved(root, args) = {Subtree(root, args)}
<1> DEFINE n == Len(args)
           pre(i) == SubSeq(args, 1, i)
           reached == Reached(root, args)
<1>1. n \in Nat
  BY LenProperties
<1>2. /\ Resolved(root, args) = reached[n] /\ reached[0] = {root}
      /\ \A i \in 1 .. n : reached[i] = UNION {Found(v, args[i]) : v \in reached[i - 1]}
  BY <1>1, ReachedSteps
<1>3. pre(n) = args /\ pre(0) = <<>>
  BY <1>1, SubSeqFull, SubSeqEmpty
<1>4. \A i \in 1 .. n : args[i] \in ArgKeys /\ args[i] \in Keys
  BY ElementOfSeq, ArgKeyOf
<1>5. ASSUME NEW i \in 0 .. n
      PROVE  pre(i) \in Routes
  <2>1. \A j \in 1 .. i : args[j] \in Keys
    BY <1>1, <1>4
  <2>2. 1 \in Int /\ i \in Int
    OBVIOUS
  <2> QED
    BY ONLY <2>1, <2>2, SubSeqProperties DEF Routes
<1>6. ASSUME NEW i \in 1 .. n
      PROVE  pre(i) = pre(i - 1) \o <<args[i]>> /\ pre(i) = Append(pre(i - 1), args[i])
  <2>1. 1 \in 1 .. Len(args) /\ i \in 1 .. Len(args) /\ i - 1 \in 0 .. n
    BY <1>1
  <2>2. pre(i) = pre(i - 1) \o <<args[i]>>
    BY <2>1, SubSeqRecursiveSecond
  <2>3. pre(i - 1) \in Routes /\ args[i] \in Keys
    BY <1>4, <1>5, <2>1
  <2> DEFINE s == pre(i - 1)
             k == args[i]
  <2> HIDE DEF s, k
  <2>4. Append(s, k) = s \o <<k>>
    BY <2>3, LastOf DEF Routes, s, k
  <2> QED
    BY <2>2, <2>4 DEF s, k
<1> HIDE DEF reached, pre, n
<1> DEFINE A == {i \in 0 .. n : pre(i) \in DOMAIN root}
<1>7. ASSUME NEW i \in 0 .. n, \A j \in i + 1 .. n : j \in A
      PROVE  i \in A
  <2>1. CASE i = n
    BY <1>3, <2>1
  <2>2. CASE i # n
    <3>1. i + 1 \in 1 .. n /\ (i + 1) - 1 = i /\ i + 1 \in i + 1 .. n
      BY <1>1, <2>2
    <3>2. pre(i + 1) \in DOMAIN root
      BY <1>7, <3>1
    <3>3. pre(i + 1) = pre(i) \o <<args[i + 1]>>
      BY <1>6, <3>1
    <3>4. pre(i) \in Routes /\ args[i + 1] \in Keys
      BY <1>4, <1>5, <3>1
    <3>5. Shaped(root)
      BY ValueIsShaped
    <3> DEFINE q == pre(i)
               k == args[i + 1]
    <3>6. q \in Routes /\ k \in Keys /\ q \o <<k>> \in DOMAIN root
      BY <3>2, <3>3, <3>4
    <3> HIDE DEF q, k
    <3>7. q \in DOMAIN root
      BY <3>5, <3>6 DEF Shaped
    <3> QED
      BY <3>7 DEF q
  <2> QED
    BY <2>1, <2>2
<1>8. \A i \in 0 .. n : i \in A
  <2> HIDE DEF A
  <2> QED
    BY <1>1, <1>7, InductionBack
<1>9. \A i \in 0 .. n : pre(i) \in DOMAIN root
  BY <1>8
<1> DEFINE B == {i \in 0 .. n : reached[i] = {Subtree(root, pre(i))}}
<1>10. 0 \in B
  <2>1. Subtree(root, pre(0)) = root
    BY <1>3, SubtreeAtRoot
  <2> QED
    BY <1>1, <1>2, <2>1
<1>11. ASSUME NEW i \in 0 .. n - 1, i \in B
       PROVE  i + 1 \in B
  <2>1. i + 1 \in 1 .. n /\ (i + 1) - 1 = i /\ i + 1 \in 0 .. n /\ i \in 0 .. n
    BY <1>1
  <2>2. pre(i + 1) = Append(pre(i), args[i + 1]) /\ args[i + 1] \in ArgKeys
    BY <1>4, <1>6, <2>1
  <2>3. Found(Subtree(root, pre(i)), args[i + 1]) = {Subtree(root, pre(i + 1))}
    <3> DEFINE p == pre(i)
               k == args[i + 1]
    <3>1. p \in DOMAIN root /\ k \in ArgKeys /\ Append(p, k) \in DOMAIN root /\ pre(i + 1) = Append(p, k)
      BY <1>9, <2>1, <2>2
    <3> HIDE DEF p, k
    <3>2. Found(Subtree(root, p), k) = {Subtree(root, Append(p, k))}
      BY <3>1, FoundThere
    <3> QED
      BY <3>1, <3>2 DEF p, k
  <2>4. reached[i + 1] = UNION {Found(v, args[i + 1]) : v \in reached[i]}
    BY <1>2, <2>1
  <2>5. reached[i] = {Subtree(root, pre(i))}
    BY <1>11
  <2>6. reached[i + 1] = {Subtree(root, pre(i + 1))}
    BY <2>3, <2>4, <2>5
  <2> QED
    BY <2>1, <2>6
<1>12. \A i \in 0 .. n : i \in B
  <2> HIDE DEF B
  <2> QED
    BY <1>1, <1>10, <1>11, InductionUpTo
<1>13. reached[n] = {Subtree(root, pre(n))}
  BY <1>1, <1>12
<1> QED
  BY <1>2, <1>3, <1>13

\* What a path has made, the path finds, and nothing else (Path::make and
\* Path::resolve in json_value.cpp).
THEOREM PathFindsWhatItMadeCorrect == Spec => PathFindsWhatItMade
<1>1. ASSUME ValueInv, [Next]_vars
      PROVE  [call'.op = "make" /\ call'.ok => Resolved(value', makePath(call'.name, <<>>)) = call'.result]_vars
  <2>1. CASE UNCHANGED vars
    BY <2>1
  <2>2. CASE \E path \in Paths : CallMake(path)
    <3>1. PICK path \in Paths : CallMake(path)
      BY <2>2
    <3> DEFINE args == makePath(path, <<>>)
               m == make(value, args)
    <3>2. args \in Seq(ArgKeys)
      BY JsonValueAssumption, MakesKeys DEF JsonValueAssumption
    <3>3. value' = m.root /\ Called("make", <<>>, 0, path, m.ok, {Subtree(m.root, m.at)})
      BY <3>1 DEF CallMake
    <3>4. makePath(call'.name, <<>>) = args
      <4>1. call'.name = path
        BY <3>3 DEF Called
      <4> QED
        BY <4>1
    <3> HIDE DEF args
    <3>5. IsValue(m.root) /\ m.at \in DOMAIN m.root /\ (m.ok => m.at = args)
      BY <1>1, <3>2, MakeIs DEF ValueInv
    <3> HIDE DEF m
    <3>6. call'.ok = m.ok /\ call'.result = {Subtree(m.root, m.at)}
      BY <3>3 DEF Called
    <3>7. m.ok => Resolved(m.root, args) = {Subtree(m.root, args)}
      BY <3>2, <3>5, ResolvesTo
    <3> QED
      BY <3>3, <3>4, <3>5, <3>6, <3>7
  <2>3. CASE Next /\ ~\E path \in Paths : CallMake(path)
    <3>1. call'.op # "make"
      <4>1. ASSUME NEW op, NEW p, NEW index, NEW name, NEW may, NEW v, NEW result,
                   Attempt(op, p, index, name, may, v, result)
            PROVE  call'.op = op
        BY <4>1 DEF Attempt, Called
      <4>2. CASE Change
        <5>1. PICK p \in DOMAIN value :
                 \/ CallAppend(p) \/ CallClear(p) \/ CallAssign(p) \/ CallSwap(p)
                 \/ CallCopyPayload(p) \/ CallSwapPayload(p)
                 \/ \E i \in Indices : \/ CallInsert(p, i) \/ CallRemoveIndex(p, i)
                                       \/ CallResize(p, i) \/ CallIndex(p, i)
                 \/ \E n \in Names : \/ CallName(p, n) \/ CallRemoveMember(p, n) \/ CallEraseMember(p, n)
                 \/ \E comment \in Comments : CallSetComment(p, comment, Before)
          BY <2>3, <4>2 DEF Change
        <5>2. CASE CallAppend(p) \/ CallClear(p) \/ CallAssign(p) \/ CallSwap(p)
          BY <4>1, <5>2 DEF CallAppend, CallClear, CallAssign, CallSwap
        <5>3. CASE CallCopyPayload(p) \/ CallSwapPayload(p)
          BY <4>1, <5>3 DEF CallCopyPayload, CallSwapPayload
        <5>4. CASE \E i \in Indices : CallInsert(p, i) \/ CallRemoveIndex(p, i) \/ CallIndex(p, i)
          BY <4>1, <5>4 DEF CallInsert, CallRemoveIndex, CallIndex
        <5>5. CASE \E i \in Indices : CallResize(p, i)
          BY <5>5 DEF CallResize, Called
        <5>6. CASE \E n \in Names : CallName(p, n) \/ CallRemoveMember(p, n) \/ CallEraseMember(p, n)
          BY <4>1, <5>6 DEF CallName, CallRemoveMember, CallEraseMember
        <5>7. CASE \E comment \in Comments : CallSetComment(p, comment, Before)
          BY <4>1, <5>7 DEF CallSetComment
        <5> QED
          BY <5>1, <5>2, <5>3, <5>4, <5>5, <5>6, <5>7
      <4>3. CASE \E x \in Elements : CallOther(x)
        BY <4>1, <4>3 DEF CallOther
      <4> QED
        BY <2>3, <4>2, <4>3 DEF Next
    <3> QED
      BY <3>1
  <2> QED
    BY <1>1, <2>1, <2>2, <2>3
<1>2. ValueInv /\ [Next]_vars =>
          [call'.op = "make" /\ call'.ok => Resolved(value', makePath(call'.name, <<>>)) = call'.result]_vars
  BY <1>1
<1> QED
  BY <1>2, ValueCorrect, PTL DEF Spec, PathFindsWhatItMade

-----------------------------------------------------------------------------
(***************************************************************************)
(* The order of keys, and the walk over the members.                       *)
(***************************************************************************)
\* Where two sequences begin with the same.
LEMMA BeginSame ==
  ASSUME NEW a \in Keys, NEW b \in Keys, NEW n \in Nat, n <= Len(a), n <= Len(b)
  PROVE  SubSeq(a, 1, n) = SubSeq(b, 1, n) <=> \A i \in 1 .. n : a[i] = b[i]
<1>1. Len(a) \in Nat /\ Len(b) \in Nat
  BY LenProperties DEF Keys
<1>2. ASSUME NEW s \in Keys, n <= Len(s)
      PROVE  /\ SubSeq(s, 1, n) \in Seq(Int) /\ Len(SubSeq(s, 1, n)) = n
             /\ \A i \in 1 .. n : SubSeq(s, 1, n)[i] = s[i]
  <2>1. \A i \in 1 .. n : s[i] \in Int
    <3>1. Len(s) \in Nat /\ s \in Seq(Int)
      BY LenProperties DEF Keys
    <3>2. \A i \in 1 .. n : i \in 1 .. Len(s)
      BY <1>2, <3>1
    <3> QED
      BY <3>1, <3>2, ElementOfSeq
  <2>2. /\ SubSeq(s, 1, n) \in Seq(Int)
        /\ Len(SubSeq(s, 1, n)) = IF 1 <= n THEN n - 1 + 1 ELSE 0
        /\ \A i \in 1 .. n - 1 + 1 : SubSeq(s, 1, n)[i] = s[1 + i - 1]
    BY <2>1, SubSeqProperties
  <2>3. n - 1 + 1 = n /\ \A i \in 1 .. n : 1 + i - 1 = i
    OBVIOUS
  <2> QED
    BY <2>2, <2>3
<1> DEFINE s == SubSeq(a, 1, n)
           t == SubSeq(b, 1, n)
<1>3. /\ s \in Seq(Int) /\ Len(s) = n /\ \A i \in 1 .. n : s[i] = a[i]
      /\ t \in Seq(Int) /\ Len(t) = n /\ \A i \in 1 .. n : t[i] = b[i]
  BY <1>2
<1> HIDE DEF s, t
<1>4. ASSUME \A i \in 1 .. n : a[i] = b[i]
      PROVE  s = t
  <2>1. \A i \in 1 .. Len(s) : s[i] = t[i]
    BY <1>3, <1>4
  <2> QED
    BY <1>3, <2>1, SeqEqual
<1>5. ASSUME s = t, NEW i \in 1 .. n
      PROVE  a[i] = b[i]
  BY <1>3, <1>5
<1> QED
  BY <1>4, <1>5 DEF s, t

\* operator< looks for the first byte that differs.
Differs(a, b, n) ==
    /\ n < Len(b) /\ \A i \in 1 .. n : a[i] = b[i]
    /\ n = Len(a) \/ a[n + 1] < b[n + 1]

LEMMA KeyLessAt ==
  ASSUME NEW a \in Keys, NEW b \in Keys
  PROVE  KeyLess(a, b) <=> \E n \in 0 .. Len(a) : Differs(a, b, n)
<1>1. Len(a) \in Nat /\ Len(b) \in Nat
  BY LenProperties DEF Keys
<1>2. ASSUME NEW n \in 0 .. Len(a), n < Len(b)
      PROVE  SubSeq(a, 1, n) = SubSeq(b, 1, n) <=> \A i \in 1 .. n : a[i] = b[i]
  BY <1>1, <1>2, BeginSame
<1>3. ASSUME KeyLess(a, b)
      PROVE  \E n \in 0 .. Len(a) : Differs(a, b, n)
  <2>1. PICK n \in 0 .. Len(a) : /\ n < Len(b) /\ SubSeq(a, 1, n) = SubSeq(b, 1, n)
                                 /\ n = Len(a) \/ a[n + 1] < b[n + 1]
    BY <1>3 DEF KeyLess
  <2>2. \A i \in 1 .. n : a[i] = b[i]
    BY <1>2, <2>1
  <2> QED
    BY <2>1, <2>2 DEF Differs
<1>4. ASSUME NEW n \in 0 .. Len(a), Differs(a, b, n)
      PROVE  KeyLess(a, b)
  <2>1. SubSeq(a, 1, n) = SubSeq(b, 1, n)
    BY <1>2, <1>4 DEF Differs
  <2> QED
    BY <1>4, <2>1 DEF Differs, KeyLess
<1> QED
  BY <1>3, <1>4

\* It is a strict total order.
LEMMA KeysOrdered ==
  /\ \A a \in Keys : ~KeyLess(a, a)
  /\ \A a, b, c \in Keys : KeyLess(a, b) /\ KeyLess(b, c) => KeyLess(a, c)
  /\ \A a, b \in Keys : a = b \/ KeyLess(a, b) \/ KeyLess(b, a)
<1>1. \A s \in Keys : Len(s) \in Nat /\ s \in Seq(Int) /\ \A n \in 0 .. Len(s) - 1 : s[n + 1] \in Int
  <2>1. ASSUME NEW s \in Keys
        PROVE  Len(s) \in Nat /\ s \in Seq(Int) /\ \A n \in 0 .. Len(s) - 1 : s[n + 1] \in Int
    <3>1. Len(s) \in Nat /\ s \in Seq(Int)
      BY LenProperties DEF Keys
    <3>2. \A n \in 0 .. Len(s) - 1 : n + 1 \in 1 .. Len(s)
      BY <3>1
    <3> QED
      BY <3>1, <3>2, ElementOfSeq
  <2> QED
    BY <2>1
<1>2. ASSUME NEW a \in Keys
      PROVE  ~KeyLess(a, a)
  <2>1. ASSUME KeyLess(a, a)
        PROVE  FALSE
    <3>0. PICK n \in 0 .. Len(a) : Differs(a, a, n)
      BY <2>1, KeyLessAt
    <3>1. n < Len(a) /\ (n = Len(a) \/ a[n + 1] < a[n + 1])
      BY <3>0 DEF Differs
    <3>2. n \in 0 .. Len(a) - 1
      BY <1>1, <3>1
    <3>3. a[n + 1] \in Int
      BY <1>1, <3>2
    <3> QED
      BY <1>1, <3>1, <3>3
  <2> QED
    BY <2>1
<1>3. ASSUME NEW a \in Keys, NEW b \in Keys, NEW c \in Keys, KeyLess(a, b), KeyLess(b, c)
      PROVE  KeyLess(a, c)
  <2>0. Len(a) \in Nat /\ Len(b) \in Nat /\ Len(c) \in Nat
    BY <1>1
  <2>7. PICK n \in 0 .. Len(a) : Differs(a, b, n)
    BY <1>3, KeyLessAt
  <2>8. PICK m \in 0 .. Len(b) : Differs(b, c, m)
    BY <1>3, KeyLessAt
  <2>1. /\ n < Len(b) /\ \A i \in 1 .. n : a[i] = b[i]
        /\ n = Len(a) \/ a[n + 1] < b[n + 1]
    BY <2>7 DEF Differs
  <2>2. /\ m < Len(c) /\ \A i \in 1 .. m : b[i] = c[i]
        /\ m = Len(b) \/ b[m + 1] < c[m + 1]
    BY <2>8 DEF Differs
  <2>3. CASE n < m
    <3>1. n + 1 \in 1 .. m /\ n < Len(c)
      BY <2>0, <2>2, <2>3
    <3>2. \A i \in 1 .. n : i \in 1 .. m
      BY <2>3
    <3>3. \A i \in 1 .. n : a[i] = c[i]
      BY <2>1, <2>2, <3>2
    <3>4. n = Len(a) \/ a[n + 1] < c[n + 1]
      BY <2>1, <2>2, <3>1
    <3> QED
      BY <3>1, <3>3, <3>4, KeyLessAt DEF Differs
  <2>4. CASE n = m
    <3>1. \A i \in 1 .. n : a[i] = c[i]
      BY <2>1, <2>2, <2>4
    <3>2. n < Len(c) /\ b[n + 1] < c[n + 1]
      BY <2>1, <2>2, <2>4, <2>0
    <3>3. n = Len(a) \/ a[n + 1] < c[n + 1]
      <4>1. CASE n = Len(a)
        BY <4>1
      <4>2. CASE n # Len(a)
        <5>1. n \in 0 .. Len(a) - 1 /\ n \in 0 .. Len(b) - 1 /\ n \in 0 .. Len(c) - 1
          BY <2>0, <2>1, <3>2, <4>2
        <5>2. a[n + 1] \in Int /\ b[n + 1] \in Int /\ c[n + 1] \in Int
          BY <1>1, <5>1
        <5> QED
          BY <2>1, <3>2, <4>2, <5>2
      <4> QED
        BY <4>1, <4>2
    <3> QED
      BY <3>1, <3>2, <3>3, KeyLessAt DEF Differs
  <2>5. CASE m < n
    <3>1. m + 1 \in 1 .. n /\ m \in 0 .. Len(a) /\ m # Len(b)
      BY <2>0, <2>1, <2>5
    <3>2. \A i \in 1 .. m : i \in 1 .. n
      BY <2>5
    <3>3. \A i \in 1 .. m : a[i] = c[i]
      BY <2>1, <2>2, <3>2
    <3>4. a[m + 1] < c[m + 1]
      BY <2>1, <2>2, <3>1
    <3> QED
      BY <2>2, <3>1, <3>3, <3>4, KeyLessAt DEF Differs
  <2> QED
    BY <2>3, <2>4, <2>5
<1>4. ASSUME NEW a \in Keys, NEW b \in Keys
      PROVE  a = b \/ KeyLess(a, b) \/ KeyLess(b, a)
  <2> DEFINE D == {n \in Nat : n < Len(a) /\ n < Len(b) /\ a[n + 1] # b[n + 1]}
  <2>0. Len(a) \in Nat /\ Len(b) \in Nat
    BY <1>1
  <2>1. CASE D # {}
    <3>1. PICK n \in D : \A m \in D : n <= m
      <4>1. D \in SUBSET Nat
        OBVIOUS
      <4> HIDE DEF D
      <4> QED
        BY <2>1, <4>1, LeastNumber
    <3>2. n \in Nat /\ n < Len(a) /\ n < Len(b) /\ a[n + 1] # b[n + 1]
      BY <3>1
    <3>3. ASSUME NEW i \in 1 .. n
          PROVE  a[i] = b[i]
      <4>1. i - 1 \in Nat /\ (i - 1) + 1 = i /\ i - 1 < n /\ i - 1 < Len(a) /\ i - 1 < Len(b)
        BY <2>0, <3>2
      <4>2. i - 1 \notin D
        <5> HIDE DEF D
        <5> QED
          BY <3>1, <3>2, <4>1
      <4> QED
        BY <4>1, <4>2
    <3>4. n \in 0 .. Len(a) - 1 /\ n \in 0 .. Len(b) - 1
      BY <2>0, <3>2
    <3>5. a[n + 1] \in Int /\ b[n + 1] \in Int
      BY <1>1, <3>4
    <3>6. CASE a[n + 1] < b[n + 1]
      BY <3>2, <3>3, <3>4, <3>6, KeyLessAt DEF Differs
    <3>7. CASE b[n + 1] < a[n + 1]
      <4>1. \A i \in 1 .. n : b[i] = a[i]
        BY <3>3
      <4> QED
        BY <3>2, <3>4, <3>7, <4>1, KeyLessAt DEF Differs
    <3> QED
      BY <3>2, <3>5, <3>6, <3>7
  <2>2. CASE D = {}
    <3>1. ASSUME NEW i \in Nat, i >= 1, i <= Len(a), i <= Len(b)
          PROVE  a[i] = b[i]
      <4>1. i - 1 \in Nat /\ (i - 1) + 1 = i /\ i - 1 < Len(a) /\ i - 1 < Len(b)
        BY <2>0, <3>1
      <4> QED
        BY <2>2, <4>1
    <3>2. CASE Len(a) < Len(b)
      <4>1. \A i \in 1 .. Len(a) : a[i] = b[i]
        BY <2>0, <3>1, <3>2
      <4>2. Len(a) \in 0 .. Len(a)
        BY <2>0
      <4> QED
        BY <3>2, <4>1, <4>2, KeyLessAt DEF Differs
    <3>3. CASE Len(b) < Len(a)
      <4>1. \A i \in 1 .. Len(b) : b[i] = a[i]
        BY <2>0, <3>1, <3>3
      <4>2. Len(b) \in 0 .. Len(b)
        BY <2>0
      <4> QED
        BY <3>3, <4>1, <4>2, KeyLessAt DEF Differs
    <3>4. CASE Len(a) = Len(b)
      <4>1. \A i \in 1 .. Len(a) : a[i] = b[i]
        BY <2>0, <3>1, <3>4
      <4>2. a \in Seq(Int) /\ b \in Seq(Int)
        BY <1>1
      <4>3. a = b
        BY ONLY <3>4, <4>1, <4>2, SeqEqual
      <4> QED
        BY <4>3
    <3> QED
      BY <2>0, <3>2, <3>3, <3>4
  <2> QED
    BY <2>1, <2>2
<1> QED
  BY <1>2, <1>3, <1>4

\* A walk comes to each member, and to nothing else.
LEMMA MembersAre ==
  ASSUME NEW v, IsValue(v)
  PROVE  ToSet(Members(v, <<>>)) = KeysOf(v)
<1> DEFINE keys == KeysOf(v)
           before(k) == {l \in keys \ {k} : KeyLess(l, k)}
           n == Cardinality(keys)
           rank == [k \in keys |-> Cardinality(before(k))]
           ranked == [i \in 1 .. n |-> CHOOSE k \in keys : Cardinality(before(k)) = i - 1]
<1>1. IsFiniteSet(keys) /\ keys \subseteq Keys
  BY KeysFinite DEF KeysOf
<1>2. Members(v, <<>>) = ranked
  <2>1. Children(v, <<>>) = keys
    BY ChildrenAtRoot
  <2> HIDE DEF keys
  <2>2. Members(v, <<>>) =
            LET ks == Children(v, <<>>)
                bef(k) == {l \in ks \ {k} : KeyLess(l, k)}
            IN  [i \in 1 .. Cardinality(ks) |-> CHOOSE k \in ks : Cardinality(bef(k)) = i - 1]
    BY DEF Members
  <2> QED
    BY <2>1, <2>2, Zenon
<1> HIDE DEF keys
<1>3. n \in Nat /\ \A k \in keys : before(k) \subseteq keys /\ k \notin before(k)
  BY <1>1, FinitePart
<1>4. \A k \in keys : rank[k] = Cardinality(before(k)) /\ IsFiniteSet(before(k)) /\ rank[k] \in Nat
  BY <1>1, <1>3, FinitePart
<1>5. ASSUME NEW k \in keys
      PROVE  rank[k] < n
  <2>1. before(k) \in SUBSET keys /\ before(k) # keys
    BY <1>3
  <2> HIDE DEF before
  <2>2. Cardinality(before(k)) < n
    BY <1>1, <2>1, FiniteLess
  <2> QED
    BY <1>4, <2>2
<1>6. ASSUME NEW k \in keys, NEW l \in keys, KeyLess(k, l)
      PROVE  rank[k] < rank[l]
  <2>1. ASSUME NEW m \in before(k)
        PROVE  m \in before(l)
    <3>1. m \in keys /\ KeyLess(m, l) /\ ~KeyLess(l, l)
      BY <1>1, <1>6, KeysOrdered
    <3>2. m # l
      BY <3>1
    <3> QED
      BY <3>1, <3>2
  <2>2. k \in before(l)
    <3>1. ~KeyLess(l, l)
      BY <1>1, KeysOrdered
    <3>2. k # l
      BY <1>6, <3>1
    <3> QED
      BY <1>6, <3>2
  <2>3. before(k) \in SUBSET before(l) /\ before(k) # before(l) /\ IsFiniteSet(before(l))
    BY <1>3, <1>4, <2>1, <2>2
  <2> HIDE DEF before
  <2>4. Cardinality(before(k)) < Cardinality(before(l))
    BY <2>3, FiniteLess
  <2> QED
    BY <1>4, <2>4
<1>7. \A k, l \in keys : rank[k] = rank[l] => k = l
  <2>1. ASSUME NEW k \in keys, NEW l \in keys, k # l
        PROVE  rank[k] # rank[l]
    <3>1. KeyLess(k, l) \/ KeyLess(l, k)
      BY <1>1, <2>1, KeysOrdered
    <3>2. rank[k] < rank[l] \/ rank[l] < rank[k]
      BY <1>6, <3>1
    <3>3. rank[k] \in Nat /\ rank[l] \in Nat
      BY <1>4
    <3> HIDE DEF rank
    <3> QED
      BY <3>2, <3>3
  <2> QED
    BY <2>1
<1>8. rank \in [keys -> 0 .. n - 1]
  <2>2. rank = [k \in keys |-> rank[k]] /\ n \in Nat
    BY <1>3
  <2>3. \A k \in keys : rank[k] \in Nat /\ rank[k] < n
    BY <1>4, <1>5
  <2> HIDE DEF rank, n
  <2>1. \A k \in keys : rank[k] \in 0 .. n - 1
    BY <2>2, <2>3
  <2> QED
    BY <2>1, <2>2
<1>9. \A i \in 0 .. n - 1 : \E k \in keys : rank[k] = i
  <2> DEFINE m == n
  <2>1. m \in Nat /\ Cardinality(keys) = m /\ rank \in [keys -> 0 .. m - 1]
    BY <1>3, <1>8
  <2> HIDE DEF m, rank
  <2>2. \A i \in 0 .. m - 1 : \E k \in keys : rank[k] = i
    BY <1>1, <1>7, <2>1, AllBelow
  <2> QED
    BY <2>2 DEF m
<1>10. ASSUME NEW i \in 1 .. n
       PROVE  ranked[i] \in keys /\ rank[ranked[i]] = i - 1
  <2>1. i - 1 \in 0 .. n - 1
    BY <1>3
  <2>2. PICK k \in keys : rank[k] = i - 1
    BY <1>9, <2>1
  <2>3. \E x \in keys : Cardinality(before(x)) = i - 1
    BY <1>4, <2>2
  <2>4. ranked[i] = CHOOSE x \in keys : Cardinality(before(x)) = i - 1
    OBVIOUS
  <2> HIDE DEF ranked, rank, before
  <2> QED
    BY <1>4, <2>3, <2>4
<1>11. ASSUME NEW k \in keys
       PROVE  \E i \in 1 .. n : ranked[i] = k
  <2> DEFINE i == rank[k] + 1
  <2>1. i \in 1 .. n /\ i - 1 = rank[k]
    <3>1. rank[k] \in Nat /\ rank[k] < n /\ n \in Nat
      BY <1>3, <1>4, <1>5
    <3> HIDE DEF rank, n
    <3> QED
      BY <3>1
  <2> HIDE DEF i
  <2>2. ranked[i] \in keys /\ rank[ranked[i]] = rank[k]
    BY <1>10, <2>1
  <2> HIDE DEF ranked, rank
  <2>3. ranked[i] = k
    BY <1>7, <2>2
  <2> QED
    BY <2>1, <2>3
<1>12. DOMAIN ranked = 1 .. n
  OBVIOUS
<1> HIDE DEF ranked, rank, n
<1>13. ToSet(ranked) = keys
  BY <1>10, <1>11, <1>12 DEF ToSet
<1> QED
  BY <1>2, <1>13 DEF keys
-----------------------------------------------------------------------------
(***************************************************************************)
(* The content of a Value.                                                 *)
(***************************************************************************)
\* A function of the numbers from 1 on, as a sequence.
LEMMA LineIsSeq ==
  ASSUME NEW n \in Nat, NEW f, f = [i \in 1 .. n |-> f[i]], NEW S, \A i \in 1 .. n : f[i] \in S
  PROVE  f \in Seq(S) /\ Len(f) = n
<1>1. f \in [1 .. n -> S]
  OBVIOUS
<1>2. f \in Seq(S)
  BY <1>1
<1>3. Len(f) \in Nat /\ DOMAIN f = 1 .. Len(f) /\ DOMAIN f = 1 .. n
  BY <1>1, <1>2, LenProperties
<1>4. Len(f) = n
  BY <1>3
<1> QED
  BY <1>2, <1>4

\* A function of nothing is the empty sequence.
LEMMA NothingIsEmpty ==
  ASSUME NEW f, f = [x \in DOMAIN f |-> f[x]], DOMAIN f = {}
  PROVE  f = <<>>
<1>1. f = [i \in 1 .. 0 |-> f[i]]
  OBVIOUS
<1>2. f \in Seq(Nat) /\ Len(f) = 0
  BY <1>1, LineIsSeq
<1>3. <<>> \in Seq(Nat) /\ Len(<<>>) = 0
  BY EmptySeq
<1> DEFINE e == <<>>
<1>4. e \in Seq(Nat) /\ Len(e) = 0
  BY <1>3
<1> HIDE DEF e
<1>5. f = e
  BY ONLY <1>2, <1>4, SeqEqual
<1> QED
  BY <1>5 DEF e

\* The elements of an array in a line, the members of an object by their names.
Line(v) == [i \in 1 .. size(v, <<>>) |-> Nth(v, i - 1)]

Body(v) == [n \in KeysOf(v) |-> Child(v, n)]

\* An iterator collects the members of an object, each under its name.
LEMMA CollectedIs ==
  ASSUME NEW v, IsValue(v), v[<<>>].type = "object"
  PROVE  Collected(v) = Body(v)
<1> DEFINE keys == ToSet(Members(v, <<>>))
<1>1. keys = KeysOf(v)
  BY MembersAre
<1> HIDE DEF keys
<1>2. \A k \in keys : iteratorName(k) = k
  <2>1. \A k \in keys : IsKey("object", k)
    BY <1>1, ValueParts
  <2> QED
    BY <2>1, NameKeys DEF iteratorName
<1>3. {iteratorName(key) : key \in keys} = keys
  BY <1>2
<1>4. \A n \in keys : (CHOOSE key \in keys : iteratorName(key) = n) = n
  <2>1. ASSUME NEW n \in keys
        PROVE  (CHOOSE key \in keys : iteratorName(key) = n) = n
    <3>1. \E key \in keys : iteratorName(key) = n
      BY <1>2
    <3> DEFINE c == CHOOSE key \in keys : iteratorName(key) = n
    <3>2. c \in keys /\ iteratorName(c) = n
      BY <3>1
    <3> HIDE DEF c
    <3>3. c = n
      BY <1>2, <3>2
    <3> QED
      BY <3>3 DEF c
  <2> QED
    BY <2>1
<1>5. Collected(v) = [n \in {iteratorName(key) : key \in keys} |->
                          Child(v, CHOOSE key \in keys : iteratorName(key) = n)]
  BY DEF Collected, keys
<1>6. Collected(v) = [n \in keys |-> Child(v, CHOOSE key \in keys : iteratorName(key) = n)]
  BY <1>3, <1>5
<1>7. Collected(v) = [n \in keys |-> Child(v, n)]
  BY <1>4, <1>6
<1> QED
  BY <1>1, <1>7 DEF Body

\* The content by the type.
LEMMA ContentIs ==
  ASSUME NEW v, IsValue(v)
  PROVE  /\ v[<<>>].type = "array" => Content(v) = [kind |-> "array", of |-> Line(v)]
         /\ v[<<>>].type = "object" => Content(v) = [kind |-> "object", of |-> Body(v)]
         /\ v[<<>>].type = "null" => Content(v) = [kind |-> "null", of |-> <<>>]
         /\ v[<<>>].type \notin {"array", "object", "null"} => Content(v) = [kind |-> "scalar", of |-> <<>>]
<1>1. CASE v[<<>>].type = "array"
  <2> DEFINE f == [i \in 1 .. size(v, <<>>) |->
                       IF <<Index(i - 1)>> \in DOMAIN v THEN Child(v, Index(i - 1)) ELSE Leaf("null", <<>>)]
  <2>1. Content(v) = [kind |-> "array", of |-> f]
    BY <1>1 DEF Content
  <2>2. ASSUME NEW i \in 1 .. size(v, <<>>)
        PROVE  f[i] = Nth(v, i - 1)
    <3>1. size(v, <<>>) \in Nat
      BY <1>1, SizeOf
    <3>2. i - 1 \in Nat
      BY <3>1
    <3>3. Index(i - 1) \in Keys
      BY <3>2, IndexKeys
    <3>4. <<Index(i - 1)>> \in DOMAIN v <=> Index(i - 1) \in KeysOf(v)
      BY <3>3 DEF KeysOf
    <3> QED
      BY <3>4 DEF Nth, Empty
  <2> DEFINE g == Line(v)
  <2>3. /\ DOMAIN f = 1 .. size(v, <<>>) /\ f = [i \in DOMAIN f |-> f[i]]
        /\ DOMAIN g = 1 .. size(v, <<>>) /\ g = [i \in DOMAIN g |-> g[i]]
        /\ \A i \in 1 .. size(v, <<>>) : g[i] = Nth(v, i - 1)
    BY DEF Line
  <2> HIDE DEF f, g
  <2>4. f = [i \in DOMAIN f |-> f[i]] /\ g = [i \in DOMAIN g |-> g[i]] /\ DOMAIN f = DOMAIN g
    BY <2>3
  <2>5. \A i \in DOMAIN f : f[i] = g[i]
    BY <2>2, <2>3
  <2>6. f = g
    BY ONLY <2>4, <2>5, SameFunction
  <2> QED
    BY <1>1, <2>1, <2>6 DEF g
<1>2. CASE v[<<>>].type = "object"
  BY <1>2, CollectedIs DEF Content
<1>3. CASE v[<<>>].type = "null"
  BY <1>3 DEF Content
<1>4. CASE v[<<>>].type \notin {"array", "object", "null"}
  BY <1>4 DEF Content
<1> QED
  BY <1>1, <1>2, <1>3, <1>4

\* The elements that an array or a null has.
ItemsOf(v) == IF Content(v).kind = "array" THEN Content(v).of ELSE <<>>

LEMMA ItemsAre ==
  ASSUME NEW v, IsValue(v), May(v, "array")
  PROVE  /\ size(v, <<>>) \in Nat /\ Len(ItemsOf(v)) = size(v, <<>>)
         /\ \A i \in 1 .. size(v, <<>>) : ItemsOf(v)[i] = Nth(v, i - 1)
         /\ \A l \in Nat : l >= size(v, <<>>) => Nth(v, l) = Empty
         /\ \A S : (\A l \in Nat : Nth(v, l) \in S) => ItemsOf(v) \in Seq(S)
<1>1. CASE v[<<>>].type = "array"
  <2>1. ItemsOf(v) = Line(v)
    BY <1>1, ContentIs DEF ItemsOf
  <2>2. size(v, <<>>) \in Nat /\ \A l \in Nat : l >= size(v, <<>>) => Nth(v, l) = Empty
    BY <1>1, ArraySize DEF IsArray
  <2> DEFINE n == size(v, <<>>)
             f == Line(v)
  <2>3. f = [i \in 1 .. n |-> f[i]] /\ \A i \in 1 .. n : f[i] = Nth(v, i - 1)
    BY DEF Line
  <2> HIDE DEF f, n
  <2>4. n \in Nat
    BY <2>2 DEF n
  <2>5. ASSUME NEW S, \A l \in Nat : Nth(v, l) \in S
        PROVE  f \in Seq(S) /\ Len(f) = n
    <3>1. \A i \in 1 .. n : i - 1 \in Nat
      BY <2>4
    <3>2. \A i \in 1 .. n : f[i] \in S
      BY <2>3, <2>5, <3>1
    <3> QED
      BY <2>3, <2>4, <3>2, LineIsSeq
  <2>6. Len(f) = n
    <3> DEFINE S == {Nth(v, l) : l \in Nat}
    <3>1. \A l \in Nat : Nth(v, l) \in S
      OBVIOUS
    <3> HIDE DEF S
    <3> QED
      BY <2>5, <3>1
  <2> QED
    BY <2>1, <2>2, <2>3, <2>5, <2>6 DEF f, n
<1>2. CASE v[<<>>].type = "null"
  <2>1. ItemsOf(v) = <<>>
    BY <1>2, ContentIs DEF ItemsOf
  <2>2. size(v, <<>>) = 0 /\ KeysOf(v) = {}
    BY <1>2, SizeOfOther, NoKeys DEF Containers
  <2>3. \A l \in Nat : Nth(v, l) = Empty
    BY <2>2 DEF Nth
  <2>4. \A S : <<>> \in Seq(S) /\ Len(<<>>) = 0
    BY EmptySeq
  <2> QED
    BY <2>1, <2>2, <2>3, <2>4
<1> QED
  BY <1>1, <1>2 DEF May

\* An array, by its elements.
LEMMA ArrayContent ==
  ASSUME NEW w, IsArray(w), NEW n, size(w, <<>>) = n, NEW f, f = [i \in 1 .. n |-> f[i]],
         \A i \in 1 .. n : f[i] = Nth(w, i - 1)
  PROVE  Content(w) = Contents!List(f)
<1>1. Content(w) = [kind |-> "array", of |-> Line(w)]
  BY ContentIs DEF IsArray
<1>2. Line(w) = f
  BY DEF Line
<1> QED
  BY <1>1, <1>2 DEF Contents!List

\* The members that an object or a null has.
FieldOf(v) == IF Content(v).kind = "object" THEN Content(v).of ELSE <<>>

LEMMA FieldIs ==
  ASSUME NEW v, IsValue(v)
  PROVE  /\ May(v, "object") => DOMAIN FieldOf(v) = KeysOf(v)
         /\ v[<<>>].type # "object" => DOMAIN FieldOf(v) = {}
         /\ v[<<>>].type = "object" => DOMAIN FieldOf(v) = KeysOf(v)
         /\ \A n \in DOMAIN FieldOf(v) : FieldOf(v)[n] = Child(v, n)
<1>1. CASE v[<<>>].type = "object"
  BY <1>1, ContentIs DEF FieldOf, Body
<1>2. CASE v[<<>>].type # "object"
  <2>1. Content(v).kind # "object"
    BY <1>2, ContentIs
  <2>2. FieldOf(v) = <<>> /\ DOMAIN FieldOf(v) = {}
    BY <2>1 DEF FieldOf
  <2>3. May(v, "object") => KeysOf(v) = {}
    BY <1>2, NoKeys DEF May, Containers
  <2> QED
    BY <1>2, <2>2, <2>3
<1> QED
  BY <1>1, <1>2

LEMMA ObjectContent ==
  ASSUME NEW w, IsValue(w), w[<<>>].type = "object", NEW f, f = [n \in KeysOf(w) |-> f[n]],
         \A n \in KeysOf(w) : f[n] = Child(w, n)
  PROVE  Content(w) = Contents!Fields(f)
<1>1. Content(w) = [kind |-> "object", of |-> Body(w)]
  BY ContentIs
<1>2. Body(w) = f
  BY DEF Body
<1> QED
  BY <1>1, <1>2 DEF Contents!Fields

\* The size of an array depends on its keys.
LEMMA SameSize ==
  ASSUME NEW v, IsValue(v), NEW w, IsValue(w), v[<<>>].type = "array", w[<<>>].type = "array",
         KeysOf(w) = KeysOf(v)
  PROVE  size(w, <<>>) = size(v, <<>>)
<1> DEFINE n == size(v, <<>>)
<1>1. /\ n \in Nat /\ \A k \in KeysOf(v) : k[2] \in 0 .. n - 1
      /\ n > 0 => Index(n - 1) \in KeysOf(v)
  BY SizeOf
<1> HIDE DEF n
<1>2. (\A k \in KeysOf(w) : k[2] < n) /\ (n = 0 \/ Index(n - 1) \in KeysOf(w))
  BY <1>1
<1>3. size(w, <<>>) = n
  BY <1>1, <1>2, SizeIs
<1> QED
  BY <1>3 DEF n

\* What the content depends on.
LEMMA SameContent ==
  ASSUME NEW v, IsValue(v), NEW w, IsValue(w), w[<<>>].type = v[<<>>].type, KeysOf(w) = KeysOf(v),
         \A k \in KeysOf(v) : Child(w, k) = Child(v, k)
  PROVE  Content(w) = Content(v)
<1>1. CASE v[<<>>].type = "array"
  <2>1. size(w, <<>>) = size(v, <<>>)
    BY <1>1, SameSize
  <2>2. \A l : Nth(w, l) = Nth(v, l)
    BY DEF Nth
  <2>3. Line(w) = Line(v)
    BY <2>1, <2>2 DEF Line
  <2> QED
    BY <1>1, <2>3, ContentIs
<1>2. CASE v[<<>>].type = "object"
  <2>1. Body(w) = Body(v)
    BY DEF Body
  <2> QED
    BY <1>2, <2>1, ContentIs
<1>3. CASE v[<<>>].type = "null"
  BY <1>3, ContentIs
<1>4. CASE v[<<>>].type \notin {"array", "object", "null"}
  BY <1>4, ContentIs
<1> QED
  BY <1>1, <1>2, <1>3, <1>4
\* A call on an element changes nothing else of the content.
PlaceOf(key) == IF IsIndex(key) THEN key[2] + 1 ELSE key

LEMMA InsideElements ==
  ASSUME NEW v, IsValue(v), NEW p \in DOMAIN v, p # <<>>, NEW x, IsValue(x)
  PROVE  LET w == Put(v, p, x)
         IN  /\ IsValue(w) /\ w[<<>>] = v[<<>>] /\ KeysOf(w) = KeysOf(v)
             /\ \A k \in KeysOf(v) : k # p[1] => Child(w, k) = Child(v, k)
<1> DEFINE w == Put(v, p, x)
           root == <<>>
<1>1. /\ p \in Routes /\ root \in DOMAIN v /\ DOMAIN v \subseteq Routes /\ root \in Routes
      /\ root \in DOMAIN x /\ DOMAIN x \subseteq Routes
  BY ValueParts, EmptySeq DEF Routes
<1>2. IsValue(w)
  BY <1>1, PutIsValue DEF Fits
<1> HIDE DEF root
<1>3. /\ \A q \in Routes : p \o q \in DOMAIN w <=> q \in DOMAIN x
      /\ \A r \in Routes : ~IsPrefix(p, r) => (r \in DOMAIN w <=> r \in DOMAIN v)
      /\ \A r \in DOMAIN v : ~IsPrefix(p, r) => w[r] = v[r]
  BY <1>1, PutAt
<1>4. DOMAIN w \subseteq Routes
  BY <1>2, ValueParts
<1> HIDE DEF w
<1>5. ASSUME NEW r \in Routes, IsPrefix(p, r)
      PROVE  /\ r # root /\ r[1] = p[1]
             /\ (\E k \in Keys : r = <<k>>) => r \in DOMAIN w /\ r \in DOMAIN v
  <2>1. PICK q \in Routes : r = p \o q
    BY <1>1, <1>5, RouteBehind
  <2>2. /\ Len(p) \in Nat /\ Len(p) >= 1 /\ Len(q) \in Nat
        /\ p \in Seq(Keys) /\ q \in Seq(Keys)
    BY <1>1, LenProperties, EmptySeq DEF Routes
  <2>3. /\ Len(r) = Len(p) + Len(q)
        /\ \A i \in 1 .. Len(p) + Len(q) :
               r[i] = IF i <= Len(p) THEN p[i] ELSE q[i - Len(p)]
    BY <2>1, <2>2, ConcatProperties
  <2>4. r[1] = p[1] /\ Len(r) >= 1
    BY <2>2, <2>3
  <2>5. Len(root) = 0
    BY EmptySeq DEF root
  <2>6. ASSUME NEW k \in Keys, r = <<k>>
        PROVE  r \in DOMAIN w /\ r \in DOMAIN v
    <3>1. Len(r) = 1
      BY <2>6
    <3>2. Len(q) = 0
      <4>1. Len(p) \in Nat /\ Len(p) >= 1 /\ Len(q) \in Nat
        BY <2>2
      <4>2. Len(r) = Len(p) + Len(q)
        BY <2>3
      <4> QED
        BY ONLY <3>1, <4>1, <4>2
    <3>3. q = root
      <4>1. q = <<>>
        BY <2>2, <3>2, EmptySeq
      <4> QED
        BY <4>1 DEF root
    <3>4. p \o root = p
      BY <2>2, ConcatEmptySeq DEF root
    <3>5. r = p
      BY <2>1, <3>3, <3>4
    <3>6. p \o root \in DOMAIN w
      BY <1>1, <1>3
    <3> QED
      BY <3>4, <3>5, <3>6
  <2> QED
    BY <2>4, <2>5, <2>6
<1>6. w[root] = v[root]
  BY <1>1, <1>3, <1>5
<1>7. KeysOf(w) = KeysOf(v)
  <2>1. ASSUME NEW k \in Keys
        PROVE  <<k>> \in DOMAIN w <=> <<k>> \in DOMAIN v
    <3> DEFINE r == <<k>>
    <3>1. r \in Routes /\ \E l \in Keys : r = <<l>>
      BY LastOf DEF Routes
    <3> HIDE DEF r
    <3>2. r \in DOMAIN w <=> r \in DOMAIN v
      BY <1>3, <1>5, <3>1
    <3> QED
      BY <3>2 DEF r
  <2> QED
    BY <2>1 DEF KeysOf
<1>8. ASSUME NEW k \in KeysOf(v), k # p[1]
      PROVE  Child(w, k) = Child(v, k)
  <2>1. k \in Keys
    BY DEF KeysOf
  <2>2. ASSUME NEW r \in Routes, r # <<>>, r[1] = k
        PROVE  (r \in DOMAIN w <=> r \in DOMAIN v) /\ (r \in DOMAIN w => w[r] = v[r])
    <3>1. ~IsPrefix(p, r)
      BY <1>5, <1>8, <2>2
    <3> QED
      BY <1>3, <3>1
  <2> QED
    BY <1>1, <1>4, <2>1, <2>2, SameChild
<1> QED
  BY <1>2, <1>6, <1>7, <1>8 DEF w, root

LEMMA InsideContent ==
  ASSUME NEW v, IsValue(v), NEW p \in DOMAIN v, p # <<>>, NEW x, IsValue(x)
  PROVE  LET c == Content(v)
             d == Content(Put(v, p, x))
         IN  /\ d.kind = c.kind /\ DOMAIN d.of = DOMAIN c.of
             /\ \A k \in DOMAIN c.of : k # PlaceOf(p[1]) => d.of[k] = c.of[k]
<1> DEFINE w == Put(v, p, x)
<1>1. /\ IsValue(w) /\ w[<<>>] = v[<<>>] /\ KeysOf(w) = KeysOf(v)
      /\ \A k \in KeysOf(v) : k # p[1] => Child(w, k) = Child(v, k)
  BY InsideElements
<1>2. p[1] \in KeysOf(v) /\ IsKey(v[<<>>].type, p[1])
  BY ValueParts
<1> HIDE DEF w
<1>3. CASE v[<<>>].type = "array"
  <2>1. Content(v) = [kind |-> "array", of |-> Line(v)] /\ Content(w) = [kind |-> "array", of |-> Line(w)]
    BY <1>1, <1>3, ContentIs
  <2>2. size(w, <<>>) = size(v, <<>>) /\ size(v, <<>>) \in Nat
    BY <1>1, <1>3, SameSize, SizeOf
  <2>3. ASSUME NEW k \in 1 .. size(v, <<>>), k # PlaceOf(p[1])
        PROVE  Nth(w, k - 1) = Nth(v, k - 1)
    <3>1. p[1][2] \in Nat /\ p[1] = Index(p[1][2]) /\ IsIndex(p[1]) /\ k - 1 \in Nat
      BY <1>2, <1>3, <2>2, IndexKeys
    <3>2. k # p[1][2] + 1
      BY <2>3, <3>1 DEF PlaceOf
    <3>3. k - 1 # p[1][2]
      BY <2>2, <3>1, <3>2
    <3>4. Index(k - 1) # p[1]
      BY <3>1, <3>3, OtherIndex
    <3> QED
      BY <1>1, <3>4 DEF Nth
  <2>4. /\ DOMAIN Line(w) = DOMAIN Line(v) /\ DOMAIN Line(v) = 1 .. size(v, <<>>)
        /\ \A k \in 1 .. size(v, <<>>) : Line(v)[k] = Nth(v, k - 1) /\ Line(w)[k] = Nth(w, k - 1)
    BY <2>2 DEF Line
  <2> QED
    BY <2>1, <2>3, <2>4 DEF w
<1>4. CASE v[<<>>].type = "object"
  <2>1. Content(v) = [kind |-> "object", of |-> Body(v)] /\ Content(w) = [kind |-> "object", of |-> Body(w)]
    BY <1>1, <1>4, ContentIs
  <2>2. p[1] = PlaceOf(p[1])
    BY <1>2, <1>4, NameKeys DEF PlaceOf
  <2> QED
    BY <1>1, <2>1, <2>2 DEF w, Body
<1>5. CASE v[<<>>].type \notin {"array", "object"}
  BY <1>2, <1>5 DEF IsKey
<1> QED
  BY <1>3, <1>4, <1>5
-----------------------------------------------------------------------------
(***************************************************************************)
(* What the calls do to the content.                                       *)
(***************************************************************************)
LEMMA AppendContent ==
  ASSUME NEW v, IsValue(v), May(v, "array"), NEW x, IsValue(x)
  PROVE  Content(append(v, x)) = Contents!List(Append(ItemsOf(v), x))
<1> DEFINE w == append(v, x)
           n == size(v, <<>>)
           s == ItemsOf(v)
           S == {Nth(v, l) : l \in Nat} \cup {x}
           f == Append(s, x)
<1>1. /\ IsArray(w) /\ size(w, <<>>) = n + 1
      /\ \A i \in Nat : Nth(w, i) = IF i = n THEN x ELSE Nth(v, i)
  BY AppendNth
<1>2. /\ n \in Nat /\ Len(s) = n
      /\ \A i \in 1 .. n : s[i] = Nth(v, i - 1)
  BY ItemsAre
<1>3. s \in Seq(S) /\ x \in S
  <2>1. (\A l \in Nat : Nth(v, l) \in S) /\ x \in S
    OBVIOUS
  <2> HIDE DEF S
  <2> QED
    BY <2>1, ItemsAre
<1> HIDE DEF w, n, s, S
<1>4. /\ f \in Seq(S) /\ Len(f) = n + 1 /\ \A i \in 1 .. n : f[i] = s[i]
      /\ f[n + 1] = x
  BY <1>2, <1>3, AppendProperties
<1>5. f = [i \in 1 .. n + 1 |-> f[i]]
  <2>1. DOMAIN f = 1 .. Len(f) /\ f \in [1 .. Len(f) -> S]
    BY <1>4, LenProperties
  <2> HIDE DEF f
  <2>2. f = [i \in DOMAIN f |-> f[i]]
    BY <2>1
  <2> QED
    BY <1>4, <2>1, <2>2
<1> HIDE DEF f
<1>6. ASSUME NEW i \in 1 .. n + 1
      PROVE  f[i] = Nth(w, i - 1)
  <2>1. i - 1 \in Nat
    BY <1>2
  <2>2. CASE i = n + 1
    <3>1. i - 1 = n
      BY <1>2, <2>2
    <3> QED
      BY <1>1, <1>4, <2>1, <2>2, <3>1
  <2>3. CASE i # n + 1
    <3>1. i \in 1 .. n /\ i - 1 # n
      BY <1>2, <2>3
    <3> QED
      BY <1>1, <1>2, <1>4, <2>1, <3>1
  <2> QED
    BY <2>2, <2>3
<1>7. Content(w) = Contents!List(f)
  BY <1>1, <1>5, <1>6, ArrayContent
<1> QED
  BY <1>7 DEF w, f, s

LEMMA InsertContent ==
  ASSUME NEW v, IsValue(v), May(v, "array"), NEW x, IsValue(x), NEW index \in 0 .. size(v, <<>>)
  PROVE  Content(insert(v, index, x)) = Contents!List(Contents!Inserted(ItemsOf(v), index + 1, x))
<1> DEFINE w == insert(v, index, x)
           n == size(v, <<>>)
           s == ItemsOf(v)
           f == Contents!Inserted(s, index + 1, x)
<1>1. /\ IsArray(w) /\ size(w, <<>>) = n + 1
      /\ \A i \in Nat :
             Nth(w, i) = IF i < index THEN Nth(v, i) ELSE IF i = index THEN x ELSE Nth(v, i - 1)
  BY InsertNth
<1>2. n \in Nat /\ Len(s) = n /\ \A i \in 1 .. n : s[i] = Nth(v, i - 1)
  BY ItemsAre
<1>3. index \in Nat /\ index <= n
  BY <1>2
<1>4. f = [j \in 1 .. Len(s) + 1 |->
               IF j < index + 1 THEN s[j] ELSE IF j = index + 1 THEN x ELSE s[j - 1]]
  BY DEF Contents!Inserted
<1> HIDE DEF w, n, s, f
<1>5. f = [i \in 1 .. n + 1 |-> f[i]]
  BY <1>2, <1>4
<1>6. ASSUME NEW i \in 1 .. n + 1
      PROVE  f[i] = Nth(w, i - 1)
  <2>1. i - 1 \in Nat /\ i \in Nat
    BY <1>2
  <2>2. f[i] = IF i < index + 1 THEN s[i] ELSE IF i = index + 1 THEN x ELSE s[i - 1]
    BY <1>2, <1>4
  <2>3. CASE i < index + 1
    <3>1. i \in 1 .. n /\ i - 1 < index
      BY <1>2, <1>3, <2>3
    <3> QED
      BY <1>1, <1>2, <2>1, <2>2, <2>3, <3>1
  <2>4. CASE i = index + 1
    <3>1. i - 1 = index /\ ~ (i - 1 < index) /\ ~ (i < index + 1)
      BY <1>3, <2>4
    <3> QED
      BY <1>1, <2>1, <2>2, <2>4, <3>1
  <2>5. CASE i > index + 1
    <3>1. /\ i - 1 \in 1 .. n /\ ~ (i - 1 < index) /\ i - 1 # index
          /\ ~ (i < index + 1) /\ i # index + 1
      BY <1>2, <1>3, <2>5
    <3>2. f[i] = s[i - 1]
      BY <2>2, <3>1
    <3>3. s[i - 1] = Nth(v, (i - 1) - 1)
      BY <1>2, <3>1
    <3> QED
      BY <1>1, <2>1, <3>1, <3>2, <3>3
  <2> QED
    BY <1>3, <2>1, <2>3, <2>4, <2>5
<1> DEFINE m == n + 1
<1>7. /\ IsArray(w) /\ size(w, <<>>) = m /\ f = [i \in 1 .. m |-> f[i]]
      /\ \A i \in 1 .. m : f[i] = Nth(w, i - 1)
  BY <1>1, <1>5, <1>6
<1> HIDE DEF m
<1>8. Content(w) = Contents!List(f)
  BY ONLY <1>7, ArrayContent
<1> QED
  BY <1>8 DEF w, f, s

LEMMA RemoveContent ==
  ASSUME NEW v, IsArray(v), NEW index \in 0 .. size(v, <<>>) - 1,
         Cardinality(KeysOf(v)) = size(v, <<>>)
  PROVE  /\ Content(removeIndex(v, index)) = Contents!List(Contents!Removed(ItemsOf(v), index + 1))
         /\ ItemsOf(v)[index + 1] = Child(v, Index(index))
<1> DEFINE w == removeIndex(v, index)
           n == size(v, <<>>)
           s == ItemsOf(v)
           f == Contents!Removed(s, index + 1)
<1>1. n \in Nat /\ Len(s) = n /\ \A i \in 1 .. n : s[i] = Nth(v, i - 1)
  BY ItemsAre DEF IsArray, May
<1>2. \A i \in 0 .. n - 1 : Index(i) \in KeysOf(v)
  BY DenseKeys
<1>3. index \in Nat /\ index < n /\ Index(index) \in KeysOf(v)
  BY <1>1, <1>2
<1>4. /\ IsArray(w) /\ size(w, <<>>) = n - 1
      /\ \A i \in Nat : Nth(w, i) = IF i < index THEN Nth(v, i) ELSE Nth(v, i + 1)
  BY <1>2, <1>3, RemoveNth
<1>5. f = [j \in 1 .. Len(s) - 1 |-> s[IF j < index + 1 THEN j ELSE j + 1]]
  BY DEF Contents!Removed
<1> HIDE DEF w, n, s, f
<1>6. f = [i \in 1 .. n - 1 |-> f[i]]
  BY <1>1, <1>5
<1>7. ASSUME NEW i \in 1 .. n - 1
      PROVE  f[i] = Nth(w, i - 1)
  <2>1. i - 1 \in Nat /\ i \in 1 .. n /\ i + 1 \in 1 .. n /\ (i + 1) - 1 = i /\ (i - 1) + 1 = i
    BY <1>1
  <2>2. f[i] = s[IF i < index + 1 THEN i ELSE i + 1]
    BY <1>1, <1>5
  <2>3. CASE i < index + 1
    <3>1. i - 1 < index
      BY <1>3, <2>1, <2>3
    <3> QED
      BY <1>1, <1>4, <2>1, <2>2, <2>3, <3>1
  <2>4. CASE ~ (i < index + 1)
    <3>1. ~ (i - 1 < index)
      BY <1>3, <2>1, <2>4
    <3>2. s[i + 1] = Nth(v, i)
      BY <1>1, <2>1
    <3>3. Nth(w, i - 1) = Nth(v, i)
      BY <1>4, <2>1, <3>1
    <3> QED
      BY <2>2, <2>4, <3>2, <3>3
  <2> QED
    BY <2>3, <2>4
<1>8. Content(w) = Contents!List(f)
  BY <1>4, <1>6, <1>7, ArrayContent
<1>9. s[index + 1] = Child(v, Index(index))
  <2>1. index + 1 \in 1 .. n /\ (index + 1) - 1 = index
    BY <1>1, <1>3
  <2>2. s[index + 1] = Nth(v, index)
    BY <1>1, <2>1
  <2> QED
    BY <1>3, <2>2 DEF Nth
<1> QED
  BY <1>8, <1>9 DEF w, f, s

LEMMA ResizeContent ==
  ASSUME NEW v, IsValue(v), May(v, "array"), NEW n \in Nat, n = 0 \/ size(resize(v, n), <<>>) = n
  PROVE  Content(resize(v, n)) = Contents!List(Contents!Padded(ItemsOf(v), n))
<1> DEFINE w == resize(v, n)
           s == ItemsOf(v)
           f == Contents!Padded(s, n)
           old == size(v, <<>>)
<1>1. /\ IsArray(w) /\ size(w, <<>>) = n
      /\ \A i \in Nat : Nth(w, i) = IF i < n THEN Nth(v, i) ELSE Empty
  BY ResizeNth
<1>2. /\ old \in Nat /\ Len(s) = old
      /\ \A i \in 1 .. old : s[i] = Nth(v, i - 1)
      /\ \A l \in Nat : l >= old => Nth(v, l) = Empty
  BY ItemsAre
<1>3. f = [i \in 1 .. n |-> IF i <= Len(s) THEN s[i] ELSE Empty]
  BY DEF Contents!Padded, Empty
<1> HIDE DEF w, s, f, old
<1>4. f = [i \in 1 .. n |-> f[i]]
  BY <1>3
<1>5. ASSUME NEW i \in 1 .. n
      PROVE  f[i] = Nth(w, i - 1)
  <2>1. i - 1 \in Nat /\ i - 1 < n
    OBVIOUS
  <2>2. f[i] = IF i <= old THEN s[i] ELSE Empty
    BY <1>2, <1>3
  <2>3. Nth(w, i - 1) = Nth(v, i - 1)
    BY <1>1, <2>1
  <2>4. CASE i <= old
    <3>1. i \in 1 .. old
      BY <1>2, <2>4
    <3> QED
      BY <1>2, <2>2, <2>3, <2>4, <3>1
  <2>5. CASE ~ (i <= old)
    <3>1. i - 1 >= old
      BY <1>2, <2>1, <2>5
    <3> QED
      BY <1>2, <2>1, <2>2, <2>3, <2>5, <3>1
  <2> QED
    BY <2>4, <2>5
<1>6. Content(w) = Contents!List(f)
  BY <1>1, <1>4, <1>5, ArrayContent
<1> QED
  BY <1>6 DEF w, f, s

LEMMA IndexContent ==
  ASSUME NEW v, IsValue(v), May(v, "array"), NEW index \in Nat
  PROVE  Content(Subscript(As(v, "array"), Index(index))) =
             Contents!List(IF index < Len(ItemsOf(v)) THEN ItemsOf(v)
                           ELSE Contents!Padded(ItemsOf(v), index + 1))
<1> DEFINE a == As(v, "array")
           w == Subscript(a, Index(index))
           s == ItemsOf(v)
           old == size(v, <<>>)
           n == IF index < old THEN old ELSE index + 1
           f == IF index < Len(s) THEN s ELSE Contents!Padded(s, index + 1)
<1>1. IsArray(a) /\ size(a, <<>>) = old /\ \A i : Nth(a, i) = Nth(v, i)
  BY AsArray
<1>2. /\ old \in Nat /\ Len(s) = old
      /\ \A i \in 1 .. old : s[i] = Nth(v, i - 1)
      /\ \A l \in Nat : l >= old => Nth(v, l) = Empty
  BY ItemsAre
<1>3. n \in Nat
  BY <1>2
<1> HIDE DEF a
<1>4. /\ IsArray(w) /\ KeysOf(w) = KeysOf(a) \cup {Index(index)}
      /\ \A l \in Nat : Nth(w, l) = Nth(v, l)
  BY <1>1, SubscriptNth
<1>5. size(w, <<>>) = n
  <2>1. /\ \A k \in KeysOf(a) : k[2] \in 0 .. old - 1
        /\ old > 0 => Index(old - 1) \in KeysOf(a)
    BY <1>1, SizeOf DEF IsArray
  <2>2. Index(index)[2] = index
    BY IndexKeys
  <2> DEFINE key == Index(index)
  <2> HIDE DEF w, key
  <2>3. \A k \in KeysOf(w) : k[2] < n
    <3>1. \A k \in KeysOf(a) : k[2] < n
      BY <1>2, <2>1
    <3>2. key[2] < n
      BY <1>2, <2>2 DEF key
    <3> QED
      BY <1>4, <3>1, <3>2 DEF key
  <2>4. n = 0 \/ Index(n - 1) \in KeysOf(w)
    <3>1. CASE index < old
      BY <1>2, <1>4, <2>1, <3>1
    <3>2. CASE ~ (index < old)
      <4>1. n - 1 = index
        BY <1>2, <3>2
      <4> QED
        BY <1>4, <4>1
    <3> QED
      BY <3>1, <3>2
  <2> HIDE DEF n
  <2> QED
    BY <1>3, <1>4, <2>3, <2>4, SizeIs DEF IsArray
<1>6. \A S : (\A l \in Nat : Nth(v, l) \in S) => s \in Seq(S)
  BY ItemsAre
<1> HIDE DEF w, s, old
<1>7. CASE index < old
  <2>1. f = s /\ n = old
    BY <1>2, <1>7
  <2>2. s = [i \in 1 .. old |-> s[i]]
    <3> DEFINE S == {Nth(v, l) : l \in Nat}
    <3>1. \A l \in Nat : Nth(v, l) \in S
      OBVIOUS
    <3> HIDE DEF S
    <3>2. s \in Seq(S)
      BY <1>6, <3>1
    <3>3. s \in [1 .. Len(s) -> S]
      BY <3>2, LenProperties
    <3> QED
      BY <1>2, <3>3
  <2>3. ASSUME NEW i \in 1 .. old
        PROVE  s[i] = Nth(w, i - 1)
    BY <1>2, <1>4
  <2>4. size(w, <<>>) = old
    BY <1>5, <2>1
  <2>5. IsArray(w)
    BY <1>4
  <2>6. Content(w) = Contents!List(s)
    BY ONLY <2>2, <2>3, <2>4, <2>5, ArrayContent
  <2> QED
    BY <2>1, <2>6 DEF w, a, s
<1>8. CASE ~ (index < old)
  <2> DEFINE g == Contents!Padded(s, index + 1)
  <2>1. f = g /\ size(w, <<>>) = index + 1
    BY <1>2, <1>5, <1>8
  <2>2. g = [i \in 1 .. index + 1 |-> IF i <= Len(s) THEN s[i] ELSE Empty]
    BY DEF Contents!Padded, Empty
  <2> HIDE DEF g
  <2>3. g = [i \in 1 .. index + 1 |-> g[i]]
    BY <2>2
  <2>4. ASSUME NEW i \in 1 .. index + 1
        PROVE  g[i] = Nth(w, i - 1)
    <3>1. g[i] = (IF i <= old THEN s[i] ELSE Empty) /\ i - 1 \in Nat
      BY <1>2, <2>2
    <3>2. Nth(w, i - 1) = Nth(v, i - 1)
      BY <1>4, <3>1
    <3>3. CASE i <= old
      <4>1. i \in 1 .. old
        BY <1>2, <3>3
      <4> QED
        BY <1>2, <3>1, <3>2, <3>3, <4>1
    <3>4. CASE ~ (i <= old)
      <4>1. i - 1 >= old
        BY <1>2, <3>1, <3>4
      <4> QED
        BY <1>2, <3>1, <3>2, <3>4, <4>1
    <3> QED
      BY <3>3, <3>4
  <2>5. Content(w) = Contents!List(g)
    BY <1>4, <2>1, <2>3, <2>4, ArrayContent
  <2> QED
    BY <2>1, <2>5 DEF w, a, s, g
<1> QED
  BY <1>7, <1>8
LEMMA NameContent ==
  ASSUME NEW v, IsValue(v), May(v, "object"), NEW n \in Seq(Nat)
  PROVE  Content(Subscript(As(v, "object"), n)) =
             Contents!Fields([m \in DOMAIN FieldOf(v) \cup {n} |->
                                  IF m \in DOMAIN FieldOf(v) THEN FieldOf(v)[m] ELSE Empty])
<1> DEFINE a == As(v, "object")
           w == Subscript(a, n)
           members == FieldOf(v)
           f == [m \in DOMAIN members \cup {n} |-> IF m \in DOMAIN members THEN members[m] ELSE Empty]
<1>1. /\ IsValue(a) /\ a[<<>>].type = "object" /\ KeysOf(a) = KeysOf(v)
      /\ \A k \in KeysOf(v) : Child(a, k) = Child(v, k)
  BY AsContainer DEF Containers
<1>2. IsKey("object", n) /\ n \in Keys
  BY NameKeys DEF IsKey
<1> HIDE DEF a
<1>3. /\ IsValue(w) /\ w[<<>>] = a[<<>>] /\ KeysOf(w) = KeysOf(a) \cup {n}
      /\ Child(w, n) = IF n \in KeysOf(a) THEN Child(a, n) ELSE Empty
      /\ \A l \in KeysOf(a) : l # n => Child(w, l) = Child(a, l)
  BY <1>1, <1>2, SubscriptElements
<1>4. DOMAIN members = KeysOf(v) /\ \A m \in KeysOf(v) : members[m] = Child(v, m)
  BY FieldIs
<1>5. f = [m \in KeysOf(v) \cup {n} |-> IF m \in KeysOf(v) THEN members[m] ELSE Empty]
  BY <1>4
<1> HIDE DEF w, f, members
<1>6. f = [m \in KeysOf(w) |-> f[m]]
  BY <1>1, <1>3, <1>5
<1>7. ASSUME NEW m \in KeysOf(w)
      PROVE  f[m] = Child(w, m)
  <2>1. f[m] = IF m \in KeysOf(v) THEN members[m] ELSE Empty
    BY <1>1, <1>3, <1>5
  <2>2. CASE m = n
    BY <1>1, <1>3, <1>4, <2>1, <2>2
  <2>3. CASE m # n
    BY <1>1, <1>3, <1>4, <2>1, <2>3
  <2> QED
    BY <2>2, <2>3
<1>8. Content(w) = Contents!Fields(f)
  BY <1>1, <1>3, <1>6, <1>7, ObjectContent
<1> QED
  BY <1>8 DEF w, a, f, members

LEMMA EraseContent ==
  ASSUME NEW v, IsValue(v), NEW n
  PROVE  /\ n \in DOMAIN FieldOf(v) =>
                Content(Erase(v, {n})) = Contents!Fields(Contents!Without(FieldOf(v), n))
         /\ May(v, "object") /\ n \notin DOMAIN FieldOf(v) => Content(Erase(v, {n})) = Content(v)
<1> DEFINE w == Erase(v, {n})
           members == FieldOf(v)
           f == Contents!Without(members, n)
<1>1. /\ IsValue(w) /\ w[<<>>] = v[<<>>] /\ KeysOf(w) = KeysOf(v) \ {n}
      /\ \A l \in KeysOf(v) \ {n} : Child(w, l) = Child(v, l)
  BY EraseElements
<1>2. /\ May(v, "object") => DOMAIN members = KeysOf(v)
      /\ v[<<>>].type # "object" => DOMAIN members = {}
      /\ v[<<>>].type = "object" => DOMAIN members = KeysOf(v)
      /\ \A m \in DOMAIN members : members[m] = Child(v, m)
  BY FieldIs
<1>3. f = [m \in DOMAIN members \ {n} |-> members[m]]
  BY DEF Contents!Without
<1> HIDE DEF w, members, f
<1>4. ASSUME n \in DOMAIN members
      PROVE  Content(w) = Contents!Fields(f)
  <2>1. v[<<>>].type = "object" /\ DOMAIN members = KeysOf(v)
    BY <1>2, <1>4
  <2>2. f = [m \in KeysOf(w) |-> f[m]] /\ \A m \in KeysOf(w) : f[m] = Child(w, m)
    BY <1>1, <1>2, <1>3, <2>1
  <2> QED
    BY <1>1, <2>1, <2>2, ObjectContent
<1>5. ASSUME May(v, "object"), n \notin DOMAIN members
      PROVE  Content(w) = Content(v)
  <2>1. KeysOf(w) = KeysOf(v) /\ \A k \in KeysOf(v) : Child(w, k) = Child(v, k)
    BY <1>1, <1>2, <1>5
  <2> QED
    BY <1>1, <2>1, SameContent
<1> QED
  BY <1>4, <1>5 DEF w, members, f

LEMMA ClearContent ==
  ASSUME NEW v, IsValue(v), v[<<>>].type \in Containers \cup {"null"}
  PROVE  Content(clear(v)) = [Content(v) EXCEPT !.of = <<>>]
<1> DEFINE w == clear(v)
<1>1. IsValue(w) /\ KeysOf(w) = {} /\ w[<<>>].type = v[<<>>].type
  BY ClearElements
<1> HIDE DEF w
<1>2. CASE v[<<>>].type = "array"
  <2>1. size(w, <<>>) = 0
    BY <1>1, <1>2, SizeIs
  <2> DEFINE f == Line(w)
  <2>2. f = [x \in DOMAIN f |-> f[x]] /\ DOMAIN f = {}
    BY <2>1 DEF Line
  <2> HIDE DEF f
  <2>3. f = <<>>
    BY <2>2, NothingIsEmpty
  <2>4. Content(w) = [kind |-> "array", of |-> <<>>]
    BY <1>1, <1>2, <2>3, ContentIs DEF f
  <2> QED
    BY <1>2, <2>4, ContentIs DEF w
<1>3. CASE v[<<>>].type = "object"
  <2> DEFINE f == Body(w)
  <2>1. f = [x \in DOMAIN f |-> f[x]] /\ DOMAIN f = {}
    BY <1>1 DEF Body
  <2> HIDE DEF f
  <2>2. f = <<>>
    BY <2>1, NothingIsEmpty
  <2>3. Content(w) = [kind |-> "object", of |-> <<>>]
    BY <1>1, <1>3, <2>2, ContentIs DEF f
  <2> QED
    BY <1>3, <2>3, ContentIs DEF w
<1>4. CASE v[<<>>].type = "null"
  <2>1. Content(w) = [kind |-> "null", of |-> <<>>] /\ Content(v) = [kind |-> "null", of |-> <<>>]
    BY <1>1, <1>4, ContentIs
  <2> QED
    BY <2>1 DEF w
<1> QED
  BY <1>2, <1>3, <1>4 DEF Containers

-----------------------------------------------------------------------------
(***************************************************************************)
(* The calls implement what a container promises.                          *)
(***************************************************************************)
\* What is exempt: an array with a hole is not moved together and not resized.
Promised == Contents!Next \/ (call'.op \in {"removeIndex", "resize"} /\ ~Dense)

\* A call that throws, or leaves the Value as it was with nothing to return.
LEMMA ThrowsPromised ==
  ASSUME "ok" \in DOMAIN call', ~call'.ok, value' = value
  PROVE  Promised
<1>1. Content(value)' = Content(value)
  BY DEF Content
<1>2. Abstracted'.ok = call'.ok
  BY DEF Abstracted
<1> QED
  BY <1>1, <1>2 DEF Promised, Contents!Next

\* A call on an element.
LEMMA InsidePromised ==
  ASSUME IsValue(value), NEW p \in DOMAIN value, p # <<>>, NEW x, IsValue(x), value' = Put(value, p, x),
         NEW op, NEW index, NEW name, NEW result, Called(op, p, index, name, TRUE, result)
  PROVE  Promised
<1> DEFINE c == Content(value)
           d == Content(Put(value, p, x))
<1>1. /\ d.kind = c.kind /\ DOMAIN d.of = DOMAIN c.of
      /\ \A k \in DOMAIN c.of : k # PlaceOf(p[1]) => d.of[k] = c.of[k]
  BY InsideContent
<1>2. Content(value)' = d
  <2>1. Content(value)' = Content(value')
    OBVIOUS
  <2> QED
    BY <2>1
<1>3. call' = [op |-> op, at |-> p, index |-> index, name |-> name, arg |-> other,
               ok |-> TRUE, result |-> result]
  BY DEF Called
<1>4. Abstracted' = [call' EXCEPT !.op = "inside", !.index = Place'] /\ Place' = PlaceOf(p[1])
  BY <1>3 DEF Abstracted, Place, PlaceOf
<1> HIDE DEF c, d
<1>5. Abstracted'.op = "inside" /\ Abstracted'.index = PlaceOf(p[1]) /\ Abstracted'.ok
  BY <1>3, <1>4
<1>6. Contents!Effect
  BY <1>1, <1>2, <1>5 DEF Contents!Effect, c
<1> QED
  BY <1>5, <1>6 DEF Promised, Contents!Next
\* A call on the whole Value, as the container sees it.
LEMMA WholePromised ==
  ASSUME call'.at = <<>>, call'.ok
  PROVE  /\ Abstracted' = call'
         /\ Contents!Effect => Promised
         /\ Contents!Items = ItemsOf(value) /\ Contents!Field = FieldOf(value)
         /\ Content(value)' = Content(value')
<1>1. Abstracted' = call'
  BY DEF Abstracted
<1>2. Contents!Effect => Promised
  BY <1>1 DEF Promised, Contents!Next
<1>3. Contents!Items = ItemsOf(value) /\ Contents!Field = FieldOf(value)
  BY DEF Contents!Items, Contents!Field, ItemsOf, FieldOf
<1> QED
  BY <1>1, <1>2, <1>3

\* The call is made: on an element, on the whole Value, or it throws.
LEMMA AttemptPromised ==
  ASSUME IsValue(value), NEW p \in DOMAIN value, NEW op, NEW index, NEW name, NEW may, NEW v, NEW result,
         may \in BOOLEAN, may => IsValue(v), Attempt(op, p, index, name, may, v, result),
         p = <<>> /\ may /\ value' = v /\ call'.at = <<>> /\ call'.ok /\ call'.op = op
           /\ call'.index = index /\ call'.name = name /\ call'.arg = other /\ call'.result = result
         => Promised
  PROVE  Promised
<1>1. CASE ~may
  <2>1. "ok" \in DOMAIN call' /\ call'.ok = may /\ value' = value
    BY <1>1 DEF Attempt, Called
  <2> QED
    BY <1>1, <2>1, ThrowsPromised
<1>2. CASE may
  <2>1. value' = Put(value, p, v) /\ IsValue(v)
    BY <1>2 DEF Attempt
  <2>2. Called(op, p, index, name, TRUE, result)
    BY <1>2 DEF Attempt, Called
  <2>3. CASE p # <<>>
    BY <2>1, <2>2, <2>3, InsidePromised
  <2>4. CASE p = <<>>
    <3>1. value' = v
      BY <2>1, <2>4, PutAtRoot
    <3>2. /\ call'.at = <<>> /\ call'.ok /\ call'.op = op /\ call'.index = index
          /\ call'.name = name /\ call'.arg = other /\ call'.result = result
      BY <2>2, <2>4 DEF Called
    <3> QED
      BY <1>2, <2>4, <3>1, <3>2
  <2> QED
    BY <2>3, <2>4
<1> QED
  BY <1>1, <1>2

\* The calls that put something into an array.
LEMMA GrowingPromised ==
  ASSUME ValueInv, JsonValueAssumption, NEW p \in DOMAIN value,
         \/ CallAppend(p)
         \/ \E i \in Indices : CallInsert(p, i) \/ CallIndex(p, i)
  PROVE  Promised
<1>1. IsValue(At(p)) /\ IsValue(other) /\ IsValue(value)
  BY SubtreeIsValue DEF ValueInv, At
<1>2. p = <<>> => At(p) = value
  BY <1>1, SubtreeAtRoot DEF At
<1>3. size(value, p) = size(At(p), <<>>)
  BY <1>1, SizeBelow DEF At
<1>4. CASE CallAppend(p)
  <2> DEFINE v == append(At(p), other)
             may == May(At(p), "array")
  <2>1. Attempt("append", p, 0, <<>>, may, v, {})
    BY <1>4 DEF CallAppend
  <2>2. may => IsValue(v)
    BY <1>1, AppendNth DEF IsArray
  <2>3. ASSUME p = <<>>, may, value' = v, call'.at = <<>>, call'.ok, call'.op = "append",
                 call'.index = 0, call'.arg = other, call'.result = {}
        PROVE  Promised
    <3>1. Content(v) = Contents!List(Append(ItemsOf(value), other))
      BY <1>1, <1>2, <2>3, AppendContent
    <3>2. /\ Abstracted' = call' /\ (Contents!Effect => Promised)
          /\ Contents!Items = ItemsOf(value) /\ Content(value)' = Content(value')
      BY <2>3, WholePromised
    <3> HIDE DEF v, may
    <3>3. Contents!Effect
      BY <2>3, <3>1, <3>2 DEF Contents!Effect
    <3> QED
      BY <3>2, <3>3
  <2>4. may \in BOOLEAN
    BY DEF May
  <2> HIDE DEF v, may
  <2> QED
    BY <1>1, <2>1, <2>2, <2>3, <2>4, AttemptPromised
<1>5. ASSUME NEW i \in Indices, CallInsert(p, i)
      PROVE  Promised
  <2> DEFINE fits == i <= Size(p)
             v == IF fits THEN insert(At(p), i, other) ELSE At(p)
             may == May(At(p), "array")
             result == IF fits THEN {other} ELSE {}
  <2>1. Attempt("insert", p, i, <<>>, may, v, result)
    BY <1>5 DEF CallInsert
  <2>2. i \in Nat
    BY DEF Indices, JsonValueAssumption
  <2>3. may => size(At(p), <<>>) \in Nat
    BY <1>1, ItemsAre
  <2>4. fits => i \in 0 .. size(At(p), <<>>)
    BY <1>3, <2>2 DEF Size
  <2>5. may => IsValue(v)
    <3>1. CASE fits
      BY <1>1, <2>4, <3>1, InsertNth DEF IsArray
    <3>2. CASE ~fits
      BY <1>1, <3>2
    <3> QED
      BY <3>1, <3>2
  <2>6. ASSUME p = <<>>, may, value' = v, call'.at = <<>>, call'.ok, call'.op = "insert",
                 call'.index = i, call'.arg = other, call'.result = result
        PROVE  Promised
    <3>1. /\ Abstracted' = call' /\ (Contents!Effect => Promised)
          /\ Contents!Items = ItemsOf(value) /\ Content(value)' = Content(value')
      BY <2>6, WholePromised
    <3>2. Len(ItemsOf(value)) = size(value, <<>>) /\ size(value, <<>>) \in Nat
      BY <1>1, <1>2, <2>6, ItemsAre
    <3>3. fits <=> i <= Len(ItemsOf(value))
      BY <2>6, <3>2 DEF Size
    <3>4. CASE fits
      <4>1. Content(v) = Contents!List(Contents!Inserted(ItemsOf(value), i + 1, other))
        BY <1>1, <1>2, <2>4, <2>6, <3>4, InsertContent
      <4>2. result = {other}
        BY <3>4
      <4> HIDE DEF v, may, result, fits
      <4>3. Contents!Effect
        BY <2>6, <3>1, <3>3, <3>4, <4>1, <4>2 DEF Contents!Effect, Contents!Result
      <4> QED
        BY <3>1, <4>3
    <3>5. CASE ~fits
      <4>1. v = value /\ result = {}
        BY <1>2, <2>6, <3>5
      <4> HIDE DEF v, may, result, fits
      <4>2. Content(value)' = Content(value)
        BY <2>6, <3>1, <4>1
      <4>3. Contents!Effect
        BY <2>6, <3>1, <3>3, <3>5, <4>1, <4>2 DEF Contents!Effect, Contents!Result
      <4> QED
        BY <3>1, <4>3
    <3> QED
      BY <3>4, <3>5
  <2>7. may \in BOOLEAN
    BY DEF May
  <2> HIDE DEF v, may, result, fits
  <2> QED
    BY <1>1, <2>1, <2>5, <2>6, <2>7, AttemptPromised
<1>6. ASSUME NEW i \in Indices, CallIndex(p, i)
      PROVE  Promised
  <2> DEFINE v == Subscript(As(At(p), "array"), Index(i))
             may == May(At(p), "array")
  <2>1. Attempt("index", p, i, <<>>, may, v, {})
    BY <1>6 DEF CallIndex
  <2>2. i \in Nat
    BY DEF Indices, JsonValueAssumption
  <2>3. may => IsValue(v)
    BY <1>1, <2>2, Subscripts
  <2>4. ASSUME p = <<>>, may, value' = v, call'.at = <<>>, call'.ok, call'.op = "index",
                 call'.index = i, call'.arg = other, call'.result = {}
        PROVE  Promised
    <3>1. Content(v) = Contents!List(IF i < Len(ItemsOf(value)) THEN ItemsOf(value)
                                     ELSE Contents!Padded(ItemsOf(value), i + 1))
      BY <1>1, <1>2, <2>2, <2>4, IndexContent
    <3>2. /\ Abstracted' = call' /\ (Contents!Effect => Promised)
          /\ Contents!Items = ItemsOf(value) /\ Content(value)' = Content(value')
      BY <2>4, WholePromised
    <3> HIDE DEF v, may
    <3>3. Contents!Effect
      BY <2>4, <3>1, <3>2 DEF Contents!Effect
    <3> QED
      BY <3>2, <3>3
  <2>5. may \in BOOLEAN
    BY DEF May
  <2> HIDE DEF v, may
  <2> QED
    BY <1>1, <2>1, <2>3, <2>4, <2>5, AttemptPromised
<1> QED
  BY <1>4, <1>5, <1>6

\* The calls that take something from an array.
LEMMA ShrinkingPromised ==
  ASSUME ValueInv, JsonValueAssumption, NEW p \in DOMAIN value,
         \E i \in Indices : CallRemoveIndex(p, i) \/ CallResize(p, i)
  PROVE  Promised
<1>1. IsValue(At(p)) /\ IsValue(other) /\ IsValue(value)
  BY SubtreeIsValue DEF ValueInv, At
<1>2. p = <<>> => At(p) = value
  BY <1>1, SubtreeAtRoot DEF At
<1>3. \A i \in Indices : i \in Nat /\ Index(i) \in Keys
  BY IndexKeys DEF Indices, JsonValueAssumption
<1>4. ASSUME NEW i \in Indices, CallRemoveIndex(p, i)
      PROVE  Promised
  <2> DEFINE at == Append(p, Index(i))
             there == value[p].type = "array" /\ at \in DOMAIN value
             v == IF there THEN removeIndex(At(p), i) ELSE At(p)
             result == IF there THEN {At(at)} ELSE {}
  <2>1. Attempt("removeIndex", p, i, <<>>, TRUE, v, result)
    BY <1>4 DEF CallRemoveIndex
  <2>2. there => IsArray(At(p)) /\ Index(i) \in KeysOf(At(p))
    BY <1>1, <1>3, ChildrenAre, KeyBelow DEF IsArray, At
  <2>3. IsValue(v)
    <3>1. CASE there
      BY <1>1, <1>3, <2>2, <3>1, RemoveNth DEF IsArray
    <3>2. CASE ~there
      BY <1>1, <3>2
    <3> QED
      BY <3>1, <3>2
  <2>4. ASSUME p = <<>>, value' = v, call'.at = <<>>, call'.ok, call'.op = "removeIndex",
                 call'.index = i, call'.arg = other, call'.result = result
        PROVE  Promised
    <3>1. /\ Abstracted' = call' /\ (Contents!Effect => Promised)
          /\ Contents!Items = ItemsOf(value) /\ Content(value)' = Content(value')
      BY <2>4, WholePromised
    <3>2. CASE there /\ Dense
      <4>1. IsArray(value) /\ Index(i) \in KeysOf(value)
        BY <1>2, <2>2, <2>4, <3>2
      <4>2. Cardinality(KeysOf(value)) = size(value, <<>>)
        <5>1. <<>> \in DOMAIN value /\ value[<<>>].type = "array"
          BY <2>4, <3>2
        <5> QED
          BY <1>1, <3>2, <5>1, ChildrenAtRoot DEF Dense
      <4>3. i \in 0 .. size(value, <<>>) - 1
        <5>1. Index(i)[2] \in 0 .. size(value, <<>>) - 1
          BY <4>1, ArraySize
        <5> QED
          BY <1>3, <5>1, IndexKeys
      <4>4. /\ Content(v) = Contents!List(Contents!Removed(ItemsOf(value), i + 1))
            /\ ItemsOf(value)[i + 1] = Child(value, Index(i))
        BY <1>2, <2>4, <3>2, <4>1, <4>2, <4>3, RemoveContent
      <4>5. result = {Child(value, Index(i))}
        <5>1. at = <<Index(i)>>
          BY <2>4
        <5> QED
          BY <3>2, <5>1 DEF At, Child
      <4>6. i < Len(ItemsOf(value))
        <5>1. Len(ItemsOf(value)) = size(value, <<>>) /\ size(value, <<>>) \in Nat
          BY <4>1, ItemsAre DEF IsArray, May
        <5> QED
          BY <1>3, <4>3, <5>1
      <4> HIDE DEF v, result, there, at
      <4>7. Contents!Effect
        BY <2>4, <3>1, <4>4, <4>5, <4>6 DEF Contents!Effect, Contents!Result
      <4> QED
        BY <3>1, <4>7
    <3>3. CASE ~there /\ Dense
      <4>1. v = value /\ result = {}
        BY <1>2, <2>4, <3>3
      <4>2. ~ (i < Len(ItemsOf(value)))
        <5>1. CASE value[<<>>].type = "array"
          <6>1. Append(p, Index(i)) \notin DOMAIN value
            BY <2>4, <3>3, <5>1
          <6>2. Index(i) \notin KeysOf(value)
            BY <1>1, <1>2, <1>3, <2>4, <6>1, KeyBelow DEF At
          <6>3. IsArray(value) /\ Cardinality(KeysOf(value)) = size(value, <<>>)
            <7>1. <<>> \in DOMAIN value
              BY <2>4
            <7> QED
              BY <1>1, <3>3, <5>1, <7>1, ChildrenAtRoot DEF Dense, IsArray
          <6>4. i \notin 0 .. size(value, <<>>) - 1
            BY <6>2, <6>3, DenseKeys
          <6>5. Len(ItemsOf(value)) = size(value, <<>>) /\ size(value, <<>>) \in Nat
            BY <6>3, ItemsAre DEF IsArray, May
          <6> QED
            BY <1>3, <6>4, <6>5
        <5>2. CASE value[<<>>].type # "array"
          <6>1. ItemsOf(value) = <<>>
            BY <1>1, <5>2, ContentIs DEF ItemsOf
          <6>2. Len(ItemsOf(value)) = 0
            BY <6>1
          <6> QED
            BY <1>3, <6>2
        <5> QED
          BY <5>1, <5>2
      <4> HIDE DEF v, result, there, at
      <4>3. Content(value)' = Content(value)
        BY <2>4, <3>1, <4>1
      <4>4. Contents!Effect
        BY <2>4, <3>1, <4>1, <4>2, <4>3 DEF Contents!Effect, Contents!Result
      <4> QED
        BY <3>1, <4>4
    <3>4. CASE ~Dense
      BY <2>4, <3>4 DEF Promised
    <3> QED
      BY <3>2, <3>3, <3>4
  <2> DEFINE may == TRUE
  <2>5. may \in BOOLEAN /\ Attempt("removeIndex", p, i, <<>>, may, v, result)
    BY <2>1
  <2> HIDE DEF v, result, there, at, may
  <2> QED
    BY <1>1, <2>3, <2>4, <2>5, AttemptPromised
<1>5. ASSUME NEW n \in Indices, CallResize(p, n)
      PROVE  Promised
  <2> DEFINE v == resize(At(p), n)
             may == May(At(p), "array")
             fits == n = 0 \/ size(v, <<>>) = n
  <2>1. value' = (IF may THEN Put(value, p, v) ELSE value) /\ Called("resize", p, n, <<>>, may /\ fits, {})
    BY <1>5 DEF CallResize
  <2>2. n \in Nat /\ (may => IsValue(v))
    BY <1>1, <1>3, ResizeNth DEF IsArray
  <2>3. may \in BOOLEAN /\ fits \in BOOLEAN
    BY DEF May
  <2>4. "ok" \in DOMAIN call' /\ call'.op = "resize" /\ (call'.ok <=> may /\ fits)
    <3> HIDE DEF may, fits
    <3> QED
      BY <2>1, <2>3 DEF Called
  <2>5. CASE ~ (may /\ fits)
    <3>1. ~call'.ok
      BY <2>4, <2>5
    <3>2. value' = value \/ ~Dense
      BY <1>5, <2>2, <3>1, ResizeKeeps
    <3>3. CASE value' = value
      BY <2>4, <3>1, <3>3, ThrowsPromised
    <3>4. CASE ~Dense
      BY <2>4, <3>4 DEF Promised
    <3> QED
      BY <3>2, <3>3, <3>4
  <2>6. CASE may /\ fits /\ p # <<>>
    <3>1. value' = Put(value, p, v) /\ Called("resize", p, n, <<>>, TRUE, {})
      <4> HIDE DEF may, fits
      <4>1. (may /\ fits) = TRUE
        BY <2>6, <2>3
      <4> QED
        BY <2>1, <2>6, <4>1
    <3> HIDE DEF v
    <3> QED
      BY <1>1, <2>2, <2>6, <3>1, InsidePromised
  <2>7. CASE may /\ fits /\ p = <<>>
    <3>1. value' = Put(value, p, v) /\ Called("resize", <<>>, n, <<>>, TRUE, {})
      <4> HIDE DEF may, fits
      <4>1. (may /\ fits) = TRUE
        BY <2>7, <2>3
      <4> QED
        BY <2>1, <2>7, <4>1
    <3>2. value' = v
      BY <1>1, <2>2, <2>7, <3>1, PutAtRoot
    <3>6. call'.at = <<>> /\ call'.ok /\ call'.op = "resize" /\ call'.index = n
      BY <3>1 DEF Called
    <3>3. /\ Abstracted' = call' /\ (Contents!Effect => Promised)
          /\ Contents!Items = ItemsOf(value) /\ Content(value)' = Content(value')
      BY <3>6, WholePromised
    <3>4. Content(v) = Contents!List(Contents!Padded(ItemsOf(value), n))
      BY <1>1, <1>2, <2>2, <2>7, ResizeContent
    <3> HIDE DEF v, may, fits
    <3>5. Contents!Effect
      BY <3>2, <3>3, <3>4, <3>6 DEF Contents!Effect
    <3> QED
      BY <3>3, <3>5
  <2> QED
    BY <2>5, <2>6, <2>7
<1> QED
  BY <1>4, <1>5
\* The calls on the members of an object.
LEMMA MembersPromised ==
  ASSUME ValueInv, JsonValueAssumption, NEW p \in DOMAIN value,
         \E n \in Names : CallName(p, n) \/ CallRemoveMember(p, n) \/ CallEraseMember(p, n)
  PROVE  Promised
<1>1. IsValue(At(p)) /\ IsValue(other) /\ IsValue(value) /\ At(p)[<<>>] = value[p]
  BY SubtreeIsValue, ChildrenAre DEF ValueInv, At
<1>2. p = <<>> => At(p) = value
  BY <1>1, SubtreeAtRoot DEF At
<1>3. \A n \in Names : n \in Seq(Nat) /\ n \in Keys
  BY NameKeys DEF JsonValueAssumption, IsKey
<1>4. ASSUME NEW n \in Names, CallName(p, n)
      PROVE  Promised
  <2> DEFINE v == Subscript(As(At(p), "object"), n)
             may == May(At(p), "object")
  <2>1. Attempt("name", p, 0, n, may, v, {})
    BY <1>4 DEF CallName
  <2>2. may => IsValue(v)
    BY <1>1, <1>3, Subscripts
  <2>3. ASSUME p = <<>>, may, value' = v, call'.at = <<>>, call'.ok, call'.op = "name", call'.name = n
        PROVE  Promised
    <3>1. Content(v) = Contents!Fields([m \in DOMAIN FieldOf(value) \cup {n} |->
                                  IF m \in DOMAIN FieldOf(value) THEN FieldOf(value)[m] ELSE Empty])
      BY <1>1, <1>2, <1>3, <2>3, NameContent
    <3>2. /\ Abstracted' = call' /\ (Contents!Effect => Promised)
          /\ Contents!Field = FieldOf(value) /\ Content(value)' = Content(value')
      BY <2>3, WholePromised
    <3> HIDE DEF v, may
    <3>3. Contents!Effect
      BY <2>3, <3>1, <3>2 DEF Contents!Effect, Empty
    <3> QED
      BY <3>2, <3>3
  <2>4. may \in BOOLEAN
    BY DEF May
  <2> HIDE DEF v, may
  <2> QED
    BY <1>1, <2>1, <2>2, <2>3, <2>4, AttemptPromised
<1>5. ASSUME NEW n \in Names, CallRemoveMember(p, n)
      PROVE  Promised
  <2> DEFINE at == Append(p, n)
             there == value[p].type = "object" /\ at \in DOMAIN value
             v == IF there THEN Erase(At(p), {n}) ELSE At(p)
             result == IF there THEN {At(at)} ELSE {}
             may == TRUE
  <2>1. Attempt("removeMember", p, 0, n, may, v, result) /\ may \in BOOLEAN
    BY <1>5 DEF CallRemoveMember
  <2>2. IsValue(v)
    BY <1>1, EraseElements
  <2>3. ASSUME p = <<>>, value' = v, call'.at = <<>>, call'.ok, call'.op = "removeMember",
               call'.name = n, call'.result = result
        PROVE  Promised
    <3>1. /\ Abstracted' = call' /\ (Contents!Effect => Promised)
          /\ Contents!Field = FieldOf(value) /\ Content(value)' = Content(value')
      BY <2>3, WholePromised
    <3>2. there <=> n \in DOMAIN FieldOf(value)
      <4>1. at \in DOMAIN value <=> n \in KeysOf(value)
        BY <1>1, <1>2, <1>3, <2>3, KeyBelow DEF At
      <4>2. value[<<>>].type = "object" => DOMAIN FieldOf(value) = KeysOf(value)
        BY <1>1, FieldIs
      <4>3. value[<<>>].type # "object" => DOMAIN FieldOf(value) = {}
        BY <1>1, FieldIs
      <4> QED
        BY <2>3, <4>1, <4>2, <4>3
    <3>3. CASE there
      <4>1. Content(v) = Contents!Fields(Contents!Without(FieldOf(value), n))
        BY <1>1, <1>2, <2>3, <3>2, <3>3, EraseContent
      <4>2. result = {FieldOf(value)[n]}
        <5>1. FieldOf(value)[n] = Child(value, n)
          BY <1>1, <3>2, <3>3, FieldIs
        <5>2. at = <<n>>
          BY <2>3
        <5> QED
          BY <3>3, <5>1, <5>2 DEF At, Child
      <4> HIDE DEF v, result, there, at
      <4>3. Contents!Effect
        BY <2>3, <3>1, <3>2, <3>3, <4>1, <4>2 DEF Contents!Effect, Contents!Result
      <4> QED
        BY <3>1, <4>3
    <3>4. CASE ~there
      <4>1. v = value /\ result = {}
        BY <1>2, <2>3, <3>4
      <4> HIDE DEF v, result, there, at
      <4>2. Content(value)' = Content(value)
        BY <2>3, <3>1, <4>1
      <4>3. Contents!Effect
        BY <2>3, <3>1, <3>2, <3>4, <4>1, <4>2 DEF Contents!Effect, Contents!Result
      <4> QED
        BY <3>1, <4>3
    <3> QED
      BY <3>3, <3>4
  <2> HIDE DEF v, result, there, at, may
  <2> QED
    BY <1>1, <2>1, <2>2, <2>3, AttemptPromised
<1>6. ASSUME NEW n \in Names, CallEraseMember(p, n)
      PROVE  Promised
  <2> DEFINE v == Erase(At(p), {n})
             may == May(At(p), "object")
  <2>1. Attempt("eraseMember", p, 0, n, may, v, {})
    BY <1>6 DEF CallEraseMember
  <2>2. IsValue(v)
    BY <1>1, EraseElements
  <2>3. ASSUME p = <<>>, may, value' = v, call'.at = <<>>, call'.ok, call'.op = "eraseMember",
               call'.name = n
        PROVE  Promised
    <3>1. /\ n \in DOMAIN FieldOf(value) =>
                 Content(v) = Contents!Fields(Contents!Without(FieldOf(value), n))
          /\ n \notin DOMAIN FieldOf(value) => Content(v) = Content(value)
      BY <1>1, <1>2, <2>3, EraseContent
    <3>2. /\ Abstracted' = call' /\ (Contents!Effect => Promised)
          /\ Contents!Field = FieldOf(value) /\ Content(value)' = Content(value')
      BY <2>3, WholePromised
    <3> HIDE DEF v, may
    <3>3. Contents!Effect
      BY <2>3, <3>1, <3>2 DEF Contents!Effect
    <3> QED
      BY <3>2, <3>3
  <2>4. may \in BOOLEAN
    BY DEF May
  <2> HIDE DEF v, may
  <2> QED
    BY <1>1, <2>1, <2>2, <2>3, <2>4, AttemptPromised
<1> QED
  BY <1>4, <1>5, <1>6

\* The calls that change a Value as a whole, or note something with it.
LEMMA WholesPromised ==
  ASSUME ValueInv, JsonValueAssumption, NEW p \in DOMAIN value,
         \/ CallClear(p) \/ CallAssign(p) \/ CallSwap(p) \/ CallCopyPayload(p) \/ CallSwapPayload(p)
         \/ \E comment \in Comments : CallSetComment(p, comment, Before)
  PROVE  Promised
<1>1. IsValue(At(p)) /\ IsValue(other) /\ IsValue(value) /\ At(p)[<<>>] = value[p]
  BY SubtreeIsValue, ChildrenAre DEF ValueInv, At
<1>2. p = <<>> => At(p) = value
  BY <1>1, SubtreeAtRoot DEF At
<1>3. CASE CallClear(p)
  <2> DEFINE v == clear(At(p))
             may == value[p].type \in Containers \cup {"null"}
  <2>1. Attempt("clear", p, 0, <<>>, may, v, {}) /\ may \in BOOLEAN
    BY <1>3 DEF CallClear
  <2>2. IsValue(v)
    BY <1>1, ClearElements
  <2>3. ASSUME p = <<>>, may, value' = v, call'.at = <<>>, call'.ok, call'.op = "clear"
        PROVE  Promised
    <3>1. Content(v) = [Content(value) EXCEPT !.of = <<>>]
      BY <1>1, <1>2, <2>3, ClearContent
    <3>2. /\ Abstracted' = call' /\ (Contents!Effect => Promised)
          /\ Content(value)' = Content(value')
      BY <2>3, WholePromised
    <3> HIDE DEF v, may
    <3>3. Contents!Effect
      BY <2>3, <3>1, <3>2 DEF Contents!Effect
    <3> QED
      BY <3>2, <3>3
  <2> HIDE DEF v, may
  <2> QED
    BY <1>1, <2>1, <2>2, <2>3, AttemptPromised
<1>4. ASSUME NEW x, IsValue(x), Attempt("replace", p, 0, <<>>, TRUE, x, {})
      PROVE  Promised
  <2>1. ASSUME p = <<>>, call'.at = <<>>, call'.ok, call'.op = "replace"
        PROVE  Promised
    <3>1. Abstracted' = call' /\ (Contents!Effect => Promised)
      BY <2>1, WholePromised
    <3>2. Contents!Effect
      BY <2>1, <3>1 DEF Contents!Effect
    <3> QED
      BY <3>1, <3>2
  <2> DEFINE may == TRUE
  <2>2. Attempt("replace", p, 0, <<>>, may, x, {}) /\ may \in BOOLEAN
    BY <1>4
  <2> HIDE DEF may
  <2> QED
    BY <1>1, <1>4, <2>1, <2>2, AttemptPromised
<1>5. CASE CallAssign(p) \/ CallSwap(p) \/ CallCopyPayload(p) \/ CallSwapPayload(p)
  <2>1. IsValue(WithPayload(At(p), other))
    BY <1>1, WithPayloadElements
  <2>2. CASE CallAssign(p) \/ CallSwap(p)
    BY <1>1, <1>4, <2>2 DEF CallAssign, CallSwap
  <2>3. CASE CallCopyPayload(p) \/ CallSwapPayload(p)
    BY <1>4, <2>1, <2>3 DEF CallCopyPayload, CallSwapPayload
  <2> QED
    BY <1>5, <2>2, <2>3
<1>6. ASSUME NEW comment \in Comments, CallSetComment(p, comment, Before)
      PROVE  Promised
  <2> DEFINE v == setComment(At(p), <<>>, comment, Before)
             kept == IF comment # <<>> /\ Last(comment) = LF THEN Front(comment) ELSE comment
             may == kept # <<>> /\ kept[1] \in {0, C("/")}
  <2>1. Attempt("note", p, 0, <<>>, may, v, {}) /\ may \in BOOLEAN
    BY <1>6 DEF CallSetComment
  <2>2. /\ IsValue(v) /\ KeysOf(v) = KeysOf(At(p)) /\ v[<<>>].type = At(p)[<<>>].type
        /\ \A k \in KeysOf(At(p)) : Child(v, k) = Child(At(p), k)
    BY <1>1, SetCommentElements
  <2> HIDE DEF v, may
  <2>3. ASSUME p = <<>>, value' = v, call'.at = <<>>, call'.ok, call'.op = "note"
        PROVE  Promised
    <3>1. Content(v) = Content(value)
      BY <1>1, <1>2, <2>2, <2>3, SameContent
    <3>2. /\ Abstracted' = call' /\ (Contents!Effect => Promised)
          /\ Content(value)' = Content(value')
      BY <2>3, WholePromised
    <3>3. Contents!Effect
      BY <2>3, <3>1, <3>2 DEF Contents!Effect
    <3> QED
      BY <3>2, <3>3
  <2>4. IsValue(v)
    BY <2>2
  <2> QED
    BY <1>1, <2>1, <2>3, <2>4, AttemptPromised
<1> QED
  BY <1>3, <1>5, <1>6

\* The second Value is made another one, or a path is made.
LEMMA OthersPromised ==
  ASSUME ValueInv, JsonValueAssumption,
         (\E x \in Elements : CallOther(x)) \/ (\E path \in Paths : CallMake(path))
  PROVE  Promised
<1>1. ASSUME NEW x \in Elements, CallOther(x)
      PROVE  Promised
  <2>1. Attempt("note", <<>>, 0, <<>>, TRUE, value, {})
    BY <1>1 DEF CallOther
  <2>2. value' = value
    BY <2>1, PutAtRoot DEF Attempt, ValueInv
  <2>3. call'.at = <<>> /\ call'.ok /\ call'.op = "note"
    BY <2>1 DEF Attempt, Called
  <2>4. /\ Abstracted' = call' /\ (Contents!Effect => Promised)
        /\ Content(value)' = Content(value')
    BY <2>3, WholePromised
  <2>5. Contents!Effect
    BY <2>2, <2>3, <2>4 DEF Contents!Effect
  <2> QED
    BY <2>4, <2>5
<1>2. ASSUME NEW path \in Paths, CallMake(path)
      PROVE  Promised
  <2> DEFINE made == make(value, makePath(path, <<>>))
  <2>1. Called("make", <<>>, 0, path, made.ok, {Subtree(made.root, made.at)})
    BY <1>2 DEF CallMake
  <2> HIDE DEF made
  <2>2. "ok" \in DOMAIN call' /\ call'.at = <<>> /\ call'.op = "make"
    BY <2>1 DEF Called
  <2>3. CASE call'.ok
    <3>1. Abstracted' = call' /\ (Contents!Effect => Promised)
      BY <2>2, <2>3, WholePromised
    <3>2. Contents!Effect
      BY <2>2, <3>1 DEF Contents!Effect
    <3> QED
      BY <3>1, <3>2
  <2>4. CASE ~call'.ok
    <3>1. value' = value
      BY <1>2, <2>4, MakeKeeps
    <3> QED
      BY <2>2, <2>4, <3>1, ThrowsPromised
  <2> QED
    BY <2>3, <2>4
<1> QED
  BY <1>1, <1>2
LEMMA NextPromised ==
  ASSUME ValueInv, JsonValueAssumption, Next
  PROVE  Promised
<1>1. CASE Change
  <2>1. PICK p \in DOMAIN value :
           \/ CallAppend(p) \/ CallClear(p) \/ CallAssign(p) \/ CallSwap(p)
           \/ CallCopyPayload(p) \/ CallSwapPayload(p)
           \/ \E i \in Indices : \/ CallInsert(p, i) \/ CallRemoveIndex(p, i)
                                 \/ CallResize(p, i) \/ CallIndex(p, i)
           \/ \E n \in Names : \/ CallName(p, n) \/ CallRemoveMember(p, n) \/ CallEraseMember(p, n)
           \/ \E comment \in Comments : CallSetComment(p, comment, Before)
           \/ \E path \in Paths : CallMake(path)
    BY <1>1 DEF Change
  <2>2. CASE CallAppend(p) \/ \E i \in Indices : CallInsert(p, i) \/ CallIndex(p, i)
    BY <2>2, GrowingPromised
  <2>3. CASE \E i \in Indices : CallRemoveIndex(p, i) \/ CallResize(p, i)
    BY <2>3, ShrinkingPromised
  <2>4. CASE \E n \in Names : CallName(p, n) \/ CallRemoveMember(p, n) \/ CallEraseMember(p, n)
    BY <2>4, MembersPromised
  <2>5. CASE \/ CallClear(p) \/ CallAssign(p) \/ CallSwap(p) \/ CallCopyPayload(p) \/ CallSwapPayload(p)
             \/ \E comment \in Comments : CallSetComment(p, comment, Before)
    BY <2>5, WholesPromised
  <2>6. CASE \E path \in Paths : CallMake(path)
    BY <2>6, OthersPromised
  <2> QED
    BY <2>1, <2>2, <2>3, <2>4, <2>5, <2>6
<1>2. CASE \E x \in Elements : CallOther(x)
  BY <1>2, OthersPromised
<1> QED
  BY <1>1, <1>2 DEF Next

\* A Value implements the container that JsonContainer promises: what append, insert,
\* removeIndex and resize do to the map, element by element, is done to a sequence at
\* once, and an iterator finds the members that were made and not removed.
THEOREM ContainerSpecCorrect == Spec => ContainerSpec
<1>1. Init => Contents!Init
  <2>1. ASSUME Init
        PROVE  Content(value).kind \in {"null", "array", "object", "scalar"}
    <3>1. IsValue(value)
      BY <2>1, JsonValueAssumption DEF Init, JsonValueAssumption
    <3> QED
      BY <3>1, ContentIs
  <2> QED
    BY <2>1 DEF Contents!Init
<1>2. ValueInv /\ [Next]_vars =>
          [Contents!Next \/ (call'.op \in {"removeIndex", "resize"} /\ ~Dense)]_vars
  BY JsonValueAssumption, NextPromised DEF Promised
<1> QED
  BY <1>1, <1>2, ValueCorrect, PTL DEF Spec, ContainerSpec
=============================================================================
