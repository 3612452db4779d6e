------------------------------- MODULE Induction -------------------------------
(***************************************************************************)
(* Induction and recursion over the naturals, in a form that takes sets    *)
(* and functions where the library's theorems take operators: a property   *)
(* is the set of numbers that have it, a step of a recursion is a function *)
(* of the number and of what there is so far.                              *)
(***************************************************************************)
EXTENDS Integers, Sequences, FiniteSetTheorems, WellFoundedInduction, TLAPS

\* Of natural numbers there is a least one: the intervals below them are finite
\* sets, and those are well-founded by inclusion.
LEMMA LeastNumber ==
  ASSUME NEW T \in SUBSET Nat, T # {}
  PROVE  \E n \in T : \A m \in T : n <= m
<1> DEFINE U == {0 .. n : n \in T}
           R == StrictSubsetOrdering(Nat)
<1>1. U \subseteq FiniteSubsetsOf(Nat) /\ U # {}
  <2>1. ASSUME NEW n \in T
        PROVE  0 .. n \in FiniteSubsetsOf(Nat)
    BY FS_Interval DEF FiniteSubsetsOf
  <2> QED
    BY <2>1
<1>2. \E x \in U : \A y \in U : ~ (<<y, x>> \in R)
  <2> HIDE DEF U, R
  <2>1. IsWellFoundedOn(R, FiniteSubsetsOf(Nat))
    BY FS_StrictSubsetOrderingWellFounded DEF R
  <2> QED
    BY <1>1, <2>1, WFMin
<1>3. PICK n \in T : \A m \in T : ~ (<<0 .. m, 0 .. n>> \in R)
  BY <1>2
<1>4. ASSUME NEW m \in T, m < n
      PROVE  FALSE
  <2>1. 0 .. m \subseteq 0 .. n /\ 0 .. m # 0 .. n
    BY <1>4
  <2>2. 0 .. m \in SUBSET Nat /\ 0 .. n \in SUBSET Nat
    OBVIOUS
  <2> QED
    BY <2>1, <2>2, <1>3 DEF StrictSubsetOrdering
<1> QED
  BY <1>4

\* Induction up to a number.
LEMMA InductionUpTo ==
  ASSUME NEW n \in Nat, NEW A, 0 \in A,
         \A i \in 0 .. n - 1 : i \in A => i + 1 \in A
  PROVE  \A i \in 0 .. n : i \in A
<1> DEFINE T == {i \in 0 .. n : i \notin A}
<1> SUFFICES ASSUME T # {} PROVE FALSE
  OBVIOUS
<1>1. PICK i \in T : \A j \in T : i <= j
  <2>1. T \in SUBSET Nat
    OBVIOUS
  <2> HIDE DEF T
  <2> QED
    BY <2>1, LeastNumber
<1>2. i \in 0 .. n /\ i # 0
  OBVIOUS
<1>3. i - 1 \in 0 .. n - 1 /\ i - 1 \in A
  BY <1>1, <1>2
<1> QED
  BY <1>3

\* Induction from a number down.
LEMMA InductionBack ==
  ASSUME NEW n \in Nat, NEW A,
         \A p \in 0 .. n : (\A q \in p + 1 .. n : q \in A) => p \in A
  PROVE  \A p \in 0 .. n : p \in A
<1> DEFINE B == {i \in Nat : \A p \in 0 .. n : p > n - i => p \in A}
<1>1. 0 \in B
  OBVIOUS
<1>2. ASSUME NEW i \in 0 .. n, i \in B
      PROVE  i + 1 \in B
  <2>1. ASSUME NEW p \in 0 .. n, p > n - (i + 1)
        PROVE  p \in A
    <3>1. \A q \in p + 1 .. n : q \in 0 .. n /\ q > n - i
      BY <2>1
    <3> QED
      BY <1>2, <3>1
  <2> QED
    BY <2>1
<1>3. n + 1 \in B
  <2> HIDE DEF B
  <2>1. n + 1 \in Nat /\ \A i \in 0 .. (n + 1) - 1 : i \in 0 .. n
    OBVIOUS
  <2>2. \A i \in 0 .. n + 1 : i \in B
    BY <1>1, <1>2, <2>1, InductionUpTo
  <2> QED
    BY <2>1, <2>2
<1> QED
  BY <1>3

\* What goes into a finite set, each element to another one, is finite.
LEMMA FiniteByInjection ==
  ASSUME NEW S, NEW T, IsFiniteSet(T), NEW f \in [S -> T],
         \A x, y \in S : f[x] = f[y] => x = y
  PROVE  IsFiniteSet(S)
<1>1. f \in Injection(S, T)
  BY DEF Injection, IsInjective
<1> QED
  BY <1>1, FS_Injection

\* Finite sets: of one element, within another one, and the number of their elements.
LEMMA FiniteOne == \A x : IsFiniteSet({x})
BY FS_Singleton

LEMMA FinitePart == \A S : IsFiniteSet(S) => Cardinality(S) \in Nat /\ \A T \in SUBSET S : IsFiniteSet(T)
BY FS_Subset, FS_CardinalityType

LEMMA FiniteUnion == \A S, T : IsFiniteSet(S) /\ IsFiniteSet(T) => IsFiniteSet(S \cup T)
BY FS_Union

\* A part that is not all has fewer elements.
LEMMA FiniteLess ==
  \A S : IsFiniteSet(S) => \A T \in SUBSET S : T # S => Cardinality(T) < Cardinality(S)
<1>1. ASSUME NEW S, IsFiniteSet(S), NEW T \in SUBSET S, T # S
      PROVE  Cardinality(T) < Cardinality(S)
  <2>1. IsFiniteSet(T) /\ Cardinality(T) <= Cardinality(S) /\ Cardinality(T) # Cardinality(S)
    BY <1>1, FS_Subset
  <2>2. Cardinality(T) \in Nat /\ Cardinality(S) \in Nat
    BY <1>1, <2>1, FS_CardinalityType
  <2> QED
    BY <2>1, <2>2
<1> QED
  BY <1>1

\* What a function makes of the elements of a finite set is finite.
LEMMA FiniteImage ==
  ASSUME NEW S, IsFiniteSet(S), NEW f
  PROVE  IsFiniteSet({f[x] : x \in S})
<1> DEFINE T == {f[x] : x \in S}
           g == [x \in S |-> f[x]]
<1>1. g \in Surjection(S, T)
  BY DEF Surjection
<1> HIDE DEF g, T
<1>2. IsFiniteSet(T)
  BY <1>1, FS_Surjection
<1> QED
  BY <1>2 DEF T

\* A set of numbers of an interval, and one more.
LEMMA OneMore ==
  ASSUME NEW a, NEW b, NEW B \in SUBSET (a .. b), a \in Int, b \in Int, NEW x, x \notin B
  PROVE  /\ Cardinality(B \cup {x}) = Cardinality(B) + 1
         /\ Cardinality(B) \in Nat
<1>1. IsFiniteSet(B)
  <2>1. IsFiniteSet(a .. b)
    BY FS_Interval
  <2> QED
    BY <2>1, FS_Subset
<1> QED
  BY <1>1, FS_AddElement, FS_CardinalityType

LEMMA OneAlone == \A x : Cardinality({x}) = 1
BY FS_Singleton

LEMMA NoneAtAll == Cardinality({}) = 0
BY FS_EmptySet

\* The steps of a recursion over the numbers up to n, with values in S, and the
\* functions the recursion defines.
Steps(n, S) == [(1 .. n) \X S -> S]

Recursive(n, S, base, step) ==
    {f \in [0 .. n -> S] : f[0] = base /\ \A i \in 1 .. n : f[i] = step[<<i, f[i - 1]>>]}

\* There is one.
LEMMA Recursion ==
  ASSUME NEW n \in Nat, NEW S, NEW base \in S, NEW step \in Steps(n, S)
  PROVE  \E f : f \in Recursive(n, S, base, step)
<1> USE DEF Steps
<1> DEFINE P(k) == \E f \in [0 .. k -> S] :
                       f[0] = base /\ \A i \in 1 .. k : f[i] = step[<<i, f[i - 1]>>]
           A == {k \in Nat : P(k)}
<1>1. 0 \in A
  <2>1. P(0)
    <3> WITNESS [i \in 0 .. 0 |-> base] \in [0 .. 0 -> S]
    <3> QED
      OBVIOUS
  <2> QED
    BY <2>1
<1>2. ASSUME NEW k \in 0 .. n - 1, k \in A
      PROVE  k + 1 \in A
  <2>1. PICK f \in [0 .. k -> S] :
                 f[0] = base /\ \A i \in 1 .. k : f[i] = step[<<i, f[i - 1]>>]
    BY <1>2
  <2>2. step[<<k + 1, f[k]>>] \in S
    OBVIOUS
  <2> DEFINE g == [i \in 0 .. k + 1 |-> IF i <= k THEN f[i] ELSE step[<<k + 1, f[k]>>]]
  <2>3. g \in [0 .. k + 1 -> S]
    BY <2>2
  <2>4. g[0] = base /\ \A i \in 1 .. k + 1 : g[i] = step[<<i, g[i - 1]>>]
    <3>1. g[0] = base
      BY <2>1
    <3>2. ASSUME NEW i \in 1 .. k
          PROVE  g[i] = step[<<i, g[i - 1]>>]
      <4>1. g[i] = f[i] /\ g[i - 1] = f[i - 1]
        OBVIOUS
      <4> QED
        BY <2>1, <4>1
    <3>3. g[k + 1] = step[<<k + 1, g[k]>>]
      <4>1. g[k] = f[k] /\ g[k + 1] = step[<<k + 1, f[k]>>]
        OBVIOUS
      <4> QED
        BY <4>1
    <3> HIDE DEF g
    <3>4. ASSUME NEW i \in 1 .. k + 1
          PROVE  g[i] = step[<<i, g[i - 1]>>]
      <4>1. CASE i \in 1 .. k
        BY <3>2, <4>1
      <4>2. CASE i = k + 1
        <5>1. i - 1 = k
          BY <4>2
        <5> QED
          BY <3>3, <4>2, <5>1
      <4> QED
        BY <4>1, <4>2
    <3> QED
      BY <3>1, <3>4
  <2> HIDE DEF g
  <2>5. P(k + 1)
    BY <2>3, <2>4
  <2> QED
    BY <2>5
<1>3. n \in A
  <2> HIDE DEF A
  <2> QED
    BY <1>1, <1>2, InductionUpTo
<1> QED
  BY <1>3 DEF Recursive

\* The steps of a recursion from n down, in which a value may depend on all those
\* that come behind it.
StepsBack(n, S) == [(0 .. n) \X [0 .. n -> S] -> S]

LooksBehind(n, S, step) ==
    \A p \in 0 .. n : \A f, g \in [0 .. n -> S] :
        (\A q \in p + 1 .. n : f[q] = g[q]) => step[<<p, f>>] = step[<<p, g>>]

\* Such a recursion has a function.
LEMMA RecursionBack ==
  ASSUME NEW n \in Nat, NEW S, NEW any \in S, NEW step \in StepsBack(n, S),
         LooksBehind(n, S, step)
  PROVE  \E f \in [0 .. n -> S] : \A p \in 0 .. n : f[p] = step[<<p, f>>]
<1> DEFINE F == [0 .. n -> S]
           P(k, f) == \A p \in 0 .. n : p > n - k => f[p] = step[<<p, f>>]
           A == {k \in Nat : \E f \in F : P(k, f)}
<1>1. 0 \in A
  <2>1. [i \in 0 .. n |-> any] \in F /\ P(0, [i \in 0 .. n |-> any])
    OBVIOUS
  <2> HIDE DEF F, P
  <2> QED
    BY <2>1
<1>2. ASSUME NEW k \in 0 .. n, k \in A
      PROVE  k + 1 \in A
  <2>1. PICK f \in F : P(k, f)
    BY <1>2
  <2> DEFINE at == n - k
             g == [i \in 0 .. n |-> IF i = at THEN step[<<at, f>>] ELSE f[i]]
  <2>2. at \in 0 .. n /\ k + 1 \in Nat
    OBVIOUS
  <2>3. \A p \in 0 .. n, h \in F : step[<<p, h>>] \in S
    BY DEF StepsBack
  <2>4. g \in F
    <3> HIDE DEF at
    <3> QED
      BY <2>2, <2>3
  <2>5. \A i \in 0 .. n : i # at => g[i] = f[i]
    OBVIOUS
  <2>6. g[at] = step[<<at, f>>]
    BY <2>2
  <2> HIDE DEF g
  <2>7. ASSUME NEW p \in 0 .. n, p > n - (k + 1)
        PROVE  g[p] = step[<<p, g>>]
    <3>1. p = at \/ (p # at /\ p > n - k)
      BY <2>7
    <3>2. \A q \in p + 1 .. n : q \in 0 .. n /\ q # at
      BY <2>7
    <3> HIDE DEF at
    <3>3. step[<<p, f>>] = step[<<p, g>>]
      <4>1. \A q \in p + 1 .. n : f[q] = g[q]
        BY <2>5, <3>2
      <4> QED
        BY <2>4, <4>1 DEF LooksBehind
    <3> QED
      BY <2>1, <2>5, <2>6, <3>1, <3>3
  <2> HIDE DEF F, at
  <2>8. P(k + 1, g)
    BY <2>7
  <2> HIDE DEF P
  <2> QED
    BY <2>2, <2>4, <2>8
<1>3. n + 1 \in A
  <2> HIDE DEF A
  <2>1. n + 1 \in Nat /\ \A i \in 0 .. (n + 1) - 1 : i \in 0 .. n
    OBVIOUS
  <2>2. \A i \in 0 .. n + 1 : i \in A
    BY <1>1, <1>2, <2>1, InductionUpTo
  <2> QED
    BY <2>1, <2>2
<1>4. PICK f \in F : P(n + 1, f)
  BY <1>3
<1>5. \A p \in 0 .. n : p > n - (n + 1)
  OBVIOUS
<1> QED
  BY <1>4, <1>5
\* A finite set of natural numbers has a greatest one.
LEMMA GreatestNumber ==
  ASSUME NEW S \in SUBSET Nat, S # {}, IsFiniteSet(S)
  PROVE  \E n \in S : \A m \in S : m <= n
<1> DEFINE From(n) == {m \in S : n <= m}
           U == {From(n) : n \in S}
           R == StrictSubsetOrdering(S)
<1>1. U \subseteq FiniteSubsetsOf(S) /\ U # {}
  <2>1. ASSUME NEW n \in S
        PROVE  From(n) \in FiniteSubsetsOf(S)
    BY FS_Subset DEF FiniteSubsetsOf
  <2> QED
    BY <2>1
<1>2. \E x \in U : \A y \in U : ~ (<<y, x>> \in R)
  <2> HIDE DEF U, R
  <2>1. IsWellFoundedOn(R, FiniteSubsetsOf(S))
    BY FS_StrictSubsetOrderingWellFounded DEF R
  <2> QED
    BY <1>1, <2>1, WFMin
<1>3. PICK n \in S : \A m \in S : ~ (<<From(m), From(n)>> \in R)
  BY <1>2
<1>4. ASSUME NEW m \in S, ~(m <= n)
      PROVE  FALSE
  <2>1. From(m) \subseteq From(n) /\ From(m) # From(n)
    <3>1. n \in From(n) /\ n \notin From(m)
      BY <1>4
    <3>2. \A x \in S : m <= x => n <= x
      <4>1. n \in Nat /\ m \in Nat /\ \A x \in S : x \in Nat
        OBVIOUS
      <4> QED
        BY <1>4, <4>1
    <3> QED
      BY <3>1, <3>2
  <2>2. From(m) \in SUBSET S /\ From(n) \in SUBSET S
    OBVIOUS
  <2> HIDE DEF From
  <2> QED
    BY <2>1, <2>2, <1>3 DEF StrictSubsetOrdering
<1> QED
  BY <1>4
\* As many different numbers below n as there are numbers below n are all of them.
LEMMA AllBelow ==
  ASSUME NEW S, IsFiniteSet(S), NEW n \in Nat, Cardinality(S) = n, NEW f \in [S -> 0 .. n - 1],
         \A x, y \in S : f[x] = f[y] => x = y
  PROVE  \A i \in 0 .. n - 1 : \E x \in S : f[x] = i
<1>1. f \in Injection(S, 0 .. n - 1)
  BY DEF Injection, IsInjective
<1>2. IsFiniteSet(0 .. n - 1) /\ Cardinality(0 .. n - 1) = n
  <2>1. Cardinality(0 .. n - 1) = IF 0 > n - 1 THEN 0 ELSE n - 1 - 0 + 1
    BY FS_Interval
  <2>2. IsFiniteSet(0 .. n - 1)
    BY FS_Interval
  <2> QED
    BY <2>1, <2>2
<1>3. f \in Surjection(S, 0 .. n - 1)
  BY <1>1, <1>2, FS_Injection
<1> QED
  BY <1>3 DEF Surjection
=============================================================================
