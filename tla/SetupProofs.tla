------------------------------ MODULE SetupProofs ------------------------------
(***************************************************************************)
(* Proofs about the files, the ports and the quotas, for all files that    *)
(* programs can hold, all widths of the integers and any number of starts. *)
(* They rest on what is proved first of powers and of decimals, and of     *)
(* what operator>> and asString() make of texts and of Values.             *)
(***************************************************************************)
EXTENDS Setup, SequenceTheorems, Induction
LOCAL INSTANCE SequencesExt
LOCAL INSTANCE FiniteSetsExt

\* Texts are sequences of whatever a file has for characters.
IsSeq(s) == \E S : s \in Seq(S)

-----------------------------------------------------------------------------
(***************************************************************************)
(* Powers and products.                                                    *)
(***************************************************************************)
\* The powers of b up to the n-th.
ArePowers(f, b, n) ==
    /\ f \in [0 .. n -> Int] /\ f[0] = 1
    /\ \A i \in 1 .. n : f[i] = b * f[i - 1]

LEMMA PowersUpTo ==
  ASSUME NEW b \in Int, NEW n \in Nat
  PROVE  \E f : ArePowers(f, b, n) /\ Power(b, n) = f[n]
<1> DEFINE body(g) == [k \in 0 .. n |-> IF k = 0 THEN 1 ELSE b * g[k - 1]]
           power == CHOOSE g : g = body(g)
           step == [x \in (1 .. n) \X Int |-> b * x[2]]
<1>1. step \in Steps(n, Int)
  <2>1. ASSUME NEW x \in (1 .. n) \X Int
        PROVE  b * x[2] \in Int
    <3>1. x[2] \in Int
      OBVIOUS
    <3> QED
      BY <3>1
  <2> QED
    BY <2>1 DEF Steps
<1>2. PICK f : f \in Recursive(n, Int, 1, step)
  <2> HIDE DEF step
  <2>1. 1 \in Int
    OBVIOUS
  <2> QED
    BY <1>1, <2>1, Recursion
<1>3. f \in [0 .. n -> Int] /\ f[0] = 1 /\ \A i \in 1 .. n : f[i] = step[<<i, f[i - 1]>>]
  BY <1>2 DEF Recursive
<1>4. \A i \in 1 .. n : f[i - 1] \in Int /\ f[i] = b * f[i - 1]
  <2>1. ASSUME NEW i \in 1 .. n
        PROVE  f[i - 1] \in Int /\ f[i] = b * f[i - 1]
    <3>1. i - 1 \in 0 .. n
      OBVIOUS
    <3>2. f[i - 1] \in Int
      BY <1>3, <3>1
    <3>3. <<i, f[i - 1]>> \in (1 .. n) \X Int
      BY <3>2
    <3> QED
      BY <1>3, <3>2, <3>3
  <2> QED
    BY <2>1
<1>5. f = body(f)
  <2>1. \A k \in 0 .. n : f[k] = IF k = 0 THEN 1 ELSE b * f[k - 1]
    BY <1>3, <1>4
  <2> QED
    BY <1>3, <2>1
<1>6. power = body(power)
  <2> HIDE DEF body
  <2> QED
    BY <1>5
<1>7. ArePowers(power, b, n)
  <2>0. \A k \in 0 .. n : power[k] = IF k = 0 THEN 1 ELSE b * power[k - 1]
    BY <1>6
  <2>1. power[0] = 1 /\ \A k \in 1 .. n : power[k] = b * power[k - 1]
    BY <2>0
  <2>2. DOMAIN power = 0 .. n /\ power = [k \in 0 .. n |-> power[k]]
    BY <1>6
  <2> HIDE DEF power
  <2> DEFINE T == {k \in 0 .. n : power[k] = f[k]}
  <2>3. 0 \in T
    BY <1>3, <2>1
  <2>4. \A k \in 0 .. n - 1 : k \in T => k + 1 \in T
    <3>1. ASSUME NEW k \in 0 .. n - 1, k \in T
          PROVE  k + 1 \in T
      <4>1. k + 1 \in 1 .. n /\ (k + 1) - 1 = k
        OBVIOUS
      <4>2. power[k + 1] = b * power[k] /\ f[k + 1] = b * f[k]
        BY <1>4, <2>1, <4>1
      <4>3. power[k] = f[k]
        BY <3>1
      <4> QED
        BY <4>1, <4>2, <4>3
    <3> QED
      BY <3>1
  <2>5. \A k \in 0 .. n : k \in T
    <3> HIDE DEF T
    <3> QED
      BY <2>3, <2>4, InductionUpTo
  <2>6. power \in [0 .. n -> Int]
    BY <1>3, <2>2, <2>5
  <2> QED
    BY <2>1, <2>6 DEF ArePowers
<1>8. Power(b, n) = power[n]
  BY DEF Power
<1> QED
  BY <1>7, <1>8

\* What the powers of a number are.
LEMMA Powers ==
  ASSUME NEW b \in Int
  PROVE  /\ Power(b, 0) = 1
         /\ \A n \in Nat : Power(b, n) \in Int /\ Power(b, n + 1) = b * Power(b, n)
<1>1. Power(b, 0) = 1
  <2>1. PICK f : ArePowers(f, b, 0) /\ Power(b, 0) = f[0]
    BY PowersUpTo
  <2> QED
    BY <2>1 DEF ArePowers
<1>2. ASSUME NEW n \in Nat
      PROVE  Power(b, n) \in Int /\ Power(b, n + 1) = b * Power(b, n)
  <2>1. PICK f : ArePowers(f, b, n) /\ Power(b, n) = f[n]
    BY PowersUpTo
  <2>2. PICK g : ArePowers(g, b, n + 1) /\ Power(b, n + 1) = g[n + 1]
    <3>1. n + 1 \in Nat
      OBVIOUS
    <3> QED
      BY <3>1, PowersUpTo
  <2> DEFINE T == {k \in 0 .. n : f[k] = g[k]}
  <2>3. 0 \in T
    BY <2>1, <2>2 DEF ArePowers
  <2>4. \A k \in 0 .. n - 1 : k \in T => k + 1 \in T
    <3>1. ASSUME NEW k \in 0 .. n - 1, k \in T
          PROVE  k + 1 \in T
      <4>1. k + 1 \in 1 .. n /\ k + 1 \in 1 .. n + 1 /\ (k + 1) - 1 = k
        OBVIOUS
      <4>2. f[k + 1] = b * f[k] /\ g[k + 1] = b * g[k]
        BY <2>1, <2>2, <4>1 DEF ArePowers
      <4> QED
        BY <3>1, <4>1, <4>2
    <3> QED
      BY <3>1
  <2>5. n \in T
    <3>1. \A k \in 0 .. n : k \in T
      <4> HIDE DEF T
      <4> QED
        BY <2>3, <2>4, InductionUpTo
    <3> QED
      BY <3>1
  <2>6. g[n + 1] = b * g[n]
    BY <2>2 DEF ArePowers
  <2>7. f[n] \in Int
    BY <2>1 DEF ArePowers
  <2> QED
    BY <2>1, <2>2, <2>5, <2>6, <2>7
<1> QED
  BY <1>1, <1>2

\* Products of what is not negative.
LEMMA ProductUp ==
  ASSUME NEW a \in Int, NEW b \in Int, NEW c \in Int, a <= b, 0 <= c
  PROVE  a * c <= b * c /\ c * a <= c * b
OBVIOUS

\* Products of what is positive.
LEMMA ProductPositive ==
  ASSUME NEW a \in Int, NEW b \in Int, 0 < a, 0 < b
  PROVE  0 < a * b /\ a <= a * b /\ b <= a * b
OBVIOUS

\* A power of what is positive is, and greater than its exponent, if that is 2 or more.
LEMMA PowerPositive ==
  ASSUME NEW b \in Int, b >= 1, NEW n \in Nat
  PROVE  Power(b, n) \in Int /\ Power(b, n) >= 1 /\ (b >= 2 => Power(b, n) > n)
<1> DEFINE T == {k \in 0 .. n : Power(b, k) >= 1 /\ (b >= 2 => Power(b, k) > k)}
<1>1. 0 \in T
  BY Powers
<1>2. \A k \in 0 .. n - 1 : k \in T => k + 1 \in T
  <2>1. ASSUME NEW k \in 0 .. n - 1, k \in T
        PROVE  k + 1 \in T
    <3> DEFINE p == Power(b, k)
    <3>1. p \in Int /\ Power(b, k + 1) = b * p
      BY Powers
    <3>2. p >= 1 /\ (b >= 2 => p > k)
      BY <2>1
    <3> HIDE DEF p
    <3>3. b * p >= 1
      BY <3>1, <3>2, ProductPositive
    <3>4. ASSUME b >= 2
          PROVE  b * p > k + 1
      <4>1. 2 * p <= b * p
        BY <3>1, <3>2, <3>4, ProductUp
      <4> QED
        BY <3>1, <3>2, <3>4, <4>1
    <3> QED
      BY <3>1, <3>3, <3>4
  <2> QED
    BY <2>1
<1>3. \A k \in 0 .. n : k \in T
  <2> HIDE DEF T
  <2> QED
    BY <1>1, <1>2, InductionUpTo
<1> QED
  BY <1>3, Powers

\* Powers of one base multiply as their exponents add.
LEMMA PowerSum ==
  ASSUME NEW b \in Int, NEW m \in Nat, NEW n \in Nat
  PROVE  Power(b, m + n) = Power(b, m) * Power(b, n)
<1> DEFINE T == {k \in 0 .. n : Power(b, m + k) = Power(b, m) * Power(b, k)}
<1>1. 0 \in T
  <2>1. Power(b, m) \in Int /\ Power(b, 0) = 1
    BY Powers
  <2> QED
    BY <2>1
<1>2. \A k \in 0 .. n - 1 : k \in T => k + 1 \in T
  <2>1. ASSUME NEW k \in 0 .. n - 1, k \in T
        PROVE  k + 1 \in T
    <3> DEFINE p == Power(b, m)
               q == Power(b, k)
    <3>1. m + k \in Nat /\ m + (k + 1) = (m + k) + 1
      OBVIOUS
    <3>2. /\ p \in Int /\ q \in Int /\ Power(b, k + 1) = b * q
          /\ Power(b, m + (k + 1)) = b * Power(b, m + k)
      <4>1. p \in Int /\ q \in Int /\ Power(b, k + 1) = b * q
        BY Powers
      <4>2. Power(b, (m + k) + 1) = b * Power(b, m + k)
        BY <3>1, Powers
      <4> QED
        BY <3>1, <4>1, <4>2, Zenon
    <3>3. Power(b, m + k) = p * q
      BY <2>1
    <3> HIDE DEF p, q
    <3>4. b * (p * q) = p * (b * q)
      BY <3>2
    <3> QED
      BY <3>2, <3>3, <3>4 DEF p
  <2> QED
    BY <2>1
<1>3. \A k \in 0 .. n : k \in T
  <2> HIDE DEF T
  <2> QED
    BY <1>1, <1>2, InductionUpTo
<1> QED
  BY <1>3

-----------------------------------------------------------------------------
(***************************************************************************)
(* Reals.                                                                  *)
(***************************************************************************)
\* A real as it is written: NaN, or a number and an exponent.
IsReal(r) == r = NaN \/ \E m, e \in Int : r = <<m, e>>

Ten(n) == Power(10, n)

LEMMA TenPowers ==
  /\ Ten(0) = 1
  /\ \A n \in Nat : Ten(n) \in Int /\ Ten(n) >= 1
  /\ \A m, n \in Nat : Ten(m + n) = Ten(m) * Ten(n)
<1>1. 10 \in Int /\ 10 >= 1
  OBVIOUS
<1>2. Ten(0) = 1
  BY <1>1, Powers DEF Ten
<1>3. \A n \in Nat : Ten(n) \in Int /\ Ten(n) >= 1
  BY <1>1, PowerPositive DEF Ten
<1>4. \A m, n \in Nat : Ten(m + n) = Ten(m) * Ten(n)
  BY <1>1, PowerSum DEF Ten
<1> QED
  BY <1>2, <1>3, <1>4

\* Real takes zeros away from the end of a number, and from no other number any.
LEMMA RealOf ==
  ASSUME NEW m \in Int, NEW e \in Int
  PROVE  \/ m = 0 /\ Real(m, e) = <<0, 0>>
         \/ \E n \in Int, z \in 0 .. 9 : m # 0 /\ Real(m, e) = <<n, e + z>> /\ m = n * Ten(z)
<1> DEFINE zeros == {k \in 0 .. 9 : m % Power(10, k) = 0}
           z == Max(zeros)
<1>1. Real(m, e) = IF m = 0 THEN <<0, 0>> ELSE <<m \div Power(10, z), e + z>>
  BY DEF Real
<1>2. 0 \in zeros
  <2>1. Power(10, 0) = 1
    BY TenPowers DEF Ten
  <2>2. m % 1 = 0
    OBVIOUS
  <2> QED
    BY <2>1, <2>2
<1>3. z \in zeros
  <2>1. \E x \in zeros : \A y \in zeros : y <= x
    <3> DEFINE T == {9 - k : k \in zeros}
    <3>1. T \in SUBSET Nat /\ T # {}
      BY <1>2
    <3>2. PICK t \in T : \A u \in T : t <= u
      <4> HIDE DEF T
      <4> QED
        BY <3>1, LeastNumber
    <3>3. PICK x \in zeros : t = 9 - x
      BY <3>2
    <3>4. \A y \in zeros : 9 - x <= 9 - y
      BY <3>2, <3>3
    <3>5. \A y \in zeros : y \in Int
      OBVIOUS
    <3> HIDE DEF zeros, T
    <3> QED
      BY <3>3, <3>4, <3>5
  <2> HIDE DEF zeros
  <2> QED
    BY <2>1 DEF Max
<1>4. z \in 0 .. 9 /\ m % Power(10, z) = 0
  <2> HIDE DEF z
  <2> QED
    BY <1>3
<1> HIDE DEF zeros, z
<1>5. Ten(z) \in Int /\ Ten(z) >= 1 /\ Power(10, z) = Ten(z)
  <2>1. z \in Nat
    BY <1>4
  <2>2. Ten(z) \in Int /\ Ten(z) >= 1
    BY <2>1, TenPowers
  <2> QED
    BY <2>2 DEF Ten
<1> DEFINE t == Ten(z)
<1>6. m \div t \in Int /\ m = (m \div t) * t
  <2>1. m % t = 0
    BY <1>4, <1>5
  <2>2. t \in Int /\ t >= 1
    BY <1>5
  <2> HIDE DEF t
  <2>3. m \div t \in Int /\ m = t * (m \div t) + (m % t)
    BY <2>2
  <2>4. t * (m \div t) = (m \div t) * t
    BY <2>2, <2>3
  <2> QED
    BY <2>1, <2>2, <2>3, <2>4
<1>7. CASE m = 0
  BY <1>1, <1>7
<1>8. CASE m # 0
  <2>1. Real(m, e) = <<m \div t, e + z>>
    BY <1>1, <1>5, <1>8
  <2> QED
    BY <1>4, <1>6, <1>8, <2>1
<1> QED
  BY <1>7, <1>8

\* A number against a real: whether the real is not above it, or not below it.
NotOver(r, n) ==
    IF r[2] >= 0 THEN r[1] * Ten(r[2]) <= n ELSE r[1] <= n * Ten(-r[2])

NotUnder(r, n) ==
    IF r[2] >= 0 THEN n <= r[1] * Ten(r[2]) ELSE n * Ten(-r[2]) <= r[1]

\* A factor that both sides have.
LEMMA Cancelled ==
  ASSUME NEW a \in Int, NEW b \in Int, NEW c \in Int, c >= 1
  PROVE  a * c <= b * c <=> a <= b
<1>1. a <= b => a * c <= b * c
  BY ProductUp
<1>2. ASSUME b < a
      PROVE  b * c < a * c
  <2>1. (b + 1) * c <= a * c
    BY <1>2, ProductUp
  <2>2. (b + 1) * c = b * c + c
    OBVIOUS
  <2>3. b * c \in Int /\ a * c \in Int
    OBVIOUS
  <2> QED
    BY <2>1, <2>2, <2>3
<1>3. a * c \in Int /\ b * c \in Int
  OBVIOUS
<1> QED
  BY <1>1, <1>2, <1>3

\* Two reals of which the first has no fraction, scaled as the comparison does.
LEMMA ScaledOrder ==
  ASSUME NEW b \in Int, NEW z \in Nat, NEW a \in Int, NEW s \in Int
  PROVE  /\ Scaled(<<b, z>>, <<a, s>>) \in Int /\ Scaled(<<a, s>>, <<b, z>>) \in Int
         /\ Scaled(<<a, s>>, <<b, z>>) <= Scaled(<<b, z>>, <<a, s>>) <=> NotOver(<<a, s>>, b * Ten(z))
         /\ Scaled(<<b, z>>, <<a, s>>) <= Scaled(<<a, s>>, <<b, z>>) <=> NotUnder(<<a, s>>, b * Ten(z))
<1> DEFINE x == Scaled(<<b, z>>, <<a, s>>)
           y == Scaled(<<a, s>>, <<b, z>>)
<1>1. CASE s < 0
  <2>1. x = b * Ten(z - s) /\ y = a * Ten(s - s)
    BY <1>1 DEF Scaled, Ten
  <2>2. z - s = z + (-s) /\ s - s = 0 /\ -s \in Nat
    BY <1>1
  <2>3. Ten(z) \in Int /\ Ten(-s) \in Int /\ Ten(z - s) = Ten(z) * Ten(-s) /\ Ten(s - s) = 1
    BY <2>2, TenPowers
  <2> DEFINE t == Ten(z)
             u == Ten(-s)
  <2>4. t \in Int /\ u \in Int /\ x = b * (t * u) /\ y = a * 1
    BY <2>1, <2>3
  <2>5. /\ NotOver(<<a, s>>, b * t) <=> a <= (b * t) * u
        /\ NotUnder(<<a, s>>, b * t) <=> (b * t) * u <= a
    BY <1>1 DEF NotOver, NotUnder
  <2> HIDE DEF x, y, t, u
  <2>6. b * (t * u) = (b * t) * u /\ a * 1 = a /\ (b * t) * u \in Int
    BY <2>4
  <2>7. /\ x \in Int /\ y \in Int
        /\ y <= x <=> NotOver(<<a, s>>, b * t)
        /\ x <= y <=> NotUnder(<<a, s>>, b * t)
    BY <2>4, <2>5, <2>6
  <2> QED
    BY <2>7 DEF x, y, t
<1>2. CASE s >= 0
  <2> DEFINE l == IF z < s THEN z ELSE s
             p == Ten(l)
             t == Ten(z - l)
             u == Ten(s - l)
  <2>1. x = b * t /\ y = a * u
    <3>1. x = b * Ten(z - l) /\ y = a * Ten(s - (IF s < z THEN s ELSE z))
      BY DEF Scaled, Ten
    <3>2. l = IF s < z THEN s ELSE z
      BY <1>2
    <3> QED
      BY <3>1, <3>2
  <2>2. l \in Nat /\ z - l \in Nat /\ s - l \in Nat /\ z = (z - l) + l /\ s = (s - l) + l
    BY <1>2
  <2>3. /\ p \in Int /\ p >= 1 /\ t \in Int /\ u \in Int
        /\ Ten(z) = t * p /\ Ten(s) = u * p
    <3> HIDE DEF l
    <3>1. Ten((z - l) + l) = t * p /\ Ten((s - l) + l) = u * p
      BY <2>2, TenPowers
    <3>2. p \in Int /\ p >= 1 /\ t \in Int /\ u \in Int
      BY <2>2, TenPowers
    <3> QED
      BY <2>2, <3>1, <3>2
  <2>4. /\ NotOver(<<a, s>>, b * Ten(z)) <=> a * Ten(s) <= b * Ten(z)
        /\ NotUnder(<<a, s>>, b * Ten(z)) <=> b * Ten(z) <= a * Ten(s)
    BY <1>2 DEF NotOver, NotUnder
  <2> HIDE DEF x, y, l, p, t, u
  <2>5. a * (u * p) = (a * u) * p /\ b * (t * p) = (b * t) * p /\ a * u \in Int /\ b * t \in Int
    BY <2>3
  <2>6. /\ (a * u) * p <= (b * t) * p <=> a * u <= b * t
        /\ (b * t) * p <= (a * u) * p <=> b * t <= a * u
    BY <2>3, <2>5, Cancelled
  <2>7. /\ x \in Int /\ y \in Int
        /\ y <= x <=> NotOver(<<a, s>>, b * Ten(z))
        /\ x <= y <=> NotUnder(<<a, s>>, b * Ten(z))
    BY <2>1, <2>3, <2>4, <2>5, <2>6, Zenon
  <2> QED
    BY <2>7 DEF x, y
<1> QED
  BY <1>1, <1>2

\* A whole number is the real of the same value.
LEMMA RealOfWhole ==
  ASSUME NEW n \in Int
  PROVE  \E b \in Int, z \in 0 .. 9 : Real(n, 0) = <<b, z>> /\ b * Ten(z) = n
<1>1. 0 \in Int
  OBVIOUS
<1>2. \/ n = 0 /\ Real(n, 0) = <<0, 0>>
      \/ \E b \in Int, z \in 0 .. 9 : n # 0 /\ Real(n, 0) = <<b, 0 + z>> /\ n = b * Ten(z)
  BY <1>1, RealOf
<1>3. CASE n = 0 /\ Real(n, 0) = <<0, 0>>
  <2>1. 0 \in 0 .. 9 /\ 0 * Ten(0) = 0
    BY TenPowers
  <2> QED
    BY <1>1, <1>3, <2>1
<1>4. CASE \E b \in Int, z \in 0 .. 9 : n # 0 /\ Real(n, 0) = <<b, 0 + z>> /\ n = b * Ten(z)
  <2>1. PICK b \in Int, z \in 0 .. 9 : Real(n, 0) = <<b, 0 + z>> /\ n = b * Ten(z)
    BY <1>4
  <2>2. 0 + z = z
    OBVIOUS
  <2> QED
    BY <2>1, <2>2
<1> QED
  BY <1>2, <1>3, <1>4

\* The comparisons of a real with a whole number.
LEMMA ComparedWithWhole ==
  ASSUME NEW n \in Int, NEW a \in Int, NEW s \in Int
  PROVE  /\ s # 1000 => /\ ~RealLess(Real(n, 0), <<a, s>>) <=> NotOver(<<a, s>>, n)
                        /\ ~RealLess(<<a, s>>, Real(n, 0)) <=> NotUnder(<<a, s>>, n)
         /\ s = 1000 => /\ ~RealLess(Real(n, 0), <<a, s>>) => a <= 0
                        /\ ~RealLess(<<a, s>>, Real(n, 0)) <=> a >= 0
<1> DEFINE r == <<a, s>>
<1>1. PICK b \in Int, z \in 0 .. 9 : Real(n, 0) = <<b, z>> /\ b * Ten(z) = n
  BY RealOfWhole
<1> DEFINE w == <<b, z>>
<1>2. isfinite(w) /\ NaN \notin {r, w}
  BY DEF isfinite, NaN
<1>3. isfinite(r) <=> s # 1000
  BY DEF isfinite, NaN
<1>4. CASE s # 1000
  <2>1. /\ RealLess(w, r) <=> Scaled(w, r) < Scaled(r, w)
        /\ RealLess(r, w) <=> Scaled(r, w) < Scaled(w, r)
    <3> HIDE DEF w, r
    <3> QED
      BY <1>2, <1>3, <1>4 DEF RealLess
  <2>2. z \in Nat
    OBVIOUS
  <2>3. /\ Scaled(w, r) \in Int /\ Scaled(r, w) \in Int
        /\ Scaled(r, w) <= Scaled(w, r) <=> NotOver(r, n)
        /\ Scaled(w, r) <= Scaled(r, w) <=> NotUnder(r, n)
    BY <1>1, <2>2, ScaledOrder
  <2> HIDE DEF w, r
  <2>4. /\ ~RealLess(w, r) <=> NotOver(r, n)
        /\ ~RealLess(r, w) <=> NotUnder(r, n)
    BY <2>1, <2>3
  <2> QED
    BY <1>1, <1>4, <2>4 DEF w, r
<1>5. CASE s = 1000
  <2>1. w # r /\ r[1] = a
    BY <1>5
  <2>2. /\ RealLess(w, r) <=> a > 0
        /\ RealLess(r, w) <=> a < 0
    <3> HIDE DEF w, r
    <3>1. isfinite(w) /\ ~isfinite(r)
      BY <1>2, <1>3, <1>5
    <3>2. /\ RealLess(w, r) <=> w # r /\ ((~isfinite(w) /\ w[1] < 0) \/ (~isfinite(r) /\ r[1] > 0))
          /\ RealLess(r, w) <=> r # w /\ ((~isfinite(r) /\ r[1] < 0) \/ (~isfinite(w) /\ w[1] > 0))
      BY <1>2, <3>1, Zenon DEF RealLess
    <3> QED
      BY <2>1, <3>1, <3>2
  <2>3. /\ ~RealLess(w, r) => a <= 0
        /\ ~RealLess(r, w) <=> a >= 0
    BY <2>2
  <2> QED
    BY <1>1, <1>5, <2>3 DEF w, r
<1> QED
  BY <1>4, <1>5

\* The bits of a double are enough for a number of so many bits.
LEMMA DoubleExact ==
  ASSUME NEW n \in Int, Abs(n) < Power(2, MantissaBits)
  PROVE  AsDouble(n) = n
<1> DEFINE fits(k) == /\ Abs(n) < Power(2, MantissaBits + k)
                      /\ k > 0 => Abs(n) >= Power(2, MantissaBits + k - 1)
           k0 == CHOOSE k \in 0 .. 20 : fits(k)
           unit == Power(2, k0)
           q == Abs(n) \div unit
           twice == 2 * (Abs(n) % unit)
           nearest == IF twice > unit \/ (twice = unit /\ q % 2 = 1) THEN q + 1 ELSE q
<1>1. MantissaBits \in Nat /\ MantissaBits + 0 = MantissaBits
  BY JsonQueriesAssumption
<1>2. fits(0)
  BY <1>1
<1>3. ASSUME NEW k \in 0 .. 20, fits(k), k # 0
      PROVE  FALSE
  <2>1. k - 1 \in Nat /\ MantissaBits + k - 1 = MantissaBits + (k - 1) /\ 2 \in Int /\ 2 >= 1
    BY <1>1, <1>3
  <2>2. Abs(n) >= Power(2, MantissaBits + (k - 1))
    BY <1>3, <2>1
  <2> DEFINE p == Power(2, MantissaBits)
             u == Power(2, k - 1)
  <2>3. Power(2, MantissaBits + (k - 1)) = p * u
    BY <1>1, <2>1, PowerSum
  <2>4. p \in Int /\ u \in Int /\ p >= 1 /\ u >= 1
    BY <1>1, <2>1, PowerPositive
  <2>5. Abs(n) < p
    OBVIOUS
  <2>6. Abs(n) \in Int
    BY DEF Abs
  <2> HIDE DEF p, u
  <2>7. p <= p * u
    BY <2>4, ProductPositive
  <2>8. p * u \in Int
    BY <2>4
  <2>9. p * u <= Abs(n)
    <3>1. Abs(n) >= p * u
      BY <2>2, <2>3
    <3> QED
      BY <2>6, <2>8, <3>1
  <2> QED
    BY <2>4, <2>5, <2>6, <2>7, <2>8, <2>9
<1>4. k0 = 0
  <2>1. \E k \in 0 .. 20 : fits(k)
    BY <1>2
  <2>2. k0 \in 0 .. 20 /\ fits(k0)
    <3> HIDE DEF fits
    <3> QED
      BY <2>1
  <2> HIDE DEF k0
  <2> QED
    BY <1>3, <2>2
<1>5. AsDouble(n) = (IF n < 0 THEN -1 ELSE 1) * nearest * unit
  BY DEF AsDouble
<1> HIDE DEF k0
<1>6. unit = 1
  BY <1>4, Powers
<1> HIDE DEF unit
<1>7. Abs(n) \in Nat /\ Abs(n) \div 1 = Abs(n) /\ Abs(n) % 1 = 0
  BY DEF Abs
<1>8. q = Abs(n) /\ twice = 0
  BY <1>6, <1>7
<1> HIDE DEF q, twice
<1>9. nearest = Abs(n)
  BY <1>6, <1>8
<1> HIDE DEF nearest
<1>10. (IF n < 0 THEN -1 ELSE 1) * Abs(n) * 1 = n
  BY DEF Abs
<1> QED
  BY <1>5, <1>6, <1>9, <1>10

\* The limits of an int are doubles.
LEMMA LimitsExact ==
  /\ maxInt \in Nat /\ minInt \in Int /\ minInt < 0
  /\ AsDouble(minInt) = minInt /\ AsDouble(maxInt) = maxInt
  /\ AsDouble(0) = 0 /\ AsDouble(maxUInt) = maxUInt
<1>1. maxInt \in Nat /\ MantissaBits \in Nat
  BY JsonNumbersAssumption, JsonQueriesAssumption
<1>2. Power(2, MantissaBits) \in Int
  BY <1>1, Powers
<1>3. 2 * maxInt + 1 < Power(2, MantissaBits)
  BY JsonQueriesAssumption
<1>4. /\ minInt \in Int /\ minInt < 0 /\ maxUInt \in Int
      /\ Abs(minInt) < Power(2, MantissaBits) /\ Abs(maxInt) < Power(2, MantissaBits)
      /\ Abs(0) < Power(2, MantissaBits) /\ Abs(maxUInt) < Power(2, MantissaBits)
  BY <1>1, <1>2, <1>3 DEF minInt, maxUInt, Abs
<1> QED
  BY <1>1, <1>4, DoubleExact

\* A quotient against a number: what it is times the divisor is not above it.
LEMMA Quotient ==
  ASSUME NEW a \in Nat, NEW d \in Int, d >= 1
  PROVE  a \div d \in Nat /\ (a \div d) * d <= a
<1>1. a \div d \in Int /\ a % d \in 0 .. d - 1 /\ a = d * (a \div d) + (a % d)
  OBVIOUS
<1> DEFINE q == a \div d
           r == a % d
<1>2. q \in Int /\ r \in Int /\ r >= 0 /\ r < d /\ a = d * q + r
  BY <1>1
<1> HIDE DEF q, r
<1>3. q >= 0
  <2>1. ASSUME q <= -1
        PROVE  FALSE
    <3>1. q * d <= (-1) * d
      BY <1>2, <2>1, ProductUp
    <3>2. q * d = d * q /\ (-1) * d = -d /\ d * q \in Int
      BY <1>2
    <3> QED
      BY <1>2, <3>1, <3>2
  <2> QED
    BY <1>2, <2>1
<1>4. q * d = d * q /\ q * d \in Int
  BY <1>2
<1> QED
  BY <1>2, <1>3, <1>4 DEF q

\* A real that is between two whole numbers, a negative one and a positive one, is
\* when it is cut to a whole number.
LEMMA TruncatedBetween ==
  ASSUME NEW a \in Int, NEW s \in Int, NEW lo \in Int, NEW hi \in Int, lo <= 0, 0 <= hi,
         NotOver(<<a, s>>, hi), NotUnder(<<a, s>>, lo)
  PROVE  Truncated(<<a, s>>) \in lo .. hi
<1> DEFINE m == Abs(a)
           n == IF s >= 0 THEN m * Ten(s) ELSE m \div Ten(-s)
<1>1. Truncated(<<a, s>>) = IF a < 0 THEN -n ELSE n
  BY DEF Truncated, Ten
<1>2. m \in Nat /\ (a < 0 => m = -a) /\ (a >= 0 => m = a)
  BY DEF Abs
<1>3. CASE s >= 0
  <2> DEFINE t == Ten(s)
  <2>1. t \in Int /\ t >= 1 /\ n = m * t
    BY <1>3, TenPowers
  <2>2. a * t <= hi /\ lo <= a * t
    BY <1>3 DEF NotOver, NotUnder
  <2> HIDE DEF n, m, t
  <2>3. (-a) * t = -(a * t) /\ a * t \in Int
    BY <2>1
  <2>4. (IF a < 0 THEN -n ELSE n) = a * t
    <3>1. CASE a < 0
      <4>1. n = -(a * t)
        BY <1>2, <2>1, <2>3, <3>1
      <4> QED
        BY <2>3, <3>1, <4>1
    <3>2. CASE a >= 0
      BY <1>2, <2>1, <3>2
    <3> QED
      BY <3>1, <3>2
  <2> QED
    BY <1>1, <2>2, <2>3, <2>4
<1>4. CASE s < 0
  <2> DEFINE t == Ten(-s)
  <2>1. t \in Int /\ t >= 1 /\ n = m \div t
    <3>1. -s \in Nat
      BY <1>4
    <3>2. t \in Int /\ t >= 1
      BY <3>1, TenPowers
    <3>3. n = m \div t
      <4>1. ~(s >= 0)
        BY <1>4
      <4> QED
        BY <4>1, Zenon
    <3> QED
      BY <3>2, <3>3, Zenon
  <2>2. a <= hi * t /\ lo * t <= a
    BY <1>4 DEF NotOver, NotUnder
  <2>3. n \in Nat /\ n * t <= m
    <3> HIDE DEF m, t
    <3>1. m \div t \in Nat /\ (m \div t) * t <= m
      BY <1>2, <2>1, Quotient
    <3> QED
      BY <2>1, <3>1
  <2> HIDE DEF n, m, t
  <2>4. CASE a < 0
    <3>1. n * t <= (-lo) * t
      <4>1. (-lo) * t = -(lo * t) /\ lo * t \in Int /\ n * t \in Int
        BY <2>1, <2>3
      <4> QED
        BY <1>2, <2>2, <2>3, <2>4, <4>1
    <3>2. n <= -lo
      <4>1. -lo \in Int
        OBVIOUS
      <4> QED
        BY <2>1, <2>3, <3>1, <4>1, Cancelled
    <3> QED
      BY <1>1, <2>3, <2>4, <3>2
  <2>5. CASE a >= 0
    <3>1. n * t <= hi * t
      <4>1. hi * t \in Int /\ n * t \in Int
        BY <2>1, <2>3
      <4> QED
        BY <1>2, <2>2, <2>3, <2>5, <4>1
    <3>2. n <= hi
      BY <2>1, <2>3, <3>1, Cancelled
    <3> QED
      BY <1>1, <2>3, <2>5, <3>2
  <2> QED
    BY <2>4, <2>5
<1> QED
  BY <1>3, <1>4

\* What is cut is not above a real that is not negative.
LEMMA TruncatedBelow ==
  ASSUME NEW a \in Int, NEW s \in Int, Truncated(<<a, s>>) > 0
  PROVE  a > 0 /\ Truncated(<<a, s>>) \in Int /\ NotUnder(<<a, s>>, Truncated(<<a, s>>))
<1> DEFINE m == Abs(a)
           n == IF s >= 0 THEN m * Ten(s) ELSE m \div Ten(-s)
<1>1. Truncated(<<a, s>>) = IF a < 0 THEN -n ELSE n
  BY DEF Truncated, Ten
<1>2. m \in Nat /\ (a < 0 => m = -a) /\ (a >= 0 => m = a)
  BY DEF Abs
<1>3. CASE s >= 0
  <2> DEFINE t == Ten(s)
  <2>1. t \in Int /\ t >= 1 /\ n = m * t
    BY <1>3, TenPowers
  <2>2. NotUnder(<<a, s>>, n) <=> n <= a * t
    BY <1>3 DEF NotUnder
  <2> HIDE DEF n, m, t
  <2>3. n \in Int /\ n >= 0
    <3>1. 0 * t <= m * t
      BY <1>2, <2>1, ProductUp
    <3> QED
      BY <1>2, <2>1, <3>1
  <2>4. a >= 0 /\ n > 0
    BY <1>1, <2>3
  <2>5. n = a * t /\ a # 0
    BY <1>2, <2>1, <2>4
  <2> QED
    BY <1>1, <2>2, <2>3, <2>4, <2>5
<1>4. CASE s < 0
  <2> DEFINE t == Ten(-s)
  <2>1. t \in Int /\ t >= 1 /\ n = m \div t
    <3>1. -s \in Nat
      BY <1>4
    <3>2. t \in Int /\ t >= 1
      BY <3>1, TenPowers
    <3>3. n = m \div t
      <4>1. ~(s >= 0)
        BY <1>4
      <4> QED
        BY <4>1, Zenon
    <3> QED
      BY <3>2, <3>3, Zenon
  <2>2. NotUnder(<<a, s>>, n) <=> n * t <= a
    BY <1>4 DEF NotUnder
  <2>3. n \in Nat /\ n * t <= m
    <3> HIDE DEF m, t
    <3>1. m \div t \in Nat /\ (m \div t) * t <= m
      BY <1>2, <2>1, Quotient
    <3> QED
      BY <2>1, <3>1
  <2> HIDE DEF n, m, t
  <2>4. a >= 0 /\ n > 0
    BY <1>1, <2>3
  <2>5. 0 < n * t
    BY <2>1, <2>3, <2>4, ProductPositive
  <2>6. n * t \in Int
    BY <2>1, <2>3
  <2> QED
    BY <1>1, <1>2, <2>2, <2>3, <2>4, <2>5, <2>6
<1> QED
  BY <1>3, <1>4

\* What is within a range that doubles have the limits of stays there when it is cut.
LEMMA WithinRange ==
  ASSUME NEW r, IsReal(r), NEW lo \in Int, NEW hi \in Int, lo <= 0, 0 <= hi,
         AsDouble(lo) = lo, AsDouble(hi) = hi, InRange(r, lo, hi)
  PROVE  Truncated(r) \in lo .. hi
<1>1. /\ r # NaN
      /\ ~RealLess(r, Real(lo, 0)) /\ ~RealLess(Real(hi, 0), r)
  BY DEF InRange, AtLeast, AtMost
<1>2. PICK a, s \in Int : r = <<a, s>>
  BY <1>1 DEF IsReal
<1>3. CASE s # 1000
  <2>1. NotOver(<<a, s>>, hi) /\ NotUnder(<<a, s>>, lo)
    BY <1>1, <1>2, <1>3, ComparedWithWhole
  <2> QED
    BY <1>2, <2>1, TruncatedBetween
<1>4. CASE s = 1000
  <2>1. a <= 0 /\ a >= 0
    BY <1>1, <1>2, <1>4, ComparedWithWhole
  <2>2. NotOver(<<0, 1000>>, hi) /\ NotUnder(<<0, 1000>>, lo)
    <3>1. Ten(1000) \in Int /\ 0 * Ten(1000) = 0
      <4>1. 1000 \in Nat
        OBVIOUS
      <4> DEFINE t == Ten(1000)
      <4>2. t \in Int
        BY <4>1, TenPowers
      <4> HIDE DEF t
      <4>3. 0 * t = 0
        BY <4>2
      <4> QED
        BY <4>2, <4>3, Zenon DEF t
    <3> QED
      BY <3>1 DEF NotOver, NotUnder
  <2>3. a = 0
    BY <2>1
  <2>4. Truncated(<<0, 1000>>) \in lo .. hi
    <3>1. 0 \in Int /\ 1000 \in Int
      OBVIOUS
    <3> QED
      BY <2>2, <3>1, TruncatedBetween
  <2> QED
    BY <1>2, <1>4, <2>3, <2>4
<1> QED
  BY <1>3, <1>4

\* A whole number stays what it is, and is in a range just when it is.
LEMMA WholeNumber ==
  ASSUME NEW n \in Int, NEW lo \in Int, NEW hi \in Int, lo <= 0, 0 <= hi,
         AsDouble(lo) = lo, AsDouble(hi) = hi
  PROVE  /\ Truncated(Real(n, 0)) = n
         /\ InRange(Real(n, 0), lo, hi) <=> lo <= n /\ n <= hi
<1>1. PICK b \in Int, z \in 0 .. 9 : Real(n, 0) = <<b, z>> /\ b * Ten(z) = n
  BY RealOfWhole
<1>2. z \in Int /\ z # 1000 /\ z >= 0
  OBVIOUS
<1>3. \A k \in Int : /\ NotOver(<<b, z>>, k) <=> n <= k
                     /\ NotUnder(<<b, z>>, k) <=> k <= n
  BY <1>1 DEF NotOver, NotUnder
<1>4. Truncated(<<b, z>>) = n
  <2>1. IF b < 0 THEN -(Abs(b) * Ten(z)) = n ELSE Abs(b) * Ten(z) = n
    <3>1. Ten(z) \in Int
      BY <1>2, TenPowers
    <3>2. (-b) * Ten(z) = -(b * Ten(z))
      BY <3>1
    <3> QED
      BY <1>1, <3>1, <3>2 DEF Abs
  <2> QED
    BY <2>1 DEF Truncated, Ten
<1>5. /\ ~RealLess(Real(hi, 0), <<b, z>>) <=> n <= hi
      /\ ~RealLess(<<b, z>>, Real(lo, 0)) <=> lo <= n
  BY <1>2, <1>3, ComparedWithWhole
<1>6. <<b, z>> # NaN
  BY DEF NaN
<1>7. InRange(<<b, z>>, lo, hi) <=> lo <= n /\ n <= hi
  BY <1>5, <1>6, Zenon DEF InRange, AtLeast, AtMost
<1> QED
  BY <1>1, <1>4, <1>7

\* A float becomes an int, and a whole number itself, if it fits.
LEMMA FloatToIntBounds ==
  ASSUME NEW r, IsReal(r)
  PROVE  FloatToInt(r) \in minInt .. maxInt
<1>1. InRange(r, minInt, maxInt) => Truncated(r) \in minInt .. maxInt
  BY LimitsExact, WithinRange
<1> QED
  BY <1>1, LimitsExact DEF FloatToInt

\* A whole number that fits is the int it becomes; another one becomes the least int.
LEMMA FloatToIntOfWhole ==
  ASSUME NEW n \in Int
  PROVE  FloatToInt(Real(n, 0)) = IF minInt <= n /\ n <= maxInt THEN n ELSE minInt
<1>1. /\ Truncated(Real(n, 0)) = n
      /\ InRange(Real(n, 0), minInt, maxInt) <=> minInt <= n /\ n <= maxInt
  BY LimitsExact, WholeNumber
<1> QED
  BY <1>1 DEF FloatToInt

\* Whatever has a number and an exponent is a real.
LEMMA RealIsReal ==
  ASSUME NEW m \in Int, NEW e \in Int
  PROVE  IsReal(Real(m, e))
<1>1. CASE m = 0 /\ Real(m, e) = <<0, 0>>
  <2>1. 0 \in Int
    OBVIOUS
  <2> QED
    BY <1>1, <2>1 DEF IsReal
<1>2. CASE \E n \in Int, z \in 0 .. 9 : m # 0 /\ Real(m, e) = <<n, e + z>> /\ m = n * Ten(z)
  <2>1. PICK n \in Int, z \in 0 .. 9 : Real(m, e) = <<n, e + z>>
    BY <1>2
  <2>2. e + z \in Int
    OBVIOUS
  <2> QED
    BY <2>1, <2>2 DEF IsReal
<1> QED
  BY <1>1, <1>2, RealOf

\* A real that reaches a whole number still does in the form without zeros at the end.
LEMMA RealReaches ==
  ASSUME NEW m \in Int, NEW e \in Int, m > 0, NEW n \in Int, NotUnder(<<m, e>>, n)
  PROVE  ~RealLess(Real(m, e), Real(n, 0))
<1>0. m # 0
  OBVIOUS
<1>1. PICK b \in Int, z \in 0 .. 9 : Real(m, e) = <<b, e + z>> /\ m = b * Ten(z)
  <2>1. \/ m = 0 /\ Real(m, e) = <<0, 0>>
        \/ \E b \in Int, z \in 0 .. 9 : m # 0 /\ Real(m, e) = <<b, e + z>> /\ m = b * Ten(z)
    BY RealOf
  <2> QED
    BY <1>0, <2>1, Zenon
<1>2. z \in Nat /\ Ten(z) \in Int /\ Ten(z) >= 1
  <2>1. z \in Nat
    OBVIOUS
  <2> QED
    BY <2>1, TenPowers
<1>3. b > 0
  <2> DEFINE t == Ten(z)
  <2>1. t \in Int /\ t >= 1 /\ b * t = m
    BY <1>1, <1>2
  <2> HIDE DEF t
  <2>2. ASSUME b <= 0
        PROVE  b * t <= 0
    <3>1. b * t <= 0 * t /\ 0 * t = 0
      BY <2>1, <2>2
    <3> QED
      BY <3>1
  <2> QED
    BY <2>1, <2>2
<1>4. NotUnder(<<b, e + z>>, n)
  <2>1. CASE e >= 0
    <3> DEFINE t == Ten(z)
               u == Ten(e)
    <3>1. e \in Nat /\ t \in Int /\ u \in Int /\ Ten(e + z) = u * t
      BY <1>2, <2>1, TenPowers
    <3>2. n <= m * u
      BY <2>1 DEF NotUnder
    <3>3. e + z >= 0 /\ e + z \in Int
      BY <1>2, <2>1
    <3> HIDE DEF t, u
    <3>4. m * u = b * (u * t)
      <4>1. m = b * t
        BY <1>1 DEF t
      <4>2. (b * t) * u = b * (u * t)
        BY <3>1
      <4> QED
        BY <4>1, <4>2
    <3>5. n <= b * Ten(e + z)
      BY <3>1, <3>2, <3>4
    <3> QED
      BY <3>3, <3>5 DEF NotUnder
  <2>2. CASE e < 0 /\ e + z >= 0
    <3> DEFINE t == Ten(-e)
               u == Ten(e + z)
    <3>1. /\ -e \in Nat /\ e + z \in Nat /\ (-e) + (e + z) = z
      BY <1>2, <2>2
    <3>2. t \in Int /\ t >= 1 /\ u \in Int /\ Ten(z) = t * u
      BY <3>1, TenPowers
    <3>3. n * t <= m
      BY <2>2 DEF NotUnder
    <3> HIDE DEF t, u
    <3>4. m = (b * u) * t /\ b * u \in Int
      <4>1. b * (t * u) = (b * u) * t
        BY <3>2
      <4> QED
        BY <1>1, <3>2, <4>1
    <3>5. n <= b * u
      BY <3>2, <3>3, <3>4, Cancelled
    <3>6. e + z >= 0 /\ e + z \in Int
      BY <2>2
    <3> QED
      BY <3>5, <3>6 DEF NotUnder, u
  <2>3. CASE e + z < 0
    <3> DEFINE t == Ten(z)
               u == Ten(-(e + z))
    <3>1. -(e + z) \in Nat /\ -(e + z) + z = -e /\ e < 0
      BY <1>2, <2>3
    <3>2. t \in Int /\ t >= 1 /\ u \in Int /\ Ten(-e) = u * t
      BY <1>2, <3>1, TenPowers
    <3>3. n * Ten(-e) <= m
      BY <3>1 DEF NotUnder
    <3> HIDE DEF t, u
    <3>4. (n * u) * t <= b * t
      <4>1. n * (u * t) = (n * u) * t
        BY <3>2
      <4>2. m = b * t
        BY <1>1 DEF t
      <4> QED
        BY <3>2, <3>3, <4>1, <4>2
    <3>5. n * u <= b
      <4>1. n * u \in Int
        BY <3>2
      <4> QED
        BY <3>2, <3>4, <4>1, Cancelled
    <3>6. ~(e + z >= 0)
      BY <2>3
    <3> QED
      BY <3>5, <3>6 DEF NotUnder, u
  <2> QED
    BY <1>2, <2>1, <2>2, <2>3
<1>5. e + z \in Int /\ b >= 0
  BY <1>3
<1>6. ~RealLess(<<b, e + z>>, Real(n, 0))
  BY <1>4, <1>5, ComparedWithWhole
<1> QED
  BY <1>1, <1>6

\* What is granted: as often as a whole number below a real, the real as often.
LEMMA Granted ==
  ASSUME NEW a \in Int, NEW s \in Int, a > 0, NEW n \in Int, NotUnder(<<a, s>>, n),
         NEW k \in Nat, k > 0, NEW had \in Int, had <= k * n
  PROVE  ~RealLess(Real(k * a, s), Real(had, 0))
<1>1. k * a \in Int /\ k * a > 0
  BY ProductPositive
<1>2. NotUnder(<<k * a, s>>, had)
  <2>1. CASE s >= 0
    <3> DEFINE t == Ten(s)
    <3>1. t \in Int
      BY <2>1, TenPowers
    <3>2. n <= a * t
      BY <2>1 DEF NotUnder
    <3> HIDE DEF t
    <3>3. k * n <= k * (a * t) /\ k * (a * t) = (k * a) * t
      <4>1. a * t \in Int
        BY <3>1
      <4>2. k * (a * t) = (k * a) * t
        BY <3>1
      <4> QED
        BY <3>2, <4>1, <4>2, ProductUp
    <3>4. had <= (k * a) * t
      <4>1. k * n \in Int /\ (k * a) * t \in Int
        BY <1>1, <3>1
      <4> QED
        BY <3>3, <4>1
    <3> QED
      BY <2>1, <3>4 DEF NotUnder, t
  <2>2. CASE s < 0
    <3> DEFINE t == Ten(-s)
    <3>1. t \in Int /\ t >= 1
      <4>1. -s \in Nat
        BY <2>2
      <4> QED
        BY <4>1, TenPowers
    <3>2. n * t <= a
      BY <2>2 DEF NotUnder
    <3> HIDE DEF t
    <3>3. n * t \in Int /\ k * n \in Int /\ (k * n) * t = k * (n * t)
      BY <3>1
    <3>4. k * (n * t) <= k * a
      BY <3>2, <3>3, ProductUp
    <3>5. had * t <= (k * n) * t
      BY <3>1, <3>3, ProductUp
    <3>6. had * t <= k * a
      <4>1. had * t \in Int /\ k * (n * t) \in Int
        BY <3>1, <3>3
      <4> QED
        BY <1>1, <3>3, <3>4, <3>5, <4>1
    <3>7. ~(s >= 0)
      BY <2>2
    <3> QED
      BY <3>6, <3>7 DEF NotUnder, t
  <2> QED
    BY <2>1, <2>2
<1> QED
  BY <1>1, <1>2, RealReaches

-----------------------------------------------------------------------------
(***************************************************************************)
(* Texts.                                                                  *)
(***************************************************************************)
\* The length of a sequence, and where it has elements.
LEMMA SeqLength ==
  ASSUME NEW s, IsSeq(s)
  PROVE  Len(s) \in Nat /\ DOMAIN s = 1 .. Len(s)
BY LenProperties DEF IsSeq

\* A function of the first numbers is a sequence.
LEMMA FunctionIsSeq ==
  ASSUME NEW n \in Nat, NEW S, NEW f \in [1 .. n -> S]
  PROVE  f \in Seq(S) /\ Len(f) = n
OBVIOUS

\* Two sequences are one behind the other.
LEMMA Joined ==
  ASSUME NEW s, NEW t, IsSeq(s), IsSeq(t)
  PROVE  IsSeq(s \o t)
<1>1. PICK S : s \in Seq(S)
  BY DEF IsSeq
<1>2. PICK T : t \in Seq(T)
  BY DEF IsSeq
<1>3. S \subseteq S \cup T /\ T \subseteq S \cup T
  OBVIOUS
<1>4. s \in Seq(S \cup T)
  BY ONLY <1>1, <1>3, SeqMonotonic
<1>5. t \in Seq(S \cup T)
  BY ONLY <1>2, <1>3, SeqMonotonic
<1>6. s \o t \in Seq(S \cup T)
  BY ONLY <1>4, <1>5, ConcatProperties
<1> QED
  BY <1>6 DEF IsSeq

\* A piece of a sequence, wherever it begins and ends.
LEMMA Piece ==
  ASSUME NEW s, IsSeq(s), NEW m \in Int, NEW n \in Int, m >= 1, n <= Len(s)
  PROVE  IsSeq(SubSeq(s, m, n))
<1>1. PICK S : s \in Seq(S)
  BY DEF IsSeq
<1>2. \A i \in m .. n : s[i] \in S
  <2>1. Len(s) \in Nat
    BY SeqLength
  <2>2. \A i \in m .. n : i \in 1 .. Len(s)
    BY <2>1
  <2> QED
    BY <1>1, <2>2, ElementOfSeq
<1>3. SubSeq(s, m, n) \in Seq(S)
  BY ONLY <1>2, m \in Int, n \in Int, SubSeqProperties
<1> QED
  BY <1>3 DEF IsSeq

\* The codes of characters are numbers.
LEMMA CodeIsNumber ==
  ASSUME NEW n \in DOMAIN Ascii
  PROVE  C(Ascii[n]) \in Int
<1> DEFINE c == Ascii[n]
<1>1. DOMAIN Ascii = 1 .. Len(Ascii) /\ Len(Ascii) \in Nat
  BY DEF Ascii
<1>2. c \in ToSet(Ascii)
  BY DEF ToSet
<1> DEFINE i == CHOOSE j \in DOMAIN Ascii : Ascii[j] = c
<1>3. i \in DOMAIN Ascii
  OBVIOUS
<1>4. CodeOf[c] = 31 + i
  <2> HIDE DEF c
  <2> QED
    BY <1>2 DEF CodeOf
<1> HIDE DEF i
<1>5. i \in Int
  BY <1>1, <1>3
<1> QED
  BY <1>4, <1>5 DEF C

\* So are those of the digits.
LEMMA CodeOfDigits == C("0") \in Int /\ C("9") \in Int
<1>1. Ascii[17] = "0" /\ Ascii[26] = "9" /\ 17 \in DOMAIN Ascii /\ 26 \in DOMAIN Ascii
  BY DEF Ascii
<1>2. C(Ascii[17]) \in Int /\ C(Ascii[26]) \in Int
  BY <1>1, CodeIsNumber
<1> QED
  BY <1>1, <1>2

\* The number that digits denote is one.
LEMMA NumberIsInt ==
  ASSUME NEW digits \in Seq(Int)
  PROVE  Number(digits) \in Int
<1> DEFINE n == Len(digits)
           z == C("0")
           body(g) == [i \in 0 .. n |-> IF i = 0 THEN 0 ELSE 10 * g[i - 1] + digits[i] - z]
           upto == CHOOSE g : g = body(g)
           step == [x \in (1 .. n) \X Int |-> 10 * x[2] + digits[x[1]] - z]
<1>0. n \in Nat /\ z \in Int /\ \A i \in 1 .. n : digits[i] \in Int
  BY CodeOfDigits
<1> HIDE DEF n, z
<1>1. step \in Steps(n, Int)
  <2>1. ASSUME NEW x \in (1 .. n) \X Int
        PROVE  10 * x[2] + digits[x[1]] - z \in Int
    <3>1. x[1] \in 1 .. n /\ x[2] \in Int
      OBVIOUS
    <3>2. digits[x[1]] \in Int
      BY <1>0, <3>1
    <3> QED
      BY <1>0, <3>1, <3>2
  <2> QED
    BY <2>1 DEF Steps
<1>2. PICK f : f \in Recursive(n, Int, 0, step)
  <2> HIDE DEF step
  <2>1. 0 \in Int
    OBVIOUS
  <2> QED
    BY <1>0, <1>1, <2>1, Recursion
<1>3. f \in [0 .. n -> Int] /\ f[0] = 0 /\ \A i \in 1 .. n : f[i] = step[<<i, f[i - 1]>>]
  BY <1>2 DEF Recursive
<1>4. \A i \in 1 .. n : f[i] = 10 * f[i - 1] + digits[i] - z
  <2>1. ASSUME NEW i \in 1 .. n
        PROVE  f[i] = 10 * f[i - 1] + digits[i] - z
    <3>1. i - 1 \in 0 .. n
      BY <1>0
    <3>2. f[i - 1] \in Int
      BY <1>3, <3>1
    <3>3. <<i, f[i - 1]>> \in (1 .. n) \X Int
      BY <3>2
    <3> QED
      BY <1>3, <3>2, <3>3
  <2> QED
    BY <2>1
<1>5. f = body(f)
  <2>1. \A k \in 0 .. n : f[k] = IF k = 0 THEN 0 ELSE 10 * f[k - 1] + digits[k] - z
    BY <1>0, <1>3, <1>4
  <2> QED
    BY <1>3, <2>1
<1>6. upto = body(upto)
  <2> HIDE DEF body
  <2> QED
    BY <1>5
<1>7. \A k \in 0 .. n : upto[k] = IF k = 0 THEN 0 ELSE 10 * upto[k - 1] + digits[k] - z
  BY <1>6
<1>8. Number(digits) = upto[n]
  BY DEF Number, n, z
<1> HIDE DEF upto
<1> DEFINE T == {k \in 0 .. n : upto[k] \in Int}
<1>9. 0 \in T
  BY <1>0, <1>7
<1>10. \A k \in 0 .. n - 1 : k \in T => k + 1 \in T
  <2>1. ASSUME NEW k \in 0 .. n - 1, k \in T
        PROVE  k + 1 \in T
    <3>1. k + 1 \in 0 .. n /\ k + 1 \in 1 .. n /\ (k + 1) - 1 = k /\ k + 1 # 0
      BY <1>0
    <3>2. upto[k + 1] = 10 * upto[k] + digits[k + 1] - z
      BY <1>7, <3>1
    <3>3. upto[k] \in Int /\ digits[k + 1] \in Int
      BY <1>0, <2>1, <3>1
    <3> QED
      BY <1>0, <3>1, <3>2, <3>3
  <2> QED
    BY <2>1
<1>11. \A k \in 0 .. n : k \in T
  <2> HIDE DEF T
  <2> QED
    BY <1>0, <1>9, <1>10, InductionUpTo
<1> QED
  BY <1>0, <1>8, <1>11

\* The run of digits that begins somewhere in a text.
LEMMA RunOfDigits ==
  ASSUME NEW text, IsSeq(text), NEW from \in 0 .. Len(text), NEW S
  PROVE  /\ Span(text, from, S) \in from .. Len(text)
         /\ \A p \in from .. Span(text, from, S) - 1 : text[p + 1] \in S
<1> DEFINE stops == {p \in from .. Len(text) - 1 : text[p + 1] \notin S}
<1>1. Len(text) \in Nat
  BY SeqLength
<1>2. stops \in SUBSET Nat /\ stops \subseteq from .. Len(text)
  BY <1>1
<1>3. Span(text, from, S) = IF stops = {} THEN Len(text) ELSE Min(stops)
  BY DEF Span
<1>4. CASE stops = {}
  <2>1. \A p \in from .. Len(text) - 1 : text[p + 1] \in S
    BY <1>4
  <2> QED
    BY <1>1, <1>3, <1>4, <2>1
<1>5. CASE stops # {}
  <2>1. PICK n \in stops : \A m \in stops : n <= m
    <3> HIDE DEF stops
    <3> QED
      BY <1>2, <1>5, LeastNumber
  <2>2. \A k : k \in stops /\ (\A m \in stops : k <= m) => k = n
    <3>1. \A k \in stops : k \in Int
      BY <1>2
    <3> HIDE DEF stops
    <3> QED
      BY <2>1, <3>1
  <2>3. Min(stops) = n
    <3> HIDE DEF stops
    <3> QED
      BY <2>1, <2>2 DEF Min
  <2>4. n \in from .. Len(text)
    BY <1>2
  <2>5. \A p \in from .. n - 1 : text[p + 1] \in S
    <3>1. ASSUME NEW p \in from .. n - 1, text[p + 1] \notin S
          PROVE  FALSE
      <4>1. p \in from .. Len(text) - 1 /\ p < n
        BY <1>1, <2>4
      <4>2. p \in stops
        BY <3>1, <4>1
      <4> HIDE DEF stops
      <4>3. n <= p
        BY <2>1, <4>2
      <4> QED
        BY <2>4, <4>1, <4>3
    <3> QED
      BY <3>1
  <2> HIDE DEF stops
  <2> QED
    BY <1>3, <1>5, <2>3, <2>4, <2>5
<1> QED
  BY <1>4, <1>5

\* The digits that a number has in a text are numbers, none or more of them.
LEMMA RunIsNumbers ==
  ASSUME NEW text, IsSeq(text), NEW from \in 0 .. Len(text)
  PROVE  /\ Slice(text, from, Span(text, from, Digits)) \in Seq(Int)
         /\ Span(text, from, Digits) \in from .. Len(text)
<1> DEFINE to == Span(text, from, Digits)
<1>1. Len(text) \in Nat
  BY SeqLength
<1>2. /\ to \in from .. Len(text)
      /\ \A p \in from .. to - 1 : text[p + 1] \in Digits
  BY RunOfDigits
<1>3. Digits \subseteq Int
  BY CodeOfDigits DEF Digits
<1> HIDE DEF to
<1>4. to \in Int /\ from + 1 \in Int
  BY <1>1, <1>2
<1>5. \A i \in from + 1 .. to : text[i] \in Int
  <2>1. ASSUME NEW i \in from + 1 .. to
        PROVE  text[i] \in Int
    <3>1. i - 1 \in from .. to - 1 /\ (i - 1) + 1 = i
      BY <1>4
    <3>2. text[(i - 1) + 1] \in Digits
      BY <1>2, <3>1
    <3> QED
      BY <1>3, <3>1, <3>2
  <2> QED
    BY <2>1
<1>6. SubSeq(text, from + 1, to) \in Seq(Int)
  BY ONLY <1>4, <1>5, SubSeqProperties
<1> QED
  BY <1>2, <1>6 DEF Slice, to

\* The larger of two numbers, and the smaller one.
LEMMA LargerOfTwo ==
  ASSUME NEW a \in Int, NEW b \in Int
  PROVE  Max({a, b}) = IF a >= b THEN a ELSE b
BY DEF Max

LEMMA SmallerOfTwo ==
  ASSUME NEW a \in Int, NEW b \in Int
  PROVE  Min({a, b}) = IF a <= b THEN a ELSE b
BY DEF Min

\* Where a sign is, there is something behind which the digits may begin.
LEMMA BehindSign ==
  ASSUME NEW text, IsSeq(text), NEW at \in 0 .. Len(text), NEW sign \in BOOLEAN,
         sign => at < Len(text)
  PROVE  (IF sign THEN at + 1 ELSE at) \in 0 .. Len(text)
<1>1. Len(text) \in Nat
  BY SeqLength
<1> QED
  BY <1>1

\* Whatever is read as an int is a number.
LEMMA ReadIntIsInt ==
  ASSUME NEW text, IsSeq(text)
  PROVE  ReadInt(text) \in Int
<1> DEFINE start  == Span(text, 0, {C(" "), Tab, LF, CR})
           minus  == HasAt(text, start, C("-"))
           sign   == minus \/ HasAt(text, start, C("+"))
           from   == IF sign THEN start + 1 ELSE start
           number == Number(Slice(text, from, Span(text, from, Digits)))
<1>1. ReadInt(text) = CASE minus  -> Max({-number, minInt})
                        [] ~minus -> Min({number, maxInt})
  BY DEF ReadInt
<1>2. Len(text) \in Nat /\ 0 \in 0 .. Len(text)
  BY SeqLength
<1>3. start \in 0 .. Len(text)
  BY <1>2, RunOfDigits
<1>4. sign \in BOOLEAN /\ minus \in BOOLEAN /\ (sign => start < Len(text))
  BY DEF HasAt
<1> HIDE DEF start, minus, sign
<1>5. from \in 0 .. Len(text)
  BY <1>3, <1>4, BehindSign
<1> HIDE DEF from
<1>6. number \in Int
  BY <1>5, RunIsNumbers, NumberIsInt
<1> HIDE DEF number
<1>7. maxInt \in Int /\ minInt \in Int /\ -number \in Int
  BY <1>6, LimitsExact
<1>8. Max({-number, minInt}) \in Int /\ Min({number, maxInt}) \in Int
  BY <1>6, <1>7, LargerOfTwo, SmallerOfTwo
<1> QED
  BY <1>1, <1>4, <1>8

\* Whatever is read as a float is a real.
LEMMA ReadFloatIsReal ==
  ASSUME NEW text, IsSeq(text)
  PROVE  \E m, e \in Int : ReadFloat(text) = Real(m, e)
<1> DEFINE start == Span(text, 0, {C(" "), Tab, LF, CR})
           minus == HasAt(text, start, C("-"))
           from  == IF minus THEN start + 1 ELSE start
           point == Span(text, from, Digits)
           dot   == HasAt(text, point, C("."))
           end   == IF dot THEN Span(text, point + 1, Digits) ELSE point
           whole == Slice(text, from, point)
           part  == Slice(text, point + 1, end)
           exponent == HasAt(text, end, C("e"))
           power == IF exponent THEN ReadInt(Slice(text, end + 1, Len(text))) ELSE 0
           number == Number(whole \o part)
<1>1. ReadFloat(text) = Real(IF minus THEN -number ELSE number, power - Len(part))
  BY DEF ReadFloat
<1>2. Len(text) \in Nat /\ 0 \in 0 .. Len(text)
  BY SeqLength
<1>3. start \in 0 .. Len(text)
  BY <1>2, RunOfDigits
<1>4. /\ minus \in BOOLEAN /\ (minus => start < Len(text))
      /\ dot \in BOOLEAN /\ (dot => point < Len(text))
  BY DEF HasAt
<1> HIDE DEF start, minus, dot, exponent
<1>5. from \in 0 .. Len(text)
  BY <1>3, <1>4, BehindSign
<1> HIDE DEF from
<1>6. whole \in Seq(Int) /\ point \in 0 .. Len(text)
  BY <1>2, <1>5, RunIsNumbers
<1> HIDE DEF whole, point
<1>7. part \in Seq(Int) /\ end \in 0 .. Len(text)
  <2>1. CASE dot
    <3>1. point + 1 \in 0 .. Len(text)
      BY <1>2, <1>4, <1>6, <2>1
    <3>2. /\ Slice(text, point + 1, Span(text, point + 1, Digits)) \in Seq(Int)
          /\ Span(text, point + 1, Digits) \in point + 1 .. Len(text)
      BY <3>1, RunIsNumbers
    <3> QED
      BY <1>2, <2>1, <3>1, <3>2
  <2>2. CASE ~dot
    <3>1. end = point
      BY <2>2
    <3>2. SubSeq(text, point + 2, point) = <<>>
      <4>1. point + 2 \in Int /\ point \in Int /\ point < point + 2
        BY <1>2, <1>6
      <4> QED
        BY ONLY <4>1, SubSeqEmpty
    <3>3. part = <<>>
      <4>1. (point + 1) + 1 = point + 2
        BY <1>2, <1>6
      <4> QED
        BY <3>1, <3>2, <4>1 DEF Slice
    <3> HIDE DEF part, end
    <3>4. part \in Seq(Int)
      BY <3>3
    <3> QED
      BY <1>6, <3>1, <3>4
  <2> QED
    BY <1>4, <2>1, <2>2
<1> HIDE DEF part, end
<1>8. power \in Int
  <2>1. IsSeq(Slice(text, end + 1, Len(text)))
    <3>1. (end + 1) + 1 \in Int /\ (end + 1) + 1 >= 1 /\ Len(text) \in Int
      BY <1>2, <1>7
    <3> QED
      BY <1>2, <3>1, Piece DEF Slice
  <2> QED
    BY <2>1, ReadIntIsInt
<1>9. number \in Int
  <2>1. whole \o part \in Seq(Int)
    BY ONLY <1>6, <1>7, ConcatProperties
  <2> QED
    BY <2>1, NumberIsInt
<1> HIDE DEF number, power
<1>10. (IF minus THEN -number ELSE number) \in Int /\ power - Len(part) \in Int
  BY <1>7, <1>8, <1>9
<1> QED
  BY <1>1, <1>10

\* The text of a number has at least one digit.
LEMMA DigitsOf ==
  ASSUME NEW n \in Nat
  PROVE  /\ IsSeq(uintToString(n)) /\ Len(uintToString(n)) >= 1
<1> DEFINE fits(w) == n < Power(10, w) /\ (w > 1 => n >= Power(10, w - 1))
           width == CHOOSE w \in 1 .. n + 1 : fits(w)
           digit(i) == C("0") + ((n \div Power(10, width - i)) % 10)
<1>1. uintToString(n) = [i \in 1 .. width |-> digit(i)]
  BY DEF uintToString
<1>2. \E w \in 1 .. n + 1 : fits(w)
  <2> DEFINE T == {w \in Nat : w >= 1 /\ n < Power(10, w)}
  <2>1. 10 \in Int /\ 10 >= 2 /\ 10 >= 1 /\ n + 1 \in Nat
    OBVIOUS
  <2>2. n + 1 \in T
    <3>1. Power(10, n + 1) \in Int /\ Power(10, n + 1) > n + 1
      BY <2>1, PowerPositive
    <3> QED
      BY <3>1
  <2>3. PICK w \in T : \A v \in T : w <= v
    <3>1. T \in SUBSET Nat
      OBVIOUS
    <3> HIDE DEF T
    <3> QED
      BY <2>2, <3>1, LeastNumber
  <2>4. w \in 1 .. n + 1 /\ n < Power(10, w)
    <3>1. w \in Nat /\ w >= 1 /\ n < Power(10, w)
      BY <2>3
    <3>2. w <= n + 1
      BY <2>2, <2>3
    <3> QED
      BY <3>1, <3>2
  <2>5. w > 1 => n >= Power(10, w - 1)
    <3>1. ASSUME w > 1, ~(n >= Power(10, w - 1))
          PROVE  FALSE
      <4>1. w - 1 \in Nat /\ w - 1 >= 1
        BY <2>4, <3>1
      <4>2. Power(10, w - 1) \in Int
        BY <2>1, <4>1, PowerPositive
      <4>3. n < Power(10, w - 1)
        BY <3>1, <4>2
      <4>4. w - 1 \in T
        BY <4>1, <4>3
      <4> QED
        BY <2>3, <2>4, <4>4
    <3> QED
      BY <3>1
  <2> QED
    BY <2>4, <2>5
<1>3. width \in 1 .. n + 1
  <2> HIDE DEF fits
  <2> QED
    BY <1>2
<1> HIDE DEF width
<1>4. width \in Nat /\ width >= 1
  BY <1>3
<1> DEFINE S == {digit(i) : i \in 1 .. width}
           f == [i \in 1 .. width |-> digit(i)]
<1>5. f \in [1 .. width -> S]
  OBVIOUS
<1> HIDE DEF S, f
<1>6. f \in Seq(S) /\ Len(f) = width
  BY ONLY <1>4, <1>5, FunctionIsSeq
<1> QED
  BY <1>1, <1>4, <1>6 DEF IsSeq, f

\* Sequences: of one byte, of none, and of as many as there are.
LEMMA OneByte ==
  ASSUME NEW c
  PROVE  IsSeq(<<c>>)
<1>1. <<c>> \in Seq({c})
  OBVIOUS
<1> QED
  BY <1>1 DEF IsSeq

LEMMA NoByte == IsSeq(<<>>)
<1>1. <<>> \in Seq({})
  OBVIOUS
<1> QED
  BY <1>1 DEF IsSeq

LEMMA SameBytes ==
  ASSUME NEW n \in Nat, NEW f, f = [i \in 1 .. n |-> f[i]]
  PROVE  IsSeq(f)
<1> DEFINE S == {f[i] : i \in 1 .. n}
<1>1. f \in [1 .. n -> S]
  OBVIOUS
<1> HIDE DEF S
<1>2. f \in Seq(S)
  BY ONLY n \in Nat, <1>1, FunctionIsSeq
<1> QED
  BY <1>2 DEF IsSeq

\* The bytes of a text, of a sign, and of a text that gets a point.
LEMMA TextIsSeq ==
  ASSUME NEW s, IsSeq(s)
  PROVE  IsSeq(Text(s))
<1>1. Len(s) \in Nat /\ DOMAIN s = 1 .. Len(s)
  BY SeqLength
<1>2. Text(s) = [i \in 1 .. Len(s) |-> CodeOf[s[i]]]
  BY <1>1 DEF Text
<1>3. Text(s) = [i \in 1 .. Len(s) |-> Text(s)[i]]
  BY <1>2
<1> QED
  BY <1>1, <1>3, SameBytes

LEMMA SignIsSeq ==
  ASSUME NEW negative
  PROVE  IsSeq(Minus(negative))
<1>1. Minus(negative) = <<C("-")>> \/ Minus(negative) = <<>>
  BY DEF Minus
<1> QED
  BY <1>1, OneByte, NoByte

LEMMA WithPointIsSeq ==
  ASSUME NEW s, IsSeq(s)
  PROVE  IsSeq(WithPoint(s))
<1>1. IsSeq(<<".", "0">>)
  <2>1. <<".", "0">> \in Seq({".", "0"})
    OBVIOUS
  <2> QED
    BY <2>1 DEF IsSeq
<1>2. IsSeq(s \o Text(<<".", "0">>))
  BY <1>1, TextIsSeq, Joined
<1>3. WithPoint(s) = s \/ WithPoint(s) = s \o Text(<<".", "0">>)
  BY DEF WithPoint
<1> QED
  BY <1>2, <1>3

\* The text of a finite real is one.
LEMMA PrintedIsSeq ==
  ASSUME NEW a \in Int, NEW s \in Int, NEW precision \in Int
  PROVE  IsSeq(PrintedG(<<a, s>>, precision))
<1> DEFINE real == <<a, s>>
           digits == uintToString(Abs(a))
           n  == Len(digits)
           x  == n - 1 + s
           zero == IF Abs(x) < 10 THEN <<C("0")>> ELSE <<>>
           exponent == Minus(x < 0) \o zero \o uintToString(Abs(x))
           point(t) == IF t = <<>> THEN t ELSE <<C(".")>> \o t
           mark == <<C("e")>>
           plus == <<C("+")>>
           power == IF x < 0 THEN exponent ELSE plus \o exponent
           long == <<digits[1]>> \o point(Tail(digits)) \o mark \o power
           zeros == [i \in 1 .. -x - 1 |-> C("0")]
           small == <<C("0"), C(".")>> \o zeros \o digits
           whole == [i \in 1 .. x + 1 |-> IF i <= n THEN digits[i] ELSE C("0")]
           plain == whole \o point(SubSeq(digits, x + 2, n))
           minus == Minus(a < 0)
<1>1. PrintedG(real, precision) = minus \o (CASE x < -4 \/ x >= precision -> long
                                              [] x \in -4 .. -1 -> small
                                              [] OTHER -> plain)
  BY DEF PrintedG
<1>2. /\ Abs(a) \in Nat /\ IsSeq(digits) /\ n >= 1
  <2>1. Abs(a) \in Nat
    BY DEF Abs
  <2> QED
    BY <2>1, DigitsOf
<1> HIDE DEF digits
<1>3. n \in Nat /\ x \in Int /\ DOMAIN digits = 1 .. n
  BY <1>2, SeqLength
<1>4. \A t : IsSeq(t) => IsSeq(point(t))
  BY OneByte, Joined
<1> HIDE DEF x, point
<1>5. IsSeq(exponent)
  <2>1. Abs(x) \in Nat
    BY <1>3 DEF Abs
  <2>2. IsSeq(zero) /\ IsSeq(Minus(x < 0)) /\ IsSeq(uintToString(Abs(x)))
    BY <2>1, OneByte, NoByte, SignIsSeq, DigitsOf
  <2> HIDE DEF zero
  <2> QED
    BY <2>2, Joined
<1> HIDE DEF exponent
<1>6. IsSeq(power)
  BY <1>5, OneByte, Joined
<1> HIDE DEF power
<1>7. IsSeq(long)
  <2>1. IsSeq(Tail(digits))
    <3>1. PICK S : digits \in Seq(S)
      BY <1>2 DEF IsSeq
    <3>2. digits # <<>>
      BY ONLY <1>2, <3>1, EmptySeq
    <3>3. Tail(digits) \in Seq(S)
      BY ONLY <3>1, <3>2, HeadTailProperties
    <3> QED
      BY <3>3 DEF IsSeq
  <2>2. IsSeq(<<digits[1]>>) /\ IsSeq(point(Tail(digits))) /\ IsSeq(mark)
    BY <1>4, <2>1, OneByte
  <2> HIDE DEF mark
  <2> QED
    BY <1>6, <2>2, Joined
<1>8. CASE x \in -4 .. -1
  <2>1. IsSeq(zeros)
    <3>1. -x - 1 \in Nat
      BY <1>8
    <3>2. zeros = [i \in 1 .. -x - 1 |-> zeros[i]]
      OBVIOUS
    <3> HIDE DEF zeros
    <3> QED
      BY <3>1, <3>2, SameBytes
  <2>2. IsSeq(<<C("0"), C(".")>>)
    <3>1. <<C("0"), C(".")>> \in Seq({C("0"), C(".")})
      OBVIOUS
    <3> QED
      BY <3>1 DEF IsSeq
  <2> HIDE DEF zeros
  <2>3. IsSeq(small)
    BY <1>2, <2>1, <2>2, Joined
  <2> QED
    BY <1>1, <1>7, <2>3, <1>8, SignIsSeq, Joined
<1>9. CASE ~(x \in -4 .. -1)
  <2>1. CASE x < -4 \/ x >= precision
    BY <1>1, <1>7, <1>9, <2>1, SignIsSeq, Joined
  <2>2. CASE ~(x < -4 \/ x >= precision)
    <3>1. x >= 0
      BY <1>3, <1>9, <2>2
    <3>2. IsSeq(whole)
      <4>1. x + 1 \in Nat
        BY <1>3, <3>1
      <4>2. whole = [i \in 1 .. x + 1 |-> whole[i]]
        OBVIOUS
      <4> HIDE DEF whole
      <4> QED
        BY <4>1, <4>2, SameBytes
    <3>3. IsSeq(SubSeq(digits, x + 2, n))
      BY <1>2, <1>3, <3>1, Piece
    <3> HIDE DEF whole
    <3>4. IsSeq(plain)
      BY <1>4, <3>2, <3>3, Joined
    <3>5. PrintedG(real, precision) = minus \o plain
      BY <1>1, <1>9, <2>2
    <3> HIDE DEF plain
    <3> QED
      BY <3>4, <3>5, SignIsSeq, Joined
  <2> QED
    BY <2>1, <2>2
<1> QED
  BY <1>8, <1>9

-----------------------------------------------------------------------------
(***************************************************************************)
(* Values.                                                                 *)
(***************************************************************************)
\* The types of a payload, and the reals.
LEMMA PayloadOf ==
  ASSUME NEW type, NEW val, IsPayload(type, val)
  PROVE  /\ type \in {"null", "int", "uint", "real", "string", "boolean", "array", "object"}
         /\ IsSeq(val)
         /\ type \in {"int", "uint", "boolean"} => val[1] \in Int /\ val = <<val[1]>>
         /\ type = "real" => val = NaN \/ (val = <<val[1], val[2]>> /\ val[1] \in Int /\ val[2] \in Int)
<1>1. type \in {"null", "int", "uint", "real", "string", "boolean", "array", "object"}
  BY DEF IsPayload, Types
<1>2. val \in Seq(Int)
  BY DEF IsPayload
<1>3. type \in {"int", "uint", "boolean"} => val[1] \in Int /\ val = <<val[1]>>
  BY <1>2 DEF IsPayload
<1>4. type = "real" => val = NaN \/ (val = <<val[1], val[2]>> /\ val[1] \in Int /\ val[2] \in Int)
  <2>1. ASSUME type = "real"
        PROVE  Len(val) = 0 \/ Len(val) = 2
    BY <2>1 DEF IsPayload
  <2>2. Len(val) = 0 => val = <<>>
    BY <1>2
  <2>3. Len(val) = 2 => val = <<val[1], val[2]>> /\ val[1] \in Int /\ val[2] \in Int
    BY <1>2
  <2> QED
    BY <2>1, <2>2, <2>3 DEF NaN
<1> QED
  BY <1>1, <1>2, <1>3, <1>4 DEF IsSeq

\* An integer has a text, and so has a real.
LEMMA NumberText ==
  ASSUME NEW n \in Int
  PROVE  IsSeq(integerToString(n))
<1>1. Abs(n) \in Nat
  BY DEF Abs
<1> QED
  BY <1>1, SignIsSeq, DigitsOf, Joined DEF integerToString

LEMMA RealText ==
  ASSUME NEW val, val = NaN \/ (val = <<val[1], val[2]>> /\ val[1] \in Int /\ val[2] \in Int)
  PROVE  IsSeq(doubleToString(val, FALSE, 17, TRUE))
<1>1. CASE isfinite(val)
  <2>1. doubleToString(val, FALSE, 17, TRUE) = WithPoint(PrintedG(val, 17))
    BY <1>1 DEF doubleToString
  <2>2. val = <<val[1], val[2]>> /\ val[1] \in Int /\ val[2] \in Int
    BY <1>1 DEF isfinite
  <2>3. IsSeq(PrintedG(<<val[1], val[2]>>, 17))
    BY <2>2, PrintedIsSeq
  <2> QED
    BY <2>1, <2>2, <2>3, WithPointIsSeq
<1>2. CASE ~isfinite(val)
  <2>1. doubleToString(val, FALSE, 17, TRUE) = SpecialFloat(val, FALSE)
    BY <1>2 DEF doubleToString
  <2>2. \/ SpecialFloat(val, FALSE) = Text(<<"n", "u", "l", "l">>)
        \/ SpecialFloat(val, FALSE) = Minus(val[1] < 0) \o Text(<<"1", "e", "+", "9", "9", "9", "9">>)
    BY DEF SpecialFloat
  <2>3. /\ IsSeq(<<"n", "u", "l", "l">>)
        /\ IsSeq(<<"1", "e", "+", "9", "9", "9", "9">>)
    <3>1. /\ <<"n", "u", "l", "l">> \in Seq({"n", "u", "l"})
          /\ <<"1", "e", "+", "9", "9", "9", "9">> \in Seq({"1", "e", "+", "9"})
      OBVIOUS
    <3> QED
      BY <3>1 DEF IsSeq
  <2> QED
    BY <2>1, <2>2, <2>3, TextIsSeq, SignIsSeq, Joined
<1> QED
  BY <1>1, <1>2

\* What a Value that is no container is as a text.
LEMMA AsText ==
  ASSUME NEW type, NEW val, IsPayload(type, val), type \notin Containers
  PROVE  IsSeq(asString(type, val))
<1>1. type \in {"null", "int", "uint", "real", "string", "boolean"}
  BY PayloadOf DEF Containers
<1>2. CASE type = "null"
  BY <1>2, NoByte DEF asString
<1>3. CASE type = "string"
  BY <1>3, PayloadOf DEF asString
<1>4. CASE type = "boolean"
  <2>1. /\ IsSeq(<<"t", "r", "u", "e">>) /\ IsSeq(<<"f", "a", "l", "s", "e">>)
    <3>1. /\ <<"t", "r", "u", "e">> \in Seq({"t", "r", "u", "e"})
          /\ <<"f", "a", "l", "s", "e">> \in Seq({"f", "a", "l", "s", "e"})
      OBVIOUS
    <3> QED
      BY <3>1 DEF IsSeq
  <2>2. asString(type, val) = IF val = <<1>> THEN Text(<<"t", "r", "u", "e">>)
                                             ELSE Text(<<"f", "a", "l", "s", "e">>)
    BY <1>4 DEF asString
  <2> QED
    BY <2>1, <2>2, TextIsSeq
<1>5. CASE type \in {"int", "uint"}
  <2>1. asString(type, val) = integerToString(val[1])
    BY <1>5 DEF asString
  <2>2. val[1] \in Int
    BY <1>5, PayloadOf
  <2> QED
    BY <2>1, <2>2, NumberText
<1>6. CASE type = "real"
  <2>1. asString(type, val) = doubleToString(val, FALSE, 17, TRUE)
    BY <1>6 DEF asString
  <2> QED
    BY <1>6, <2>1, PayloadOf, RealText
<1> QED
  BY <1>1, <1>2, <1>3, <1>4, <1>5, <1>6

\* What is at a key of a Value is one.
LEMMA ChildIsTree ==
  ASSUME NEW v, IsTree(v), NEW key, <<key>> \in DOMAIN v
  PROVE  IsTree(Child(v, key))
<1> DEFINE at == <<key>>
           under == {r \in DOMAIN v : IsPrefix(at, r)}
           D == {SubSeq(q, Len(at) + 1, Len(q)) : q \in under}
           child == [p \in D |-> v[at \o p]]
<1>1. Child(v, key) = child
  BY DEF Child, Subtree
<1>2. /\ <<>> \in DOMAIN v /\ IsFiniteSet(DOMAIN v)
      /\ \A p \in DOMAIN v : p \in Seq(Seq(Int)) /\ IsPayload(v[p].type, v[p].val)
  BY DEF IsTree
<1>3. at \in Seq(Seq(Int)) /\ Len(at) = 1
  <2>1. Len(at) = 1 /\ at \in DOMAIN v
    OBVIOUS
  <2> HIDE DEF at
  <2> QED
    BY <1>2, <2>1
<1>4. ASSUME NEW q \in under
      PROVE  /\ SubSeq(q, 2, Len(q)) \in Seq(Seq(Int))
             /\ at \o SubSeq(q, 2, Len(q)) = q
  <2>1. q \in Seq(Seq(Int)) /\ Len(q) >= 1 /\ Len(q) \in Nat
    BY <1>2, <1>3 DEF IsPrefix
  <2>2. SubSeq(at, 1, 1) = SubSeq(q, 1, 1)
    BY <1>3 DEF IsPrefix
  <2>3. q[1] = key
    <3>1. SubSeq(at, 1, 1)[1] = key /\ SubSeq(q, 1, 1)[1] = q[1]
      <4> HIDE DEF at
      <4>1. SubSeq(q, 1, 1)[1] = q[1]
        BY <2>1
      <4>2. SubSeq(at, 1, 1)[1] = at[1]
        BY <1>3
      <4> QED
        BY <4>1, <4>2 DEF at
    <3> QED
      BY <2>2, <3>1
  <2>4. /\ SubSeq(q, 2, Len(q)) \in Seq(Seq(Int))
        /\ Len(SubSeq(q, 2, Len(q))) = Len(q) - 1
        /\ \A i \in 1 .. Len(q) - 1 : SubSeq(q, 2, Len(q))[i] = q[i + 1]
    BY <2>1
  <2> DEFINE rest == SubSeq(q, 2, Len(q))
  <2> HIDE DEF rest
  <2>5. /\ at \o rest \in Seq(Seq(Int)) /\ Len(at \o rest) = Len(q)
        /\ \A i \in 1 .. Len(q) : (at \o rest)[i] = q[i]
    <3>1. rest \in Seq(Seq(Int)) /\ Len(rest) = Len(q) - 1
      BY <2>4 DEF rest
    <3>2. /\ at \o rest \in Seq(Seq(Int)) /\ Len(at \o rest) = 1 + Len(rest)
          /\ \A i \in 1 .. 1 + Len(rest) : (at \o rest)[i] = IF i <= 1 THEN at[i] ELSE rest[i - 1]
      <4> DEFINE S == Seq(Int)
      <4>1. at \in Seq(S) /\ rest \in Seq(S) /\ Len(at) = 1
        BY <1>3, <3>1
      <4> HIDE DEF at, rest, S
      <4>2. /\ at \o rest \in Seq(S) /\ Len(at \o rest) = Len(at) + Len(rest)
            /\ \A i \in 1 .. Len(at) + Len(rest) :
                   (at \o rest)[i] = IF i <= Len(at) THEN at[i] ELSE rest[i - Len(at)]
        BY ONLY <4>1, ConcatProperties
      <4> QED
        BY <4>1, <4>2 DEF S
    <3>3. \A i \in 2 .. Len(q) : rest[i - 1] = q[i]
      <4>1. ASSUME NEW i \in 2 .. Len(q)
            PROVE  rest[i - 1] = q[i]
        <5>1. i - 1 \in 1 .. Len(q) - 1 /\ (i - 1) + 1 = i
          BY <2>1
        <5> QED
          BY <2>4, <5>1 DEF rest
      <4> QED
        BY <4>1
    <3>4. at[1] = q[1]
      BY <2>3
    <3> HIDE DEF at
    <3> QED
      BY <2>1, <3>1, <3>2, <3>3, <3>4
  <2>6. at \o rest = q
    <3> HIDE DEF at
    <3> QED
      BY ONLY <2>1, <2>5, SeqEqual
  <2> QED
    BY <2>4, <2>6 DEF rest
<1>5. D = {SubSeq(q, 2, Len(q)) : q \in under}
  BY <1>3
<1>6. <<>> \in D
  <2>1. at \in under
    BY <1>3 DEF IsPrefix
  <2>2. SubSeq(at, 2, Len(at)) = <<>>
    BY <1>3, SubSeqEmpty
  <2> HIDE DEF at, under, D
  <2> QED
    BY <1>5, <2>1, <2>2
<1> HIDE DEF D, at
<1>7. ASSUME NEW p \in D
      PROVE  /\ p \in Seq(Seq(Int)) /\ at \o p \in DOMAIN v
  <2>1. PICK q \in under : p = SubSeq(q, 2, Len(q))
    BY <1>5
  <2>2. p \in Seq(Seq(Int)) /\ at \o p = q
    BY <1>4, <2>1
  <2> QED
    BY <2>2
<1>8. IsFiniteSet(D)
  <2> DEFINE g == [p \in D |-> at \o p]
  <2>1. g \in [D -> DOMAIN v]
    BY <1>7
  <2>2. \A p, r \in D : g[p] = g[r] => p = r
    <3>1. \A p, r \in D : at \o p = at \o r => p = r
      BY ONLY <1>3, <1>7, ConcatSimplifications
    <3> QED
      BY <3>1
  <2> HIDE DEF g
  <2> QED
    BY <1>2, <2>1, <2>2, FiniteByInjection
<1>9. \A p \in D : IsPayload(child[p].type, child[p].val)
  <2>1. ASSUME NEW p \in D
        PROVE  IsPayload(child[p].type, child[p].val)
    <3>1. child[p] = v[at \o p]
      OBVIOUS
    <3>2. IsPayload(v[at \o p].type, v[at \o p].val)
      BY <1>2, <1>7
    <3> HIDE DEF child
    <3> QED
      BY <3>1, <3>2
  <2> QED
    BY <2>1
<1>10. DOMAIN child = D
  OBVIOUS
<1> HIDE DEF child
<1> QED
  BY <1>1, <1>6, <1>7, <1>8, <1>9, <1>10 DEF IsTree

\* A null is a Value.
LEMMA NullIsTree == IsTree(NullTree)
<1>1. DOMAIN NullTree = {<<>>} /\ NullTree[<<>>].type = "null" /\ NullTree[<<>>].val = <<>>
  BY DEF NullTree, Leaf, Node
<1>2. <<>> \in Seq(Seq(Int)) /\ <<>> \in Seq(Int)
  OBVIOUS
<1>3. IsPayload("null", <<>>)
  <2>1. 1 \in DOMAIN Types /\ Types[1] = "null"
    BY DEF Types
  <2> QED
    BY <1>2, <2>1 DEF IsPayload
<1>4. IsFiniteSet({<<>>})
  BY FiniteOne
<1> QED
  BY <1>1, <1>2, <1>3, <1>4 DEF IsTree

\* What a Value is asked for is one, if it may be asked.
LEMMA AskedIsTree ==
  ASSUME NEW tree, IsTree(tree), NEW type, tree[<<>>].type \in {"null", type}, NEW key
  PROVE  IsTree(get(tree, type, key, NullTree).val)
<1> DEFINE found == find(tree, type, key)
<1>1. found = Answer(IF <<key>> \in DOMAIN tree THEN {Child(tree, key)} ELSE {})
  BY DEF find, May
<1>2. get(tree, type, key, NullTree) =
          CASE ~found.ok -> found
            [] found.ok /\ found.val = {} -> Answer(NullTree)
            [] OTHER -> Answer(CHOOSE x \in found.val : TRUE)
  BY DEF get
<1> HIDE DEF found
<1>3. CASE <<key>> \in DOMAIN tree
  <2>1. found.ok = TRUE /\ found.val = {Child(tree, key)}
    BY <1>1, <1>3 DEF Answer
  <2>2. (CHOOSE x \in found.val : TRUE) = Child(tree, key)
    BY <2>1
  <2>3. get(tree, type, key, NullTree) = Answer(Child(tree, key))
    BY <1>2, <2>1, <2>2
  <2> QED
    BY <1>3, <2>3, ChildIsTree DEF Answer
<1>4. CASE <<key>> \notin DOMAIN tree
  <2>1. found.ok = TRUE /\ found.val = {}
    BY <1>1, <1>4 DEF Answer
  <2>2. get(tree, type, key, NullTree) = Answer(NullTree)
    BY <1>2, <2>1
  <2> QED
    BY <2>2, NullIsTree DEF Answer
<1> QED
  BY <1>3, <1>4

\* And so is a member of what may have members.
LEMMA MemberIsTree ==
  ASSUME NEW tree, IsTree(tree), Askable(tree), NEW key
  PROVE  IsTree(Member(tree, key))
BY AskedIsTree DEF Member, Askable

\* A Value with items that is taken for a list is one.
LEMMA ItemIsTree ==
  ASSUME NEW tree, IsTree(tree), Listed(tree), NEW i \in DOMAIN Items(tree)
  PROVE  IsTree(Items(tree)[i])
<1> DEFINE type == tree[<<>>].type
           keys == Children(tree, <<>>)
<1>1. /\ type \in {"null", "int", "uint", "real", "string", "boolean", "array", "object"}
  BY PayloadOf DEF IsTree
<1>2. i \in 1 .. size(tree, <<>>)
  BY DEF Items
<1>3. Items(tree)[i] = get(tree, "array", Index(i - 1), NullTree).val
  BY <1>2 DEF Items
<1>4. type # "array" => size(tree, <<>>) \in Nat
  <2>1. IsFiniteSet(keys)
    <3> DEFINE Q == {q \in DOMAIN tree : Len(q) = Len(<<>>) + 1 /\ Below(<<>>, q)}
               f == [p \in Q |-> p[Len(p)]]
    <3>1. Q \subseteq DOMAIN tree /\ IsFiniteSet(DOMAIN tree)
      BY DEF IsTree
    <3>2. IsFiniteSet(Q)
      <4> HIDE DEF Q
      <4> QED
        BY <3>1, FinitePart
    <3>3. keys = {f[p] : p \in Q}
      BY DEF Children
    <3> HIDE DEF Q, f
    <3>4. IsFiniteSet({f[p] : p \in Q})
      BY <3>2, FiniteImage
    <3> QED
      BY <3>3, <3>4
  <2>2. Cardinality(keys) \in Nat
    BY <2>1, FinitePart
  <2> HIDE DEF keys
  <2>3. type = "object" => size(tree, <<>>) = Cardinality(keys)
    BY DEF size, keys
  <2>4. type \notin {"array", "object"} => size(tree, <<>>) = 0
    BY DEF size
  <2> HIDE DEF type
  <2> QED
    BY <2>2, <2>3, <2>4
<1>5. type = "array"
  <2>1. CASE type # "array"
    <3>1. size(tree, <<>>) > 0
      BY <1>2, <1>4, <2>1
    <3> QED
      BY <3>1 DEF Listed
  <2> QED
    BY <2>1
<1> QED
  BY <1>3, <1>5, AskedIsTree

\* The port that a Value is read as is a number.
LEMMA PortIsInt ==
  ASSUME NEW value, IsTree(value)
  PROVE  PortOf(value) \in Int
<1> DEFINE v == value[<<>>]
           commented == hasComment(value, Before)
<1>1. IsPayload(v.type, v.val)
  BY DEF IsTree
<1>2. PortOf(value) = CASE commented \/ ~isNumeric(v) -> 0
                        [] ~commented /\ v.type \in IntegerTypes ->
                               Max({Min({v.val[1], maxInt}), minInt})
                        [] OTHER -> ReadInt(asString(v.type, v.val))
  BY DEF PortOf
<1> HIDE DEF v, commented
<1>3. CASE commented \/ ~isNumeric(v)
  <2>1. ~(~commented /\ v.type \in IntegerTypes)
    BY <1>3 DEF isNumeric
  <2>2. PortOf(value) = 0
    BY <1>2, <1>3, <2>1
  <2> QED
    BY <2>2
<1>4. CASE ~commented /\ v.type \in IntegerTypes
  <2>1. ~(commented \/ ~isNumeric(v))
    BY <1>4 DEF isNumeric
  <2>2. PortOf(value) = Max({Min({v.val[1], maxInt}), minInt})
    BY <1>2, <1>4, <2>1
  <2>3. v.val[1] \in Int
    BY <1>1, <1>4, PayloadOf DEF IntegerTypes
  <2>4. maxInt \in Int /\ minInt \in Int
    BY LimitsExact
  <2>5. Min({v.val[1], maxInt}) \in Int
    BY <2>3, <2>4, SmallerOfTwo
  <2> QED
    BY <2>2, <2>4, <2>5, LargerOfTwo
<1>5. CASE ~(commented \/ ~isNumeric(v)) /\ ~(~commented /\ v.type \in IntegerTypes)
  <2>1. v.type = "real"
    BY <1>5 DEF isNumeric
  <2>2. IsSeq(asString(v.type, v.val))
    BY <1>1, <2>1, AsText DEF Containers
  <2> QED
    BY <1>2, <1>5, <2>2, ReadIntIsInt
<1> QED
  BY <1>3, <1>4, <1>5

\* A member of a user is a text, if it is plain.
LEMMA MemberIsText ==
  ASSUME NEW user, IsTree(user), Askable(user), NEW c, Plain(Member(user, Key(c)))
  PROVE  IsSeq(TextOf(user, c))
<1> DEFINE v == Member(user, Key(c))[<<>>]
<1>1. IsTree(Member(user, Key(c)))
  BY MemberIsTree
<1>2. IsPayload(v.type, v.val)
  BY <1>1 DEF IsTree
<1>3. asText(v).ok = TRUE => v.type \notin Containers
  BY DEF asText, Throws
<1>4. asText(v).ok
  BY DEF Plain
<1>5. asText(v) = IF v.type \in Containers THEN Throws ELSE Answer(asString(v.type, v.val))
  BY DEF asText
<1> HIDE DEF v
<1>6. v.type \notin Containers
  BY <1>4, <1>5 DEF Throws
<1>7. asText(v).val = asString(v.type, v.val)
  BY <1>5, <1>6 DEF Answer
<1>8. IsSeq(asText(v).val)
  BY <1>2, <1>6, <1>7, AsText
<1> QED
  BY <1>8 DEF TextOf, v

-----------------------------------------------------------------------------
(***************************************************************************)
(* What a start makes of a file.                                           *)
(***************************************************************************)
\* The file lets the server start.
Runs(file) == file # Unreadable /\ Acceptable(file)

Users(file) == Items(Member(file, Key("u")))

\* What an account with a size is granted, in bytes.
Granting(user) == FloatToInt(Real(FloatToInt(ReadFloat(TextOf(user, "s"))) * Kilobyte, 0))

\* A file that could be read holds a Value.
LEMMA FilesAreTrees ==
  ASSUME NEW file \in Configs \cup PortFiles, file # Unreadable
  PROVE  IsTree(file)
BY SetupAssumption

\* A user of a file that lets the server start has a text for a size.
LEMMA UserSize ==
  ASSUME NEW file \in Configs, Runs(file), NEW i \in DOMAIN Users(file)
  PROVE  IsSeq(TextOf(Users(file)[i], "s"))
<1> DEFINE users == Member(file, Key("u"))
           user == Users(file)[i]
<1>1. Askable(file) /\ Listed(users) /\ user \in ToSet(Items(users))
  BY DEF Runs, Acceptable, ToSet, Users
<1>2. IsTree(users)
  BY <1>1, FilesAreTrees, MemberIsTree DEF Runs
<1>3. IsTree(user)
  BY <1>1, <1>2, ItemIsTree DEF Users
<1>4. Askable(user) /\ Plain(Member(user, Key("s")))
  BY <1>1 DEF Runs, Acceptable
<1> QED
  BY <1>3, <1>4, MemberIsText

\* A quota is an int, and of an account with a size there is just the one.
LEMMA QuotaOf ==
  ASSUME NEW user, IsSeq(TextOf(user, "s"))
  PROVE  /\ Quota(user) \subseteq minInt .. maxInt
         /\ HasSize(user) => Quota(user) = {Granting(user)}
<1> DEFINE n == FloatToInt(ReadFloat(TextOf(user, "s")))
<1>1. Kilobyte \in Int /\ Garbage \subseteq minInt .. maxInt
  BY SetupAssumption
<1>2. maxInt \in Int /\ minInt \in Int
  BY LimitsExact
<1>3. n \in minInt .. maxInt
  <2>1. PICK m, e \in Int : ReadFloat(TextOf(user, "s")) = Real(m, e)
    BY ReadFloatIsReal
  <2>2. IsReal(Real(m, e))
    BY RealIsReal
  <2> QED
    BY <2>1, <2>2, FloatToIntBounds
<1>4. SizeOf(user) = IF HasSize(user) THEN {n} ELSE Garbage
  BY DEF SizeOf
<1>5. Quota(user) = {FloatToInt(Real(k * Kilobyte, 0)) : k \in SizeOf(user)}
  BY DEF Quota
<1>6. Granting(user) = FloatToInt(Real(n * Kilobyte, 0))
  BY DEF Granting
<1> HIDE DEF n
<1>7. \A k \in SizeOf(user) : FloatToInt(Real(k * Kilobyte, 0)) \in minInt .. maxInt
  <2>1. ASSUME NEW k \in SizeOf(user)
        PROVE  FloatToInt(Real(k * Kilobyte, 0)) \in minInt .. maxInt
    <3>1. k \in Int
      <4>1. CASE HasSize(user)
        <5>1. k = n
          BY <1>4, <4>1
        <5> QED
          BY <1>2, <1>3, <5>1
      <4>2. CASE ~HasSize(user)
        <5>1. k \in Garbage
          BY <1>4, <4>2
        <5> QED
          BY <1>1, <1>2, <5>1
      <4> QED
        BY <4>1, <4>2
    <3>2. k * Kilobyte \in Int /\ 0 \in Int
      BY <1>1, <3>1
    <3> QED
      BY <3>2, RealIsReal, FloatToIntBounds
  <2> QED
    BY <2>1
<1>8. HasSize(user) => Quota(user) = {Granting(user)}
  BY <1>4, <1>5, <1>6
<1> QED
  BY <1>5, <1>7, <1>8

\* The accounts of a file are those of its users.
LEMMA AccountsOf ==
  ASSUME NEW file, NEW new \in Accounts(file)
  PROVE  /\ DOMAIN new = DOMAIN Users(file)
         /\ \A i \in DOMAIN new :
                /\ {"admin", "size"} \subseteq DOMAIN new[i]
                /\ new[i].admin \in BOOLEAN
                /\ new[i].size \in Quota(Users(file)[i])
<1> DEFINE users == Items(Member(file, Key("u")))
           account(i, left) ==
               [username |-> TextOf(users[i], "u"), password |-> TextOf(users[i], "p"),
                admin |-> TextOf(users[i], "a") = Text(<<"t", "r", "u", "e">>), size |-> left]
<1>1. PICK sizes \in [DOMAIN users -> UNION {Quota(user) : user \in ToSet(users)}] :
            /\ \A i \in DOMAIN users : sizes[i] \in Quota(users[i])
            /\ new = [i \in DOMAIN users |-> account(i, sizes[i])]
  BY DEF Accounts
<1>2. users = Users(file)
  BY DEF Users
<1>3. \A i, left : /\ {"admin", "size"} \subseteq DOMAIN account(i, left)
                   /\ account(i, left).admin \in BOOLEAN
                   /\ account(i, left).size = left
  OBVIOUS
<1> HIDE DEF users, account
<1> QED
  BY <1>1, <1>2, <1>3

\* A socket listens on a port that was free.
LEMMA ListensOnFree ==
  ASSUME NEW port \in Int, NEW busy
  PROVE  SetupServer(port, busy) \subseteq (1 .. PortRange - 1) \ busy
<1>1. PortRange \in Nat /\ PortRange >= 1 /\ Ephemeral \subseteq 1 .. PortRange - 1
  <2>1. maxInt \in Int
    BY LimitsExact
  <2> QED
    BY <2>1, SetupAssumption
<1>2. port % PortRange \in 0 .. PortRange - 1
  BY <1>1
<1>3. htons(port) \in 0 .. PortRange - 1
  BY <1>2 DEF htons
<1>4. htons(port) # 0 => htons(port) \in 1 .. PortRange - 1
  BY <1>1, <1>3
<1>5. SetupServer(port, busy) = IF htons(port) \in busy \cup Barred \cup {0} THEN Ephemeral \ busy ELSE {htons(port)}
  BY DEF SetupServer
<1>6. CASE htons(port) \in busy \cup Barred \cup {0}
  <2>1. SetupServer(port, busy) = Ephemeral \ busy
    BY <1>5, <1>6
  <2> QED
    BY <1>1, <2>1
<1>7. CASE htons(port) \notin busy \cup Barred \cup {0}
  <2>1. SetupServer(port, busy) = {htons(port)}
    BY <1>5, <1>7
  <2>2. htons(port) # 0 /\ htons(port) \notin busy
    BY <1>7
  <2> QED
    BY <1>4, <2>1, <2>2
<1> QED
  BY <1>6, <1>7

\* The port for each channel is a number.
LEMMA WantedPorts ==
  ASSUME NEW file \in Configs, Runs(file)
  PROVE  \A c \in 1 .. 2 : ConfiguredPorts(file)[c] \in Int
<1>1. IsTree(file) /\ Askable(file)
  BY FilesAreTrees DEF Runs, Acceptable
<1>2. \A c \in 1 .. 2 : ConfiguredPorts(file)[c] = PortOf(Member(file, Key(<<"c", "d">>[c])))
  BY DEF ConfiguredPorts
<1> QED
  BY <1>1, <1>2, MemberIsTree, PortIsInt

\* The number of bytes of a file that is not too large is the int for it.
LEMMA IntOfSmall ==
  ASSUME NEW n \in Nat, n <= maxInt
  PROVE  IntOf(n) = n
<1> DEFINE a == n + maxInt + 1
           d == 2 * maxInt + 2
<1>1. maxInt \in Nat
  BY LimitsExact
<1>2. a \in Nat /\ d \in Nat /\ d >= 1 /\ a < d
  BY <1>1
<1> HIDE DEF a, d
<1>3. a % d = a
  BY <1>2
<1>4. IntOf(n) = (a % d) - maxInt - 1
  BY DEF IntOf, a, d
<1> QED
  BY <1>1, <1>3, <1>4 DEF a

-----------------------------------------------------------------------------
(***************************************************************************)
(* Types, and the ports.                                                   *)
(***************************************************************************)
\* The files are what they were, and accounts have what accounts have.
FilesStay == config \in Configs /\ ports \in PortFiles

AccountsTyped == \A i \in DOMAIN accounts : {"admin", "size"} \subseteq DOMAIN accounts[i]

\* A server that is up was let, and listens on what it asked for or was given.
Listens ==
    server = "up" =>
        /\ Runs(config)
        /\ listening[1] \in SetupServer(ConfiguredPorts(config)[1], taken)
        /\ listening[2] \in SetupServer(ConfiguredPorts(config)[2], taken \cup {listening[1]})

SetupInv == TypeOK /\ FilesStay /\ AccountsTyped /\ Listens

\* The invariant holds before the first start.
LEMMA InitSetup == SetupInit => SetupInv
<1> SUFFICES ASSUME SetupInit
             PROVE  SetupInv
  OBVIOUS
<1>1. DOMAIN accounts = {}
  BY DEF SetupInit
<1>2. reached \in [1 .. 2 -> {"nobody", "other", "command", "data"}]
  BY DEF SetupInit, NotConnected
<1>3. 0 \in 0 .. MaxStarts
  BY SetupAssumption
<1>4. TypeOK
  BY <1>1, <1>2, <1>3 DEF SetupInit, TypeOK
<1>5. FilesStay /\ AccountsTyped /\ Listens
  BY <1>1 DEF SetupInit, FilesStay, AccountsTyped, Listens
<1> QED
  BY <1>4, <1>5 DEF SetupInv

\* A server that is up has two ports of its own.
PortsApart ==
    server = "up" =>
        /\ listening[1] # listening[2]
        /\ \A c \in 1 .. 2 : listening[c] \in (1 .. PortRange - 1) \ taken

LEMMA TwoPorts == FilesStay /\ Listens => PortsApart
<1> SUFFICES ASSUME FilesStay, Listens, server = "up"
             PROVE  /\ listening[1] # listening[2]
                    /\ \A c \in 1 .. 2 : listening[c] \in (1 .. PortRange - 1) \ taken
  BY DEF PortsApart
<1>1. /\ ConfiguredPorts(config)[1] \in Int /\ ConfiguredPorts(config)[2] \in Int
  <2>1. \A c \in 1 .. 2 : ConfiguredPorts(config)[c] \in Int
    BY WantedPorts DEF FilesStay, Listens
  <2> QED
    BY <2>1
<1>2. /\ SetupServer(ConfiguredPorts(config)[1], taken) \subseteq (1 .. PortRange - 1) \ taken
      /\ SetupServer(ConfiguredPorts(config)[2], taken \cup {listening[1]})
             \subseteq (1 .. PortRange - 1) \ (taken \cup {listening[1]})
  BY <1>1, ListensOnFree
<1>3. /\ listening[1] \in (1 .. PortRange - 1) \ taken
      /\ listening[2] \in (1 .. PortRange - 1) \ (taken \cup {listening[1]})
  BY <1>2 DEF Listens
<1>4. \A c \in 1 .. 2 : c = 1 \/ c = 2
  OBVIOUS
<1> QED
  BY <1>3, <1>4

\* Every step keeps it: a start makes accounts and sockets, a download takes no more
\* than there is of a quota.
LEMMA NextSetup == SetupInv /\ [SetupNext]_setupVars => SetupInv'
<1> SUFFICES ASSUME SetupInv, [SetupNext]_setupVars
             PROVE  SetupInv'
  OBVIOUS
<1>1. TypeOK /\ FilesStay /\ AccountsTyped /\ Listens
  BY DEF SetupInv
<1>2. CASE StartServer
  <2>1. /\ UNCHANGED <<config, ports, taken, client, reached, tooLong>>
        /\ starts < MaxStarts /\ starts' = starts + 1
    BY <1>2 DEF StartServer
  <2>2. FilesStay'
    BY <1>1, <2>1 DEF FilesStay
  <2>3. starts' \in 0 .. MaxStarts
    BY <1>1, <2>1, SetupAssumption DEF TypeOK
  <2>4. CASE server' \in {"exited", "aborted"} /\ UNCHANGED <<listening, accounts, got>>
    <3>1. TypeOK'
      BY <1>1, <2>1, <2>3, <2>4 DEF TypeOK
    <3>2. AccountsTyped' /\ Listens'
      BY <1>1, <2>4 DEF AccountsTyped, Listens
    <3> QED
      BY <2>2, <3>1, <3>2 DEF SetupInv
  <2>5. CASE config # Unreadable /\ Acceptable(config) /\ server' = "up"
    <3>1. /\ accounts' \in Accounts(config)
          /\ \E wanted \in {ConfiguredPorts(config)} :
                \E command \in SetupServer(wanted[1], taken) :
                   \E data \in SetupServer(wanted[2], taken \cup {command}) :
                       listening' = <<command, data>>
      BY <1>2, <2>5 DEF StartServer
    <3>2. Runs(config)
      BY <2>5 DEF Runs
    <3>3. Listens'
      <4>1. PICK command \in SetupServer(ConfiguredPorts(config)[1], taken) :
               \E data \in SetupServer(ConfiguredPorts(config)[2], taken \cup {command}) :
                   listening' = <<command, data>>
        BY <3>1
      <4>2. PICK data \in SetupServer(ConfiguredPorts(config)[2], taken \cup {command}) :
               listening' = <<command, data>>
        BY <4>1
      <4>3. listening'[1] = command /\ listening'[2] = data
        BY <4>2
      <4>4. config' = config /\ taken' = taken
        BY <2>1
      <4> QED
        BY <3>2, <4>1, <4>2, <4>3, <4>4 DEF Listens, Runs, ConfiguredPorts, SetupServer, Acceptable
    <3>4. /\ AccountsTyped'
          /\ \A i \in DOMAIN accounts' : /\ accounts'[i].size \in minInt .. maxInt
                                         /\ accounts'[i].admin \in BOOLEAN
      <4>1. /\ DOMAIN accounts' = DOMAIN Users(config)
            /\ \A i \in DOMAIN accounts' :
                   /\ {"admin", "size"} \subseteq DOMAIN accounts'[i]
                   /\ accounts'[i].admin \in BOOLEAN
                   /\ accounts'[i].size \in Quota(Users(config)[i])
        BY <3>1, AccountsOf
      <4>2. \A i \in DOMAIN Users(config) : Quota(Users(config)[i]) \subseteq minInt .. maxInt
        BY <1>1, <3>2, UserSize, QuotaOf DEF FilesStay
      <4>3. \A i \in DOMAIN accounts' : accounts'[i].size \in minInt .. maxInt
        BY <4>1, <4>2
      <4> QED
        BY <4>1, <4>3 DEF AccountsTyped
    <3>5. PortsApart'
      BY <2>2, <3>3, TwoPorts, PTL
    <3>6. TypeOK'
      BY <1>1, <2>1, <2>3, <2>5, <3>4, <3>5 DEF TypeOK, PortsApart
    <3> QED
      BY <2>2, <3>3, <3>4, <3>6 DEF SetupInv
  <2> QED
    BY <1>2, <2>4, <2>5 DEF StartServer
<1>3. CASE Crash
  <2>1. /\ UNCHANGED <<config, ports, taken, client, starts, got, tooLong>>
        /\ server' = "down" /\ accounts' = <<>>
        /\ reached' = [c \in 1 .. 2 |-> IF reached[c] = "other" THEN "other" ELSE "nobody"]
    BY <1>3 DEF Crash
  <2>2. DOMAIN accounts' = {}
    BY <2>1
  <2>3. reached' \in [1 .. 2 -> {"nobody", "other", "command", "data"}]
    BY <2>1
  <2>4. TypeOK'
    BY <1>1, <2>1, <2>2, <2>3 DEF TypeOK
  <2>5. FilesStay' /\ AccountsTyped' /\ Listens'
    BY <1>1, <2>1, <2>2 DEF FilesStay, AccountsTyped, Listens
  <2> QED
    BY <2>4, <2>5 DEF SetupInv
<1>4. CASE StartClient
  <2>1. UNCHANGED <<config, ports, taken, server, listening, accounts, starts, got, tooLong>>
    BY <1>4 DEF StartClient
  <2>2. client' \in {"up", "exited", "aborted"}
    BY <1>4 DEF StartClient
  <2>3. reached' \in [1 .. 2 -> {"nobody", "other", "command", "data"}]
    <3>1. \A p : ConnectServer(p) \in {"nobody", "other", "command", "data"}
      BY DEF ConnectServer
    <3>2. CASE reached' = [c \in 1 .. 2 |-> ConnectServer(ConfiguredPorts(ports)[c])]
      BY <3>1, <3>2
    <3>3. CASE UNCHANGED reached
      BY <1>1, <3>3 DEF TypeOK
    <3> QED
      BY <1>4, <3>2, <3>3 DEF StartClient
  <2>4. TypeOK'
    BY <1>1, <2>1, <2>2, <2>3 DEF TypeOK
  <2>5. FilesStay' /\ AccountsTyped' /\ Listens'
    BY <1>1, <2>1 DEF FilesStay, AccountsTyped, Listens
  <2> QED
    BY <2>4, <2>5 DEF SetupInv
<1>5. CASE EndClient
  <2>1. /\ UNCHANGED <<config, ports, taken, server, listening, accounts, starts, got, tooLong>>
        /\ client' = "down" /\ reached' = NotConnected
    BY <1>5 DEF EndClient
  <2>2. reached' \in [1 .. 2 -> {"nobody", "other", "command", "data"}]
    BY <2>1 DEF NotConnected
  <2>3. TypeOK'
    BY <1>1, <2>1, <2>2 DEF TypeOK
  <2>4. FilesStay' /\ AccountsTyped' /\ Listens'
    BY <1>1, <2>1 DEF FilesStay, AccountsTyped, Listens
  <2> QED
    BY <2>3, <2>4 DEF SetupInv
<1>6. CASE Download
  <2>1. PICK i \in DOMAIN accounts, bytes \in FileSizes : ~tooLong /\ Retr(i, bytes)
    BY <1>6 DEF Download
  <2>2. /\ UNCHANGED <<config, ports, taken, server, listening, client, reached, starts>>
        /\ accounts' = [accounts EXCEPT ![i].size = @ - IntOf(bytes)]
        /\ tooLong' = (tooLong \/ bytes > maxInt)
        /\ accounts[i].size >= IntOf(bytes)
    BY <2>1 DEF Retr, Allows
  <2>3. FilesStay' /\ Listens'
    BY <1>1, <2>2 DEF FilesStay, Listens
  <2>4. DOMAIN accounts' = DOMAIN accounts
    BY <2>2
  <2>5. \A j \in DOMAIN accounts : j # i => accounts'[j] = accounts[j]
    BY <2>2
  <2>6. /\ DOMAIN accounts'[i] = DOMAIN accounts[i]
        /\ accounts'[i].size = accounts[i].size - IntOf(bytes)
        /\ accounts'[i].admin = accounts[i].admin
    BY <1>1, <2>2 DEF AccountsTyped
  <2>7. AccountsTyped'
    BY <1>1, <2>4, <2>5, <2>6 DEF AccountsTyped
  <2>8. accounts'[i].size \in minInt .. maxInt \/ tooLong'
    <3>1. CASE bytes > maxInt
      BY <2>2, <3>1
    <3>2. CASE ~(bytes > maxInt)
      <4>1. bytes \in Nat /\ maxInt \in Nat /\ minInt \in Int /\ minInt < 0
        BY LimitsExact, SetupAssumption
      <4>2. IntOf(bytes) = bytes
        BY <3>2, <4>1, IntOfSmall
      <4>3. accounts[i].size \in minInt .. maxInt
        BY <1>1, <2>1 DEF TypeOK
      <4> QED
        BY <2>2, <2>6, <4>1, <4>2, <4>3
    <3> QED
      BY <3>1, <3>2
  <2>9. \A j \in DOMAIN accounts' : /\ accounts'[j].size \in minInt .. maxInt \/ tooLong'
                                    /\ accounts'[j].admin \in BOOLEAN
    <3>1. ASSUME NEW j \in DOMAIN accounts', j # i
          PROVE  /\ accounts'[j].size \in minInt .. maxInt \/ tooLong'
                 /\ accounts'[j].admin \in BOOLEAN
      <4>1. /\ accounts[j].size \in minInt .. maxInt
            /\ accounts[j].admin \in BOOLEAN
        BY <1>1, <2>1, <2>4, <3>1 DEF TypeOK
      <4> QED
        BY <2>4, <2>5, <3>1, <4>1
    <3>2. accounts'[i].admin \in BOOLEAN
      BY <1>1, <2>6 DEF TypeOK
    <3> QED
      BY <2>8, <3>1, <3>2
  <2>10. tooLong' \in BOOLEAN
    BY <1>1, <2>2 DEF TypeOK
  <2>11. TypeOK'
    BY <1>1, <2>2, <2>9, <2>10 DEF TypeOK
  <2> QED
    BY <2>3, <2>7, <2>11 DEF SetupInv
<1>7. CASE UNCHANGED setupVars
  BY <1>1, <1>7 DEF setupVars, SetupInv, TypeOK, FilesStay, AccountsTyped, Listens
<1> QED
  BY <1>2, <1>3, <1>4, <1>5, <1>6, <1>7 DEF SetupNext

\* So it holds always.
LEMMA SetupInvariant == SetupSpec => []SetupInv
<1> QED
  BY InitSetup, NextSetup, PTL DEF SetupSpec

-----------------------------------------------------------------------------
(***************************************************************************)
(* Quotas.                                                                 *)
(***************************************************************************)
Positive(n) == IF n > 0 THEN n ELSE 0

\* What a user had in so many runs of the server, and with it what is left, is no
\* more than was granted in all of them.
AllGranted(user, runs) == runs * Positive(Granting(user))

WithinGrants(user, runs, had) == had \in Nat /\ had <= AllGranted(user, runs)

RestGranted(user, runs, had, left) == had + Positive(left) <= AllGranted(user, runs)

\* There are accounts and counts of the users when the server was let start, and an
\* account with a size keeps to it.
QuotaInv ==
    /\ ~Runs(config) => DOMAIN got = {}
    /\ Runs(config) =>
           /\ server \in {"up", "down"}
           /\ starts = 0 => server = "down"
           /\ starts > 0 => DOMAIN got = DOMAIN Users(config)
           /\ starts = 0 => DOMAIN got = {}
           /\ server = "up" => DOMAIN accounts = DOMAIN Users(config)
    /\ ~tooLong =>
           \A i \in DOMAIN got : HasSize(Users(config)[i]) =>
               /\ WithinGrants(Users(config)[i], starts, got[i])
               /\ server = "up" =>
                      RestGranted(Users(config)[i], starts, got[i], accounts[i].size)

\* Once more a grant, and one more in what is granted.
LEMMA OneGrantMore ==
  ASSUME NEW n \in Nat, NEW g \in Nat
  PROVE  (n + 1) * g = n * g + g /\ n * g \in Nat
<1>1. (n + 1) * g = n * g + g
  OBVIOUS
<1>2. n * g \in Nat
  BY ProductUp
<1> QED
  BY <1>1, <1>2

\* What a user with a size is granted is an int, and all there is to choose from.
LEMMA GrantingIsInt ==
  ASSUME NEW file \in Configs, Runs(file), NEW i \in DOMAIN Users(file), HasSize(Users(file)[i])
  PROVE  /\ Granting(Users(file)[i]) \in minInt .. maxInt
         /\ Quota(Users(file)[i]) = {Granting(Users(file)[i])}
<1>1. IsSeq(TextOf(Users(file)[i], "s"))
  BY UserSize
<1> QED
  BY <1>1, QuotaOf

\* Before the first start nobody has anything.
LEMMA InitQuota == SetupInit => QuotaInv
<1> SUFFICES ASSUME SetupInit
             PROVE  QuotaInv
  OBVIOUS
<1>1. DOMAIN got = {}
  BY DEF SetupInit
<1> QED
  BY <1>1 DEF SetupInit, QuotaInv

\* A start grants once more what it did before, and a download moves bytes from what
\* is left to what was had.
LEMMA NextQuota == SetupInv /\ QuotaInv /\ [SetupNext]_setupVars => QuotaInv'
<1> SUFFICES ASSUME SetupInv, QuotaInv, [SetupNext]_setupVars
             PROVE  QuotaInv'
  OBVIOUS
<1>1. TypeOK /\ FilesStay /\ Listens
  BY DEF SetupInv
<1>2. starts \in Nat /\ maxInt \in Nat /\ minInt \in Int
  BY <1>1, LimitsExact, SetupAssumption DEF TypeOK
<1>3. CASE StartServer
  <2>1. /\ config' = config /\ tooLong' = tooLong
        /\ server = "down" /\ starts' = starts + 1
    BY <1>3 DEF StartServer
  <2>2. CASE ~Runs(config)
    <3>1. got' = got
      BY <1>3, <2>2 DEF StartServer, Runs
    <3> QED
      BY <2>1, <2>2, <3>1 DEF QuotaInv
  <2>3. CASE Runs(config)
    <3>1. /\ server' = "up"
          /\ accounts' \in Accounts(config)
          /\ got' = IF starts = 0 THEN [i \in DOMAIN accounts' |-> 0] ELSE got
      BY <1>3, <2>3 DEF StartServer, Runs
    <3>2. /\ DOMAIN accounts' = DOMAIN Users(config)
          /\ \A i \in DOMAIN accounts' : accounts'[i].size \in Quota(Users(config)[i])
      BY <3>1, AccountsOf
    <3>3. starts' > 0 /\ starts' # 0
      BY <1>2, <2>1
    <3>4. DOMAIN got' = DOMAIN Users(config)
      <4>1. CASE starts = 0
        BY <3>1, <3>2, <4>1
      <4>2. CASE starts # 0
        <5>1. starts > 0
          BY <1>2, <4>2
        <5> QED
          BY <2>3, <3>1, <4>2, <5>1 DEF QuotaInv
      <4> QED
        BY <4>1, <4>2
    <3>5. ASSUME ~tooLong, NEW i \in DOMAIN got', HasSize(Users(config)[i])
          PROVE  /\ WithinGrants(Users(config)[i], starts', got'[i])
                 /\ RestGranted(Users(config)[i], starts', got'[i], accounts'[i].size)
      <4> DEFINE g == Granting(Users(config)[i])
                 p == Positive(g)
      <4>1. g \in Int /\ Quota(Users(config)[i]) = {g}
        BY <1>1, <1>2, <2>3, <3>4, <3>5, GrantingIsInt DEF FilesStay
      <4>2. accounts'[i].size = g
        BY <3>2, <3>4, <4>1
      <4>3. p \in Nat
        BY <4>1 DEF Positive
      <4>4. /\ AllGranted(Users(config)[i], starts') = starts' * p
            /\ AllGranted(Users(config)[i], starts) = starts * p
        BY DEF AllGranted
      <4>5. starts' * p = starts * p + p /\ starts * p \in Nat
        <5> HIDE DEF p
        <5> QED
          BY <1>2, <2>1, <4>3, OneGrantMore
      <4>6. got'[i] \in Nat /\ got'[i] <= starts * p
        <5>1. CASE starts = 0
          <6>1. got'[i] = 0
            BY <3>1, <3>2, <3>4, <5>1
          <6> QED
            BY <4>5, <6>1
        <5>2. CASE starts # 0
          <6>1. got' = got
            BY <3>1, <5>2
          <6>2. WithinGrants(Users(config)[i], starts, got[i])
            BY <3>5, <6>1 DEF QuotaInv
          <6> QED
            BY <4>4, <6>1, <6>2 DEF WithinGrants
        <5> QED
          BY <5>1, <5>2
      <4> HIDE DEF g
      <4>7. Positive(accounts'[i].size) = p
        BY <4>2
      <4> HIDE DEF p
      <4> QED
        BY <4>3, <4>4, <4>5, <4>6, <4>7 DEF WithinGrants, RestGranted
    <3> QED
      BY <2>1, <2>3, <3>1, <3>2, <3>3, <3>4, <3>5 DEF QuotaInv
  <2> QED
    BY <2>2, <2>3
<1>4. CASE Crash
  <2>1. /\ config' = config /\ tooLong' = tooLong /\ starts' = starts /\ got' = got
        /\ server' = "down"
    BY <1>4 DEF Crash
  <2> QED
    BY <2>1 DEF QuotaInv
<1>5. CASE StartClient \/ EndClient
  <2>1. UNCHANGED <<config, server, accounts, starts, got, tooLong>>
    BY <1>5 DEF StartClient, EndClient
  <2> QED
    BY <2>1 DEF QuotaInv
<1>6. CASE Download
  <2>1. PICK i \in DOMAIN accounts, bytes \in FileSizes : ~tooLong /\ Retr(i, bytes)
    BY <1>6 DEF Download
  <2>2. /\ UNCHANGED <<config, server, starts>>
        /\ server = "up"
        /\ accounts' = [accounts EXCEPT ![i].size = @ - IntOf(bytes)]
        /\ got' = [got EXCEPT ![i] = @ + bytes]
        /\ tooLong' = (tooLong \/ bytes > maxInt)
        /\ accounts[i].size >= IntOf(bytes)
    BY <2>1 DEF Retr, Allows
  <2>3. Runs(config)
    BY <1>1, <2>2 DEF Listens
  <2>4. /\ starts > 0 /\ starts # 0
        /\ DOMAIN got = DOMAIN Users(config) /\ DOMAIN accounts = DOMAIN Users(config)
    BY <1>2, <2>2, <2>3 DEF QuotaInv
  <2>5. DOMAIN got' = DOMAIN got /\ DOMAIN accounts' = DOMAIN accounts
    BY <2>2
  <2>6. ASSUME ~tooLong', NEW j \in DOMAIN got', HasSize(Users(config)[j])
        PROVE  /\ WithinGrants(Users(config)[j], starts, got'[j])
               /\ RestGranted(Users(config)[j], starts, got'[j], accounts'[j].size)
    <3>1. /\ WithinGrants(Users(config)[j], starts, got[j])
          /\ RestGranted(Users(config)[j], starts, got[j], accounts[j].size)
      BY <2>1, <2>2, <2>5, <2>6 DEF QuotaInv
    <3>2. CASE j # i
      <4>1. got'[j] = got[j] /\ accounts'[j] = accounts[j]
        BY <2>2, <2>4, <2>5, <3>2
      <4> QED
        BY <3>1, <4>1
    <3>3. CASE j = i
      <4>1. bytes \in Nat /\ bytes <= maxInt
        <5>1. bytes \in Nat
          BY SetupAssumption
        <5>2. ~(bytes > maxInt)
          BY <2>2, <2>6, Zenon
        <5> QED
          BY <1>2, <5>1, <5>2
      <4>2. IntOf(bytes) = bytes
        BY <4>1, IntOfSmall
      <4>3. accounts[i].size \in Int
        BY <1>1, <1>2, <2>1 DEF TypeOK
      <4>4. got'[i] = got[i] + bytes
        BY <2>1, <2>2, <2>4
      <4>5. accounts'[i].size = accounts[i].size - bytes
        <5>1. "size" \in DOMAIN accounts[i]
          BY <2>1 DEF SetupInv, AccountsTyped
        <5> QED
          BY <2>1, <2>2, <4>2, <5>1
      <4>6. Positive(accounts[i].size) = accounts[i].size /\ accounts[i].size >= bytes
        BY <2>2, <4>1, <4>2, <4>3 DEF Positive
      <4>7. Positive(accounts'[i].size) = accounts[i].size - bytes
        BY <4>1, <4>3, <4>5, <4>6 DEF Positive
      <4>8. /\ got[i] \in Nat
            /\ got[i] + accounts[i].size <= AllGranted(Users(config)[i], starts)
        BY <3>1, <3>3, <4>6 DEF WithinGrants, RestGranted
      <4>9. AllGranted(Users(config)[i], starts) \in Int
        <5>1. Granting(Users(config)[i]) \in minInt .. maxInt
          BY <1>1, <2>3, <2>4, <2>5, <2>6, <3>3, GrantingIsInt DEF FilesStay
        <5>2. Positive(Granting(Users(config)[i])) \in Int
          BY <1>2, <5>1 DEF Positive
        <5> QED
          BY <1>2, <5>2 DEF AllGranted
      <4>10. /\ got'[i] \in Nat /\ got'[i] <= AllGranted(Users(config)[i], starts)
             /\ got'[i] + Positive(accounts'[i].size) <= AllGranted(Users(config)[i], starts)
        BY <4>1, <4>3, <4>4, <4>6, <4>7, <4>8, <4>9
      <4> QED
        BY <3>3, <4>10 DEF WithinGrants, RestGranted
    <3> QED
      BY <3>2, <3>3
  <2> QED
    BY <2>2, <2>3, <2>4, <2>5, <2>6 DEF QuotaInv
<1>7. CASE UNCHANGED setupVars
  BY <1>7 DEF setupVars, QuotaInv
<1> QED
  BY <1>3, <1>4, <1>5, <1>6, <1>7 DEF SetupNext

\* Who keeps to what was granted in whole bytes keeps to what the file says.
LEMMA KeepsToSize ==
  ASSUME NEW text, IsSeq(text), NEW runs \in Nat, NEW had \in Nat, had > 0,
         had <= runs * Positive(FloatToInt(Real(FloatToInt(ReadFloat(text)) * Kilobyte, 0)))
  PROVE  LET granted == ReadFloat(text)
         IN  ~RealLess(Real(runs * Kilobyte * granted[1], granted[2]), Real(had, 0))
<1> DEFINE granted == ReadFloat(text)
           n == FloatToInt(granted)
           q == FloatToInt(Real(n * Kilobyte, 0))
<1>1. Kilobyte \in Nat /\ Kilobyte > 0
  BY SetupAssumption
<1>2. maxInt \in Nat /\ minInt \in Int /\ minInt < 0
  BY LimitsExact
<1>3. PICK a \in Int, s \in Int : granted = <<a, s>>
  <2>1. PICK m, e \in Int : granted = Real(m, e)
    BY ReadFloatIsReal
  <2>2. CASE Real(m, e) = <<0, 0>>
    <3>1. 0 \in Int
      OBVIOUS
    <3> QED
      BY <2>1, <2>2, <3>1
  <2>3. CASE \E b \in Int, z \in 0 .. 9 : Real(m, e) = <<b, e + z>>
    <3>1. PICK b \in Int, z \in 0 .. 9 : Real(m, e) = <<b, e + z>>
      BY <2>3
    <3>2. e + z \in Int
      OBVIOUS
    <3> QED
      BY <2>1, <3>1, <3>2
  <2> QED
    BY <2>2, <2>3, RealOf
<1>4. n \in Int /\ (n > 0 => n = Truncated(granted))
  <2>1. IsReal(granted)
    BY <1>3 DEF IsReal
  <2>2. n \in minInt .. maxInt
    BY <2>1, FloatToIntBounds
  <2>3. n = Truncated(granted) \/ n = minInt
    BY DEF FloatToInt
  <2> HIDE DEF n
  <2> QED
    BY <1>2, <2>2, <2>3
<1>5. had <= runs * Positive(q)
  OBVIOUS
<1> HIDE DEF n
<1>6. q = (IF minInt <= n * Kilobyte /\ n * Kilobyte <= maxInt THEN n * Kilobyte ELSE minInt)
  <2>1. n * Kilobyte \in Int
    BY <1>1, <1>4
  <2> QED
    BY <2>1, FloatToIntOfWhole
<1> HIDE DEF q
<1>7. q > 0 /\ runs > 0
  <2>1. q \in Int
    BY <1>1, <1>2, <1>4, <1>6
  <2>2. ASSUME q <= 0
        PROVE  FALSE
    <3>1. Positive(q) = 0 /\ runs * 0 = 0
      BY <2>1, <2>2 DEF Positive
    <3> QED
      BY <1>5, <3>1
  <2>3. ASSUME runs = 0
        PROVE  FALSE
    <3>1. Positive(q) \in Int
      BY <2>1 DEF Positive
    <3>2. 0 * Positive(q) = 0
      BY <3>1
    <3> QED
      BY <1>5, <2>3, <3>2
  <2> QED
    BY <2>1, <2>2, <2>3
<1>8. q = n * Kilobyte /\ had <= runs * (n * Kilobyte)
  <2>1. q = n * Kilobyte
    BY <1>2, <1>6, <1>7
  <2>2. Positive(q) = q
    BY <1>7 DEF Positive
  <2> QED
    BY <1>5, <2>1, <2>2
<1>9. n > 0
  <2>1. ASSUME n <= 0
        PROVE  FALSE
    <3>1. n * Kilobyte <= 0 * Kilobyte /\ 0 * Kilobyte = 0 /\ n * Kilobyte \in Int
      BY <1>1, <1>4, <2>1, ProductUp
    <3> QED
      BY <1>7, <1>8, <3>1
  <2> QED
    BY <1>4, <2>1
<1>10. a > 0 /\ NotUnder(<<a, s>>, n)
  BY <1>3, <1>4, <1>9, TruncatedBelow
<1>11. runs * Kilobyte \in Nat /\ runs * Kilobyte > 0
  BY <1>1, <1>7, ProductPositive
<1>12. had <= (runs * Kilobyte) * n
  <2>1. runs * (n * Kilobyte) = (runs * Kilobyte) * n
    BY <1>1, <1>4
  <2> QED
    BY <1>8, <2>1
<1>13. ~RealLess(Real((runs * Kilobyte) * a, s), Real(had, 0))
  <2> DEFINE k == runs * Kilobyte
  <2>1. k \in Nat /\ k > 0 /\ had \in Int /\ had <= k * n
    BY <1>11, <1>12
  <2> HIDE DEF k
  <2>2. ~RealLess(Real(k * a, s), Real(had, 0))
    BY <1>4, <1>10, <2>1, Granted, Zenon
  <2> QED
    BY <2>2 DEF k
<1>14. granted[1] = a /\ granted[2] = s
  BY <1>3
<1> HIDE DEF granted
<1> QED
  BY <1>13, <1>14 DEF granted

\* The invariant implies the property.
LEMMA KeepsToQuota == SetupInv /\ QuotaInv => QuotaHolds
<1> SUFFICES ASSUME SetupInv, QuotaInv, ~tooLong,
                    NEW i \in DOMAIN got, HasSize(Users(config)[i]), got[i] # 0
             PROVE  LET granted == ReadFloat(TextOf(Users(config)[i], "s"))
                    IN  ~RealLess(Real(starts * Kilobyte * granted[1], granted[2]), Real(got[i], 0))
  BY DEF QuotaHolds, Users
<1>1. Runs(config)
  BY DEF QuotaInv
<1>2. starts \in Nat /\ config \in Configs
  BY SetupAssumption DEF SetupInv, TypeOK, FilesStay
<1>3. i \in DOMAIN Users(config)
  <2>1. starts # 0
    BY <1>1 DEF QuotaInv
  <2>2. starts > 0
    BY <1>2, <2>1
  <2> QED
    BY <1>1, <2>2 DEF QuotaInv
<1>4. WithinGrants(Users(config)[i], starts, got[i])
  BY DEF QuotaInv
<1>5. IsSeq(TextOf(Users(config)[i], "s"))
  BY <1>1, <1>2, <1>3, UserSize
<1>6. /\ got[i] \in Nat
      /\ got[i] <= starts * Positive(FloatToInt(Real(FloatToInt(ReadFloat(TextOf(Users(config)[i], "s"))) * Kilobyte, 0)))
  BY <1>4 DEF WithinGrants, AllGranted, Granting
<1>7. got[i] > 0
  BY <1>6
<1> DEFINE text == TextOf(Users(config)[i], "s")
<1> HIDE DEF text
<1> QED
  BY <1>2, <1>5, <1>6, <1>7, KeepsToSize DEF text

\* The state is well formed: for any files and any ports of others, a server that is up
\* listens on two different free ports, and a quota is an int, as long as no file was too
\* large for one (setupServer, Client::Client, reduce_size).
THEOREM SetupTypeCorrect == SetupSpec => []TypeOK
<1>1. SetupInv => TypeOK
  BY DEF SetupInv
<1> QED
  BY <1>1, SetupInvariant, PTL

\* However a size is written, no account downloads more in all runs of the server than
\* config.json grants it in each of them (User::get_size, Client::Client, retr_command).
THEOREM QuotaKept == SetupSpec => []QuotaHolds
<1> QED
  BY InitQuota, NextQuota, SetupInvariant, KeepsToQuota, PTL DEF SetupSpec

-----------------------------------------------------------------------------
(***************************************************************************)
(* Whom a client reaches.                                                  *)
(***************************************************************************)
\* A port that somebody may mean is the one that is asked for.
LEMMA MeantPort ==
  ASSUME NEW file \in Configs \cup PortFiles, GoodPorts(file), NEW c \in {"c", "d"}
  PROVE  /\ PortOf(Member(file, Key(c))) = Meant(file, c)[1]
         /\ Meant(file, c)[1] \in 1 .. PortRange - 1
         /\ htons(Meant(file, c)[1]) = Meant(file, c)[1]
         /\ Meant(file, c) = <<Meant(file, c)[1]>>
<1> DEFINE value == Member(file, Key(c))
           p == Meant(file, c)[1]
<1>1. /\ file # Unreadable /\ Askable(file)
      /\ Meant(file, c) # <<>> /\ p \in 1 .. PortRange - 1
  BY DEF GoodPorts
<1>2. PortRange \in Nat /\ PortRange - 1 <= maxInt /\ maxInt \in Nat /\ minInt \in Int /\ minInt < 0
  BY LimitsExact, SetupAssumption
<1>3. IsPayload(value[<<>>].type, value[<<>>].val)
  <2>1. IsTree(value)
    BY <1>1, FilesAreTrees, MemberIsTree
  <2> QED
    BY <2>1 DEF IsTree
<1>4. /\ Meant(file, c) = value[<<>>].val /\ value[<<>>].type = "int" /\ ~hasComment(value, Before)
  BY <1>1 DEF Meant
<1>5. value[<<>>].val = <<p>>
  BY <1>3, <1>4, PayloadOf
<1>6. PortOf(value) = Max({Min({p, maxInt}), minInt})
  <2>1. value[<<>>].type \in IntegerTypes /\ isNumeric(value[<<>>])
    BY <1>4 DEF IntegerTypes, isNumeric
  <2>2. PortOf(value) = Max({Min({value[<<>>].val[1], maxInt}), minInt})
    BY <1>4, <2>1 DEF PortOf
  <2> QED
    BY <1>4, <2>2
<1> HIDE DEF p, value
<1>7. Min({p, maxInt}) = p
  BY <1>1, <1>2, SmallerOfTwo
<1>8. Max({p, minInt}) = p
  BY <1>1, <1>2, LargerOfTwo
<1>9. p % PortRange = p
  BY <1>1, <1>2
<1> QED
  BY <1>1, <1>4, <1>5, <1>6, <1>7, <1>8, <1>9 DEF htons, p, value

\* A client that is started while the server is up, with the same good ports.
Meets ==
    /\ client = "down" /\ client' = "up" /\ server = "up"
    /\ GoodPorts(config) /\ GoodPorts(ports)
    /\ \A c \in {"c", "d"} : Meant(config, c) = Meant(ports, c)
                            /\ Meant(config, c)[1] \notin taken \cup Barred

\* Such a client reaches the two channels.
LEMMA MeetsRight ==
  ASSUME SetupInv, SetupNext, Meets
  PROVE  reached' = <<"command", "data">>
<1> DEFINE a == Meant(config, "c")[1]
           b == Meant(config, "d")[1]
<1>1. FilesStay /\ Listens
  BY DEF SetupInv
<1>2. /\ server = "up" /\ GoodPorts(config) /\ GoodPorts(ports)
      /\ Meant(ports, "c")[1] = a /\ Meant(ports, "d")[1] = b
      /\ a \notin taken \cup Barred /\ b \notin taken \cup Barred
  BY DEF Meets
<1>3. reached' = [c \in 1 .. 2 |-> ConnectServer(ConfiguredPorts(ports)[c])]
  <2>1. client = "down" /\ client' = "up"
    BY DEF Meets
  <2>2. StartClient
    BY <2>1 DEF SetupNext, StartServer, Crash, EndClient, Download, Retr
  <2> QED
    BY <2>1, <2>2 DEF StartClient
<1>4. /\ PortOf(Member(config, Key("c"))) = a /\ PortOf(Member(config, Key("d"))) = b
      /\ PortOf(Member(ports, Key("c"))) = a /\ PortOf(Member(ports, Key("d"))) = b
      /\ htons(a) = a /\ htons(b) = b
      /\ a \in 1 .. PortRange - 1 /\ b \in 1 .. PortRange - 1
      /\ Meant(config, "c") = <<a>> /\ Meant(config, "d") = <<b>>
  <2>1. "c" \in {"c", "d"} /\ "d" \in {"c", "d"}
    OBVIOUS
  <2>2. config \in Configs \cup PortFiles /\ ports \in Configs \cup PortFiles
    BY <1>1 DEF FilesStay
  <2> QED
    BY <1>2, <2>1, <2>2, MeantPort
<1>5. a # b
  <2>1. Meant(config, "c") # Meant(config, "d")
    BY <1>2 DEF GoodPorts
  <2> QED
    BY <1>4, <2>1
<1>6. /\ ConfiguredPorts(config)[1] = a /\ ConfiguredPorts(config)[2] = b
      /\ ConfiguredPorts(ports)[1] = a /\ ConfiguredPorts(ports)[2] = b
  <2>1. \A file : /\ ConfiguredPorts(file)[1] = PortOf(Member(file, Key("c")))
                  /\ ConfiguredPorts(file)[2] = PortOf(Member(file, Key("d")))
    BY DEF ConfiguredPorts
  <2> HIDE DEF a, b
  <2> QED
    BY <1>4, <2>1
<1> HIDE DEF a, b
<1>7. a # 0 /\ b # 0
  <2>1. PortRange \in Nat
    BY LimitsExact, SetupAssumption
  <2> QED
    BY <1>4, <2>1
<1>8. listening[1] = a /\ listening[2] = b
  <2>1. SetupServer(a, taken) = {a}
    BY <1>2, <1>4, <1>7 DEF SetupServer
  <2>2. listening[1] = a
    BY <1>1, <1>2, <1>6, <2>1 DEF Listens
  <2>3. SetupServer(b, taken \cup {a}) = {b}
    BY <1>2, <1>4, <1>5, <1>7 DEF SetupServer
  <2> QED
    BY <1>1, <1>2, <1>6, <2>2, <2>3 DEF Listens
<1>9. ConnectServer(a) = "command" /\ ConnectServer(b) = "data"
  BY <1>2, <1>4, <1>5, <1>8 DEF ConnectServer
<1>10. reached' = [c \in 1 .. 2 |-> IF c = 1 THEN "command" ELSE "data"]
  <2>1. \A c \in 1 .. 2 : ConnectServer(ConfiguredPorts(ports)[c]) = IF c = 1 THEN "command" ELSE "data"
    <3>1. \A c \in 1 .. 2 : c = 1 \/ c = 2
      OBVIOUS
    <3> QED
      BY <1>6, <1>9, <3>1
  <2> QED
    BY <1>3, <2>1
<1> QED
  BY <1>10

\* A client that is started with the same two good ports as the server connects to the
\* command channel first and to the data channel then (Ports::set_values, setupServer,
\* connectServer).
THEOREM ReachesServerCorrect == SetupSpec => ReachesServer
<1>1. SetupInv /\ [SetupNext]_setupVars => [Meets => reached' = <<"command", "data">>]_setupVars
  BY MeetsRight
<1> QED
  BY <1>1, SetupInvariant, PTL DEF SetupSpec, ReachesServer, Meets
=============================================================================
