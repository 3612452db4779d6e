------------------------------ MODULE JsonQueries ------------------------------
(***************************************************************************)
(* What Json::Value answers without being changed: comparisons, what it    *)
(* can be converted to and what becomes of it, its members in their order. *)
(* A Value is a tree of its own, a scalar one of its nodes.                *)
(***************************************************************************)
EXTENDS JsonTree, JsonNumbers
LOCAL INSTANCE SequencesExt

CONSTANT MantissaBits   \* 53 in the code: the bits that a double has for a number

ASSUME JsonQueriesAssumption ==
    MantissaBits \in Nat \ {0} /\ 2 * maxInt + 1 < Power(2, MantissaBits)

minInt == -maxInt - 1
maxUInt == 2 * maxInt + 1

-----------------------------------------------------------------------------
(***************************************************************************)
(* Doubles.                                                                *)
(***************************************************************************)
\* static_cast<double>: the nearest number that the bits can hold.
AsDouble(n) ==
    LET k == CHOOSE k \in 0 .. 20 : /\ Abs(n) < Power(2, MantissaBits + k)
                                    /\ k > 0 => Abs(n) >= Power(2, MantissaBits + k - 1)
        unit == Power(2, k)
        q == Abs(n) \div unit
        twice == 2 * (Abs(n) % unit)
        nearest == IF twice > unit \/ (twice = unit /\ q % 2 = 1) THEN q + 1 ELSE q
    IN  (IF n < 0 THEN -1 ELSE 1) * nearest * unit

\* Two reals as integers of one scale.
Scaled(real, other) ==
    LET least == IF real[2] < other[2] THEN real[2] ELSE other[2]
    IN  real[1] * Power(10, real[2] - least)

\* real < other: with NaN never.
RealLess(real, other) ==
    CASE NaN \in {real, other} -> FALSE
      [] isfinite(real) /\ isfinite(other) -> Scaled(real, other) < Scaled(other, real)
      [] NaN \notin {real, other} /\ ~(isfinite(real) /\ isfinite(other)) ->
             real # other /\ ((~isfinite(real) /\ real[1] < 0) \/ (~isfinite(other) /\ other[1] > 0))

AtLeast(real, n) == real # NaN /\ ~RealLess(real, Real(AsDouble(n), 0))
AtMost(real, n) == real # NaN /\ ~RealLess(Real(AsDouble(n), 0), real)
LessThan(real, n) == RealLess(real, Real(AsDouble(n), 0))

IsIntegral(real) == real # NaN /\ real[2] >= 0

InRange(real, min, max) == AtLeast(real, min) /\ AtMost(real, max)

Truncated(real) ==
    LET n == IF real[2] >= 0 THEN Abs(real[1]) * Power(10, real[2])
                             ELSE Abs(real[1]) \div Power(10, -real[2])
    IN  IF real[1] < 0 THEN -n ELSE n

-----------------------------------------------------------------------------
(***************************************************************************)
(* Conversions of a node.                                                  *)
(***************************************************************************)
IntegerTypes == {"int", "uint"}

isNumeric(v) == v.type \in IntegerTypes \cup {"real"}

isInt(v) ==
    \/ v.type \in IntegerTypes /\ v.val[1] \in minInt .. maxInt
    \/ v.type = "real" /\ InRange(v.val, minInt, maxInt) /\ IsIntegral(v.val)

isUInt(v) ==
    \/ v.type \in IntegerTypes /\ v.val[1] \in 0 .. maxUInt
    \/ v.type = "real" /\ InRange(v.val, 0, maxUInt) /\ IsIntegral(v.val)

\* Mutant: the limit itself passes, which as a double is one more.
IsInt64Rounded(v) ==
    \/ v.type = "int"
    \/ v.type = "uint" /\ v.val[1] <= maxLargestInt
    \/ v.type = "real" /\ InRange(v.val, minLargestInt, maxLargestInt) /\ IsIntegral(v.val)

\* The limits as doubles are one more than the greatest integers.
isInt64(v) ==
    \/ v.type = "int"
    \/ v.type = "uint" /\ v.val[1] <= maxLargestInt
    \/ /\ v.type = "real" /\ AtLeast(v.val, minLargestInt) /\ LessThan(v.val, maxLargestInt)
       /\ IsIntegral(v.val)

isUInt64(v) ==
    \/ v.type = "int" /\ v.val[1] >= 0
    \/ v.type = "uint"
    \/ v.type = "real" /\ AtLeast(v.val, 0) /\ LessThan(v.val, maxLargestUInt) /\ IsIntegral(v.val)

isIntegral(v) ==
    \/ v.type \in IntegerTypes
    \/ /\ v.type = "real" /\ AtLeast(v.val, minLargestInt) /\ LessThan(v.val, maxLargestUInt)
       /\ IsIntegral(v.val)

Answer(val) == [ok |-> TRUE, val |-> val]
Throws == [ok |-> FALSE, val |-> <<>>]

\* What the integer conversions have in common.
AsInteger(v, fits, min, max) ==
    CASE v.type \in IntegerTypes -> IF fits THEN Answer(v.val[1]) ELSE Throws
      [] v.type = "real" -> IF InRange(v.val, min, max) THEN Answer(Truncated(v.val)) ELSE Throws
      [] v.type = "null" -> Answer(0)
      [] v.type = "boolean" -> Answer(v.val[1])
      [] OTHER -> Throws

asInt(v) == AsInteger(v, isInt(v), minInt, maxInt)
asUInt(v) == AsInteger(v, isUInt(v), 0, maxUInt)
asInt64(v) == AsInteger(v, isInt64(v), minLargestInt, maxLargestInt)
asUInt64(v) == AsInteger(v, isUInt64(v), 0, maxLargestUInt)

asDouble(v) ==
    CASE v.type \in IntegerTypes -> Answer(Real(AsDouble(v.val[1]), 0))
      [] v.type = "real" -> Answer(v.val)
      [] v.type = "null" -> Answer(Real(0, 0))
      [] v.type = "boolean" -> Answer(Real(v.val[1], 0))
      [] OTHER -> Throws

\* Zero and NaN are FALSE.
asBool(v) ==
    CASE v.type \in IntegerTypes \cup {"boolean"} -> Answer(v.val[1] # 0)
      [] v.type = "real" -> Answer(v.val \notin {NaN, Real(0, 0)})
      [] v.type = "null" -> Answer(FALSE)
      [] OTHER -> Throws

asText(v) == IF v.type \in Containers THEN Throws ELSE Answer(asString(v.type, v.val))

isConvertibleTo(tree, other) ==
    LET v == tree[<<>>]
        simple == v.type \in {"boolean", "null"}
    IN  CASE other = "null" ->
                 \/ isNumeric(v) /\ asDouble(v).val = Real(0, 0)
                 \/ v.type = "boolean" /\ v.val = <<0>>
                 \/ v.type = "string" /\ v.val = <<>>
                 \/ v.type \in Containers /\ Children(tree, <<>>) = {}
                 \/ v.type = "null"
          [] other = "int" -> isInt(v) \/ (v.type = "real" /\ InRange(v.val, minInt, maxInt)) \/ simple
          [] other = "uint" -> isUInt(v) \/ (v.type = "real" /\ InRange(v.val, 0, maxUInt)) \/ simple
          [] other \in {"real", "boolean"} -> isNumeric(v) \/ simple
          [] other = "string" -> isNumeric(v) \/ simple \/ v.type = "string"
          [] OTHER -> v.type \in {other, "null"}

-----------------------------------------------------------------------------
(***************************************************************************)
(* Order.                                                                  *)
(***************************************************************************)
Child(tree, key) == Subtree(tree, <<key>>)

\* operator<: by type, then by value; containers by the number of what they
\* hold, and then as std::map compares its pairs.
Less(a, b) ==
    LET values == UNION {{Subtree(v, p) : p \in DOMAIN v} : v \in {a, b}}
        Rank(type) == CHOOSE i \in DOMAIN Types : Types[i] = type
        less[v \in values, w \in values] ==
            LET x  == v[<<>>]
                y  == w[<<>>]
                ks == Members(v, <<>>)
                ls == Members(w, <<>>)
                PairLess(k, l) == KeyLess(k, l) \/ (~KeyLess(l, k) /\ less[Child(v, k), Child(w, l)])
                PairMore(k, l) == KeyLess(l, k) \/ (~KeyLess(k, l) /\ less[Child(w, l), Child(v, k)])
                Tied(i) == ~PairLess(ks[i], ls[i]) /\ ~PairMore(ks[i], ls[i])
            IN  CASE x.type # y.type -> Rank(x.type) < Rank(y.type)
                  [] x.type = y.type /\ x.type \in {"int", "uint", "boolean"} -> x.val[1] < y.val[1]
                  [] x.type = y.type /\ x.type = "real" -> RealLess(x.val, y.val)
                  [] x.type = y.type /\ x.type = "string" -> KeyLess(x.val, y.val)
                  [] x.type = y.type /\ x.type \in Containers ->
                         \/ Len(ks) < Len(ls)
                         \/ /\ Len(ks) = Len(ls)
                            /\ \E i \in DOMAIN ks : PairLess(ks[i], ls[i]) /\ \A j \in 1 .. i - 1 : Tied(j)
                  [] OTHER -> FALSE
    IN  less[a, b]

compare(a, b) == IF Less(a, b) THEN -1 ELSE IF Less(b, a) THEN 1 ELSE 0

\* operator==: whatever was noted with the Values.
Equal(a, b) ==
    /\ DOMAIN a = DOMAIN b
    /\ \A p \in DOMAIN a :
           /\ a[p].type = b[p].type /\ a[p].val = b[p].val
           /\ a[p].type = "real" => a[p].val # NaN

-----------------------------------------------------------------------------
(***************************************************************************)
(* Members.                                                                *)
(***************************************************************************)
May(v, type) == v[<<>>].type \in {"null", type}

\* find, and with it operator[] const, isMember, get: what is at a key, if a null
\* or a container may be asked for it.
find(v, type, key) ==
    IF ~May(v, type)
    THEN Throws
    ELSE Answer(IF <<key>> \in DOMAIN v THEN {Child(v, key)} ELSE {})

get(v, type, key, default) ==
    LET found == find(v, type, key)
    IN  CASE ~found.ok -> found
          [] found.ok /\ found.val = {} -> Answer(default)
          [] OTHER -> Answer(CHOOSE x \in found.val : TRUE)

\* Mutant: the last element is no valid one.
IsValidIndexShort(v, i) == i + 1 < size(v, <<>>)

isValidIndex(v, i) == i < size(v, <<>>)

empty(v) == v[<<>>].type \in Containers \cup {"null"} /\ size(v, <<>>) = 0

getMemberNames(v) == IF May(v, "object") THEN Answer(Members(v, <<>>)) ELSE Throws

\* name() of an iterator that is at a key; there is none in an array.
iteratorName(key) == IF IsIndex(key) THEN <<>> ELSE key
=============================================================================
