------------------------------ MODULE JsonNumbers ------------------------------
(***************************************************************************)
(* The numbers of jsoncpp and their texts.  An integer is a number within  *)
(* the width of its type.  A real is a decimal m * 10^e, written <<m, e>>, *)
(* as exact as the program's doubles are for the few digits the texts have *)
(* here; the sign of a zero is left out.                                   *)
(***************************************************************************)
EXTENDS JsonText
LOCAL INSTANCE FiniteSetsExt

CONSTANTS
    maxInt,         \* 2^31 - 1 in the code
    maxLargestInt,  \* 2^63 - 1 in the code
    MaxExponent     \* 308 in the code: a number of more digits is infinite

ASSUME JsonNumbersAssumption ==
    /\ maxInt \in Nat /\ maxLargestInt \in Nat /\ maxInt <= maxLargestInt
    /\ MaxExponent \in Nat

maxLargestUInt == 2 * maxLargestInt + 1
minLargestInt == -maxLargestInt - 1

Abs(n) == IF n < 0 THEN -n ELSE n

\* m * 10^e, in one way.
Real(m, e) ==
    LET zeros == {k \in 0 .. 9 : m % Power(10, k) = 0}
    IN  IF m = 0 THEN <<0, 0>> ELSE <<m \div Power(10, Max(zeros)), e + Max(zeros)>>

NaN == <<>>

Infinity(sign) == <<sign, 1000>>

isfinite(real) == real # NaN /\ real[2] # 1000

-----------------------------------------------------------------------------
\* The number that digits denote.
Number(digits) ==
    LET upto[i \in 0 .. Len(digits)] ==
            IF i = 0 THEN 0 ELSE 10 * upto[i - 1] + digits[i] - C("0")
    IN  upto[Len(digits)]

Minus(negative) == IF negative THEN <<C("-")>> ELSE <<>>

\* valueToString of an integer: the digits of its absolute value, which for
\* the least one is larger than any integer of its type.
integerToString(n) == Minus(n < 0) \o uintToString(Abs(n))

\* "%.*g" with as many digits as there are: the shortest exact text, with an
\* exponent when the number is too large or too small to do without.
PrintedG(real, precision) ==
    LET digits == uintToString(Abs(real[1]))
        n  == Len(digits)
        x  == n - 1 + real[2]
        exponent == Minus(x < 0) \o (IF Abs(x) < 10 THEN <<C("0")>> ELSE <<>>)
                    \o uintToString(Abs(x))
        point(s) == IF s = <<>> THEN s ELSE <<C(".")>> \o s
    IN  Minus(real[1] < 0) \o
        CASE x < -4 \/ x >= precision ->
                 <<digits[1]>> \o point(Tail(digits)) \o <<C("e")>>
                 \o (IF x < 0 THEN exponent ELSE <<C("+")>> \o exponent)
          [] x \in -4 .. -1 -> <<C("0"), C(".")>> \o [i \in 1 .. -x - 1 |-> C("0")] \o digits
          [] OTHER -> [i \in 1 .. x + 1 |-> IF i <= n THEN digits[i] ELSE C("0")]
                      \o point(SubSeq(digits, x + 2, n))

\* "%.*f": all digits before the point, and so many behind it, rounded.
PrintedF(real, precision) ==
    LET shift  == real[2] + precision
        factor == Power(10, Abs(shift))
        decimals == IF shift >= 0
                    THEN uintToString(Abs(real[1])) \o [i \in 1 .. shift |-> C("0")]
                    ELSE uintToString((Abs(real[1]) + factor \div 2) \div factor)
        padded == [i \in 1 .. precision + 1 - Len(decimals) |-> C("0")] \o decimals
        whole  == Len(padded) - precision
    IN  Minus(real[1] < 0) \o SubSeq(padded, 1, whole)
        \o (IF precision = 0 THEN <<>> ELSE <<C(".")>> \o SubSeq(padded, whole + 1, Len(padded)))

\* fixZerosInTheEnd: the text without the zeros at its end, but for the last
\* one behind the point; with no decimals wanted, without the point as well.
fixZerosInTheEnd(text, precision) ==
    LET AfterPoint(n) == n > 2 /\ text[n - 1] = C(".")
        stops == {n \in 1 .. Len(text) : text[n] # C("0") \/ AfterPoint(n)}
        n == IF stops = {} THEN 0 ELSE Max(stops)
    IN  SubSeq(text, 1, IF n > 0 /\ text[n] = C("0") /\ AfterPoint(n) /\ precision = 0
                        THEN n - 2 ELSE n)

\* The names of what is no finite number: those of JavaScript, or JSON that
\* another parser reads as null or as an overflow.
SpecialFloat(real, useSpecialFloats) ==
    CASE real = NaN -> IF useSpecialFloats THEN Text(<<"N", "a", "N">>)
                                           ELSE Text(<<"n", "u", "l", "l">>)
      [] OTHER -> Minus(real[1] < 0) \o
                  IF useSpecialFloats THEN Text(<<"I", "n", "f", "i", "n", "i", "t", "y">>)
                                      ELSE Text(<<"1", "e", "+", "9", "9", "9", "9">>)

\* A text without a point and an exponent gets ".0", and so is a real again when
\* it is read.
WithPoint(buffer) ==
    IF \E i \in DOMAIN buffer : buffer[i] \in {C("."), C("e")}
    THEN buffer
    ELSE buffer \o Text(<<".", "0">>)

\* valueToString of a double.
doubleToString(real, useSpecialFloats, precision, significant) ==
    CASE ~isfinite(real) -> SpecialFloat(real, useSpecialFloats)
      [] isfinite(real) /\ significant -> WithPoint(PrintedG(real, precision))
      [] OTHER -> fixZerosInTheEnd(WithPoint(PrintedF(real, precision)), precision)

\* Value::asString of a payload of each type; an array or an object has none.
asString(type, val) ==
    CASE type = "null" -> <<>>
      [] type = "string" -> val
      [] type = "boolean" -> IF val = <<1>> THEN Text(<<"t", "r", "u", "e">>)
                                            ELSE Text(<<"f", "a", "l", "s", "e">>)
      [] type \in {"int", "uint"} -> integerToString(val[1])
      [] type = "real" -> doubleToString(val, FALSE, 17, TRUE)
=============================================================================
