----------------------------- MODULE ObisValues -----------------------------
(***************************************************************************)
(* What becomes of a reading on its way out: scaling, choice of the output *)
(* unit, rounding and formatting, in obis.py.                              *)
(*                                                                         *)
(* A decimal number is a pair: m times 10^e.  Everything up to _clean10 is *)
(* exact in the code as well: a register has at most 20 digits and every   *)
(* scale is a power of ten.  _clean10 rounds to Places decimals and raises *)
(* when the result has more digits than the decimal context holds.  What   *)
(* is recorded is a double: an integer of Bits bits times a power of two   *)
(* between 2^-Least and 2^(Exponents - Least).  In the code Places is 10,  *)
(* Digits 28, Bits 53, Least 1074 and Exponents 2045.                      *)
(***************************************************************************)
EXTENDS Numerals, FiniteSetsExt

CONSTANTS
    Places,       \* decimals _clean10 keeps
    Digits,       \* digits of the decimal context
    Bits,         \* bits of a double's mantissa
    Least,        \* the least double is 2^-Least
    Exponents,    \* how many times that can be doubled
    UnitOptions,  \* for each unit code, the labels and the power of ten of each
    NoLabel       \* no output unit was chosen

Ten(n) == Power(10, n)
Two(n) == Power(2, n)

\* Doubles tell last places of small numbers apart, and reach as far as the
\* decimal context.
ASSUME ValuesAssumption ==
    /\ Places \in Nat /\ Digits \in Nat /\ Places <= Digits
    /\ Bits \in Nat \ {0} /\ Least \in Nat /\ Exponents \in Nat
    /\ Two(Bits) * Ten(Places) <= Two(Least)
    /\ Ten(Digits) * Two(Least) <= Two(Bits + Exponents) * Ten(Places)
    /\ \A u \in DOMAIN UnitOptions :
          /\ Len(UnitOptions[u]) \in Nat \ {0} /\ DOMAIN UnitOptions[u] = 1..Len(UnitOptions[u])
          /\ \A i \in DOMAIN UnitOptions[u] :
                UnitOptions[u][i].label # NoLabel /\ UnitOptions[u][i].power \in Int

\* A reading: an integer with its scaler, or an octet string that stays as it is.
Numeric(code, raw, scaler, unit) ==
    [code |-> code, numeric |-> TRUE, raw |-> raw, scaler |-> scaler, unit |-> unit]
Octets(code, raw, unit) ==
    [code |-> code, numeric |-> FALSE, raw |-> raw, scaler |-> 0, unit |-> unit]

Matching(v, label) == {i \in DOMAIN UnitOptions[v.unit] : UnitOptions[v.unit][i].label = label}

\* The option with this label, or the first one when there is none.
Resolve(v, label) ==
    UnitOptions[v.unit][IF Matching(v, label) = {} THEN 1 ELSE Min(Matching(v, label))]

UnitFor(v, label) == Resolve(v, label).label

\* The value in the output unit, exactly.
Scaled(v, label) == [m |-> v.raw, e |-> v.scaler + Resolve(v, label).power]

\* Mistake: halves are rounded up, those of negative numbers towards zero.
Upwards(m, k) == (2 * m + k) \div (2 * k)

\* m / k to the nearest integer, halves away from zero.
HalfUp(m, k) == IF m >= 0 THEN (2 * m + k) \div (2 * k) ELSE -((k - 2 * m) \div (2 * k))

\* A decimal in units of the last place.
Clean10(d) ==
    IF d.e + Places >= 0 THEN d.m * Ten(d.e + Places) ELSE HalfUp(d.m, Ten(-(d.e + Places)))

\* quantize raises InvalidOperation when the result does not fit.
Fits(v, label) ==
    v.numeric => Clean10(Scaled(v, label)) \in (1 - Ten(Digits))..(Ten(Digits) - 1)

Magnitude(x) == IF x < 0 THEN -x ELSE x

\* m / k to the nearest integer, halves to the even one.
HalfEven(m, k) ==
    LET below == m \div k IN
    IF 2 * (m % k) < k \/ (2 * (m % k) = k /\ below % 2 = 0) THEN below ELSE below + 1

\* The first doubling of the least double that tells m / k apart in Bits bits.
Doublings(m, k) == Min({i \in 0..Exponents : Magnitude(m) < Two(Bits + i) * k})

\* float(): the double nearest to x last places, as a multiple of the least one.
Float(x) ==
    LET m == x * Two(Least)
        step == Two(Doublings(m, Ten(Places)))
    IN  step * HalfEven(m, step * Ten(Places))

\* numeric_value, as a multiple of the least double.
NumericValue(v, label) == Float(Clean10(Scaled(v, label)))

\* _format_number: sign, integer part, and the decimals without trailing zeros.
FormatNumber(minus, x) ==
    LET decimals == DigitsOf(10, Magnitude(x), Places)
        last == Max({0} \cup {i \in 1..Places : decimals[i] # 0})
    IN  [minus |-> minus, whole |-> Magnitude(x) \div Ten(Places),
         decimals |-> SubSeq(decimals, 1, last)]

\* value_to_string
ValueToString(v, label) ==
    IF v.numeric THEN FormatNumber(v.raw < 0, Clean10(Scaled(v, label))) ELSE [octets |-> v.raw]

-----------------------------------------------------------------------------
\* The number a subscriber reads in a text, in units of the last place.
ReadBack(text) ==
    LET x == text.whole * Ten(Places)
             + ValueOf(10, text.decimals) * Ten(Places - Len(text.decimals))
    IN  IF text.minus THEN -x ELSE x

\* x is the integer nearest to m / k, and of two as near the one away from zero,
\* as parseFloat(value.toFixed(10)) has it.
NearestAway(m, k, x) ==
    LET off == Magnitude(2 * (x * k - m)) IN
    off < k \/ (off = k /\ Magnitude(x * k) > Magnitude(m))

\* The number of last places that m times 10^e is rounded to.
Nearest(d, x) ==
    IF d.e + Places >= 0 THEN x = d.m * Ten(d.e + Places) ELSE NearestAway(d.m, Ten(-(d.e + Places)), x)

\* The double of n least ones is x last places to within one part in 2^Bits.
SameToTheBit(n, x) ==
    Two(Bits) * Magnitude(n * Ten(Places) - x * Two(Least)) <= Magnitude(x) * Two(Least)
=============================================================================
