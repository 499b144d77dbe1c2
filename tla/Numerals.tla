------------------------------- MODULE Numerals ------------------------------
(***************************************************************************)
(* Natural numbers and their digits in some base.                          *)
(***************************************************************************)
EXTENDS Integers, Sequences

\* b to the power of n.
Power(b, n) ==
    LET power[k \in Nat] == IF k = 0 THEN 1 ELSE b * power[k - 1]
    IN power[n]

\* The last width digits of n, the most significant first.
DigitsOf(b, n, width) == [i \in 1..width |-> (n \div Power(b, width - i)) % b]

\* The number some digits stand for.
ValueOf(b, digits) ==
    LET value[i \in 0..Len(digits)] == IF i = 0 THEN 0 ELSE b * value[i - 1] + digits[i]
    IN value[Len(digits)]
=============================================================================
