----------------------------- MODULE PinPulses -----------------------------
(***************************************************************************)
(* How a PIN reaches the meter: PinController.reset and enter_pin in       *)
(* pin.py, and the digits BruteforceRunner.run writes a candidate in.       *)
(*                                                                         *)
(* All a meter perceives is flashes and the silence between them.  A wave  *)
(* is the sequence of these silences, one behind every flash; a digit zero *)
(* is nothing but more silence.                                            *)
(***************************************************************************)
EXTENDS Numerals

CONSTANTS
    Base,       \* digits of a PIN are smaller (bound; 10 in the code)
    PinLength,  \* BruteforceRunner.length
    digit_gap, group_gap, settle  \* PinConfig, in seconds

ASSUME PulsesAssumption ==
    /\ Base \in Nat \ {0, 1} /\ PinLength \in Nat \ {0}
    /\ digit_gap \in Nat /\ group_gap \in Nat /\ settle \in Nat
    /\ digit_gap < group_gap

Written(n, width) == DigitsOf(Base, n, width)

Width(n) == CHOOSE k \in 1..(n + 1) : n < Power(Base, k) /\ (k = 1 \/ n >= Power(Base, k - 1))

\* Mistake: leading zeros are left out.
Unfilled(n) == Written(n, Width(n))

\* str(value).zfill(length)
ZeroFilled(n) == Written(n, IF Width(n) > PinLength THEN Width(n) ELSE PinLength)

\* The PINs a meter may have; its PIN has no fewer digits than that.
Pins == 0..(Power(Base, PinLength) - 1)

MetersPin(pin) == Written(pin, PinLength)

-----------------------------------------------------------------------------
Sleep(wave, t) == [wave EXCEPT ![Len(wave)] = @ + t]

\* Two flashes that make the meter listen.
Reset == << digit_gap, settle >>

EnterDigit(wave, digit) == Sleep(wave \o [i \in 1..digit |-> digit_gap], group_gap)

EnterPin(pin) ==
    LET wave[i \in 0..Len(pin)] == IF i = 0 THEN Reset ELSE EnterDigit(wave[i - 1], pin[i])
    IN wave[Len(pin)]

-----------------------------------------------------------------------------
(* The meter.                                                              *)

Zeros(k) == [i \in 1..k |-> 0]

\* One more flash, and the silence behind it: a long one ends the digit, a
\* longer one is followed by zeros.
Listen(ear, silence) ==
    LET ends == silence \div group_gap
    IN  IF ends = 0 THEN [ear EXCEPT !.flashes = @ + 1]
        ELSE [digits |-> Append(ear.digits, ear.flashes + 1) \o Zeros(ends - 1), flashes |-> 0]

\* What it has taken in once the silence behind the reset is over.
Awake(wave) == [digits |-> Zeros((wave[2] - settle) \div group_gap), flashes |-> 0]

\* The PIN a meter takes from a wave.
Heard(wave) ==
    LET ear[i \in 0..(Len(wave) - 2)] ==
            IF i = 0 THEN Awake(wave) ELSE Listen(ear[i - 1], wave[i + 2])
    IN ear[Len(wave) - 2].digits
=============================================================================
