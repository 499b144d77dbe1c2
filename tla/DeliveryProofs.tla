---------------------------- MODULE DeliveryProofs ----------------------------
(***************************************************************************)
(* Proofs about Delivery, for any meters, mappings, readings and chunks.   *)
(***************************************************************************)
EXTENDS Delivery, MeterManagerProofs, Recursion, FiniteSetTheorems

-----------------------------------------------------------------------------
(* Delivery only looks into the callback: what holds of MeterManager holds *)
(* here.                                                                   *)

\* Every step of Delivery is one of the manager and its readers, or happens
\* inside a callback and changes nothing of theirs (manager.py:108-135).
THEOREM ManagerInside == DeliverySpec => Spec
<1>1. DeliveryInit => Init
  BY DEF DeliveryInit
<1>2. [DeliveryNext]_allVars => [Next]_vars
  BY DEF DeliveryNext, ManagerStep, Around, Callback, BeginResult, HandleValue, HandleRaises, allVars
<1> QED
  BY <1>1, <1>2, PTL DEF DeliverySpec, Spec

-----------------------------------------------------------------------------
(* Numbers and texts.                                                      *)

LEMMA TenPower ==
    ASSUME NEW n \in Nat
    PROVE  Ten(n) \in Nat \ {0}
  BY PowerPositive DEF Ten

\* Rounding goes to the nearest integer, halves away from zero, and keeps the sign.
LEMMA HalfUpNearest ==
    ASSUME NEW m \in Int, NEW k \in Nat \ {0}
    PROVE  /\ HalfUp(m, k) \in Int
           /\ NearestAway(m, k, HalfUp(m, k))
           /\ m >= 0 => HalfUp(m, k) >= 0
           /\ m < 0 => HalfUp(m, k) <= 0
<1>0. 2 * k \in Nat \ {0}
  OBVIOUS
<1>1. ASSUME NEW n \in Int
      PROVE  /\ n \div (2 * k) \in Int /\ n % (2 * k) \in 0..(2 * k - 1)
             /\ n = (2 * k) * (n \div (2 * k)) + (n % (2 * k))
  BY <1>0, Division
<1>2. ASSUME NEW q \in Int PROVE (2 * k) * q = 2 * (q * k) /\ 2 * (q * k - m) = 2 * (q * k) - 2 * m /\ q * k \in Int
                                 /\ (-q) * k = -(q * k)
  OBVIOUS
<1>3. ASSUME NEW q \in Int, 0 <= (2 * k) * q + (2 * k - 1) PROVE q >= 0
  <2> SUFFICES ASSUME q <= -1 PROVE FALSE
    OBVIOUS
  <2>1. (2 * k) * q <= (2 * k) * (-1)
    OBVIOUS
  <2> QED
    BY <1>3, <2>1
<1>4. CASE m >= 0
  <2> DEFINE q == (2 * m + k) \div (2 * k)
             r == (2 * m + k) % (2 * k)
  <2>1. q \in Int /\ r \in 0..(2 * k - 1) /\ 2 * m + k = (2 * k) * q + r
    <3>1. 2 * m + k \in Int
      OBVIOUS
    <3> QED
      BY <1>1, <3>1
  <2>2. HalfUp(m, k) = q
    BY <1>4 DEF HalfUp
  <2> HIDE DEF q, r
  <2>3. (2 * k) * q = 2 * (q * k) /\ 2 * (q * k - m) = 2 * (q * k) - 2 * m /\ q * k \in Int
    BY <1>2, <2>1
  <2>4. q >= 0
    BY <1>3, <1>4, <2>1
  <2>5. NearestAway(m, k, q)
    <3> DEFINE p == q * k
    <3>1. p \in Int /\ 2 * (p - m) = k - r
      BY <2>1, <2>3
    <3> HIDE DEF p
    <3>2. Magnitude(2 * (p - m)) < k \/ (Magnitude(2 * (p - m)) = k /\ Magnitude(p) > Magnitude(m))
      BY <1>4, <2>1, <3>1 DEF Magnitude
    <3> QED
      BY <3>2 DEF NearestAway, p
  <2> QED
    BY <1>4, <2>1, <2>2, <2>4, <2>5
<1>5. CASE m < 0
  <2> DEFINE q == (k - 2 * m) \div (2 * k)
             r == (k - 2 * m) % (2 * k)
  <2>1. q \in Int /\ r \in 0..(2 * k - 1) /\ k - 2 * m = (2 * k) * q + r
    <3>1. k - 2 * m \in Int
      OBVIOUS
    <3> QED
      BY <1>1, <3>1
  <2>2. HalfUp(m, k) = -q
    BY <1>5 DEF HalfUp
  <2> HIDE DEF q, r
  <2>3. (2 * k) * q = 2 * (q * k) /\ q * k \in Int /\ (-q) * k = -(q * k)
    BY <1>2, <2>1
  <2>4. q >= 0
    BY <1>3, <1>5, <2>1
  <2>5. 2 * ((-q) * k - m) = -(2 * (q * k)) - 2 * m
    BY <2>3
  <2>6. NearestAway(m, k, -q)
    <3> DEFINE p == (-q) * k
    <3>1. p \in Int /\ 2 * (p - m) = r - k
      BY <2>1, <2>3, <2>5
    <3> HIDE DEF p
    <3>2. Magnitude(2 * (p - m)) < k \/ (Magnitude(2 * (p - m)) = k /\ Magnitude(p) > Magnitude(m))
      BY <1>5, <2>1, <3>1 DEF Magnitude
    <3> QED
      BY <3>2 DEF NearestAway, p
  <2> QED
    BY <1>5, <2>1, <2>2, <2>4, <2>6
<1> QED
  BY <1>4, <1>5

\* What a label stands for: the same option as that of the unit it leads to.
LEMMA ResolvedUnit ==
    ASSUME NEW v, v.unit \in DOMAIN UnitOptions, NEW label
    PROVE  /\ Resolve(v, label).power \in Int
           /\ Resolve(v, UnitFor(v, label)) = Resolve(v, label)
<1> DEFINE options == UnitOptions[v.unit]
           first(l) == IF Matching(v, l) = {} THEN 1 ELSE Min(Matching(v, l))
<1>1. /\ Len(options) \in Nat \ {0} /\ DOMAIN options = 1..Len(options)
      /\ \A i \in DOMAIN options : options[i].power \in Int
  BY ValuesAssumption DEF ValuesAssumption
<1> HIDE DEF options
<1>2. \A l : Resolve(v, l) = options[first(l)]
  BY DEF Resolve, options
<1>3. \A l : Matching(v, l) = {i \in DOMAIN options : options[i].label = l}
  BY DEF Matching, options
<1>4. ASSUME NEW l PROVE /\ first(l) \in DOMAIN options
                         /\ \A i \in Matching(v, l) : first(l) \in Matching(v, l) /\ first(l) <= i
  <2>1. Matching(v, l) \in SUBSET Nat /\ 1 \in DOMAIN options
    BY <1>1, <1>3
  <2>2. Matching(v, l) # {} => Min(Matching(v, l)) \in Matching(v, l) /\ \A i \in Matching(v, l) : Min(Matching(v, l)) <= i
    BY <2>1, SmallestOf
  <2> QED
    BY <1>3, <2>1, <2>2
<1> HIDE DEF first
<1> DEFINE k == first(label)
           unit == options[k].label
<1>5. UnitFor(v, label) = unit
  BY <1>2 DEF UnitFor
<1>6. k \in Matching(v, unit)
  BY <1>3, <1>4
<1>7. first(unit) = k
  <2>1. first(unit) \in Matching(v, unit) /\ first(unit) <= k
    BY <1>4, <1>6
  <2>2. k <= first(unit)
    <3>1. CASE Matching(v, label) # {}
      <4>1. unit = label
        BY <1>3, <1>4, <3>1
      <4> QED
        BY <1>4, <2>1, <4>1
    <3>2. CASE Matching(v, label) = {}
      <4>1. k = 1 /\ first(unit) \in 1..Len(options)
        BY <1>1, <1>4, <3>2 DEF first
      <4> QED
        BY <4>1
    <3> QED
      BY <3>1, <3>2
  <2>3. k \in Nat /\ first(unit) \in Nat
    BY <1>1, <1>4
  <2> QED
    BY <2>1, <2>2, <2>3
<1> QED
  BY <1>1, <1>2, <1>4, <1>5, <1>7

\* A number in units of the last place is an integer of the reading's sign.
LEMMA NumberType ==
    ASSUME NEW v, NEW label, v.unit \in DOMAIN UnitOptions, v.raw \in Int, v.scaler \in Int
    PROVE  /\ Clean10(Scaled(v, label)) \in Int
           /\ v.raw >= 0 => Clean10(Scaled(v, label)) >= 0
           /\ v.raw < 0 => Clean10(Scaled(v, label)) <= 0
           /\ Nearest(Scaled(v, label), Clean10(Scaled(v, label)))
<1> DEFINE d == Scaled(v, label)
           e == d.e + Places
<1>1. d.m = v.raw /\ e \in Int
  BY ResolvedUnit, ValuesAssumption DEF Scaled, ValuesAssumption
<1> HIDE DEF d
<1>2. Clean10(Scaled(v, label)) = IF e >= 0 THEN v.raw * Ten(e) ELSE HalfUp(v.raw, Ten(-e))
  BY <1>1 DEF Clean10, d
<1>3. Nearest(d, Clean10(Scaled(v, label))) <=>
        IF e >= 0 THEN Clean10(Scaled(v, label)) = v.raw * Ten(e)
        ELSE NearestAway(v.raw, Ten(-e), Clean10(Scaled(v, label)))
  BY <1>1 DEF Nearest
<1> HIDE DEF e
<1>4. CASE e >= 0
  <2>1. Ten(e) \in Nat \ {0}
    BY <1>1, <1>4, TenPower
  <2>2. \A x \in Nat \ {0} : /\ v.raw * x \in Int /\ (v.raw >= 0 => v.raw * x >= 0)
                              /\ (v.raw < 0 => v.raw * x <= 0)
    OBVIOUS
  <2> QED
    BY <1>2, <1>3, <1>4, <2>1, <2>2 DEF d
<1>5. CASE e < 0
  <2>1. Ten(-e) \in Nat \ {0} /\ ~(e >= 0)
    <3>1. -e \in Nat
      BY <1>1, <1>5
    <3> QED
      BY <1>1, <1>5, <3>1, TenPower
  <2> QED
    BY <1>2, <1>3, <2>1, HalfUpNearest DEF d
<1> QED
  BY <1>1, <1>4, <1>5

\* A text says the number it is made of.
LEMMA TextReadBack ==
    ASSUME NEW x \in Int, NEW minus \in BOOLEAN, x < 0 => minus, x > 0 => ~minus
    PROVE  ReadBack(FormatNumber(minus, x)) = x
<1> DEFINE a == Magnitude(x)
           decimals == DigitsOf(10, a, Places)
           S == {0} \cup {i \in 1..Places : decimals[i] # 0}
           last == Max(S)
           shown == SubSeq(decimals, 1, last)
<1>1. Places \in Nat /\ Ten(Places) \in Nat \ {0} /\ a \in Nat
  BY TenPower, ValuesAssumption DEF ValuesAssumption, Magnitude
<1>2. FormatNumber(minus, x) = [minus |-> minus, whole |-> a \div Ten(Places), decimals |-> shown]
  BY DEF FormatNumber
<1> HIDE DEF a, decimals
<1>3. decimals \in Seq(Nat) /\ Len(decimals) = Places
  <2>1. 10 \in Nat \ {0} /\ 0..(10 - 1) \in SUBSET Nat /\ a \in Int
    BY <1>1
  <2>2. decimals \in Seq(0..(10 - 1)) /\ Len(decimals) = Places
    BY <1>1, <2>1, DigitsType DEF decimals
  <2> QED
    BY <2>1, <2>2
<1>4. last \in 0..Places /\ \A i \in (last + 1)..Places : decimals[i] = 0
  <2>1. S \in SUBSET (0..Places) /\ S # {}
    BY <1>1
  <2>2. last \in S /\ \A i \in S : last >= i
    <3> HIDE DEF S
    <3> QED
      BY <1>1, <2>1, LargestOf
  <2> HIDE DEF last
  <2>3. last \in 0..Places
    BY <2>1, <2>2
  <2>4. ASSUME NEW i \in (last + 1)..Places PROVE decimals[i] = 0
    BY <1>1, <2>2, <2>3
  <2> QED
    BY <2>3, <2>4
<1> HIDE DEF S, last
<1>5. Len(shown) = last
  BY <1>3, <1>4
<1>6. ValueOf(10, decimals) = ValueOf(10, shown) * Ten(Places - last)
  <2>1. 10 \in Nat \ {0}
    OBVIOUS
  <2> QED
    BY <1>3, <1>4, <2>1, TrailingZeros DEF Ten
<1>7. ValueOf(10, decimals) = a % Ten(Places)
  <2>1. 10 \in Nat \ {0, 1}
    OBVIOUS
  <2> QED
    BY <1>1, <2>1, DigitsAddUp DEF Ten, decimals
<1>8. a = (a \div Ten(Places)) * Ten(Places) + ValueOf(10, shown) * Ten(Places - last)
  <2> DEFINE t == Ten(Places)
  <2>0. t \in Nat \ {0} /\ a \in Int
    BY <1>1
  <2> HIDE DEF t
  <2>1. a = t * (a \div t) + (a % t) /\ a \div t \in Int
    BY <2>0, Division
  <2>2. t * (a \div t) = (a \div t) * t
    BY <2>0, <2>1
  <2>3. a % t = ValueOf(10, shown) * Ten(Places - last)
    BY <1>6, <1>7 DEF t
  <2>4. a = (a \div t) * t + ValueOf(10, shown) * Ten(Places - last)
    BY <2>1, <2>2, <2>3, Zenon
  <2> QED
    BY <2>4 DEF t
<1> DEFINE text == FormatNumber(minus, x)
<1> HIDE DEF shown
<1>9. text.minus = minus /\ text.whole = a \div Ten(Places) /\ text.decimals = shown
  BY <1>2
<1> HIDE DEF text
<1>10. ReadBack(text) = IF minus THEN -a ELSE a
  <2> DEFINE y == (a \div Ten(Places)) * Ten(Places) + ValueOf(10, shown) * Ten(Places - Len(shown))
  <2>1. ReadBack(text) = IF minus THEN -y ELSE y
    BY <1>9 DEF ReadBack
  <2>2. y = a
    BY <1>5, <1>8
  <2> QED
    BY <2>1, <2>2
<1>11. (IF minus THEN -a ELSE a) = x
  BY DEF a, Magnitude
<1> QED
  BY <1>10, <1>11 DEF text

\* The text of a numeric reading says its number.
LEMMA ShownNumber ==
    ASSUME NEW v, NEW label, v.numeric, v.unit \in DOMAIN UnitOptions, v.raw \in Int, v.scaler \in Int
    PROVE  ReadBack(ValueToString(v, label)) = Clean10(Scaled(v, label))
<1> DEFINE x == Clean10(Scaled(v, label))
           minus == v.raw < 0
<1>1. x \in Int /\ minus \in BOOLEAN /\ (x < 0 => minus) /\ (x > 0 => ~minus)
  BY NumberType
<1>2. ValueToString(v, label) = FormatNumber(minus, x)
  BY DEF ValueToString
<1> HIDE DEF x, minus
<1> QED
  BY <1>1, <1>2, TextReadBack DEF x

\* Rounding to even goes to the nearest integer as well.
LEMMA HalfEvenNearest ==
    ASSUME NEW m \in Int, NEW k \in Nat \ {0}
    PROVE  /\ HalfEven(m, k) \in Int
           /\ Magnitude(2 * (HalfEven(m, k) * k - m)) <= k
           /\ m = 0 => HalfEven(m, k) = 0
<1> DEFINE f == m \div k
           r == m % k
<1>1. f \in Int /\ r \in 0..(k - 1) /\ m = k * f + r
  BY Division
<1>2. (HalfEven(m, k) = f /\ 2 * r <= k) \/ (HalfEven(m, k) = f + 1 /\ 2 * r >= k)
  BY <1>1 DEF HalfEven
<1>3. m = 0 => f = 0 /\ r = 0
  <2> SUFFICES ASSUME m = 0 PROVE f = 0 /\ r = 0
    OBVIOUS
  <2> QED
    BY SMT
<1>4. m = 0 => HalfEven(m, k) = 0
  BY <1>3 DEF HalfEven
<1> HIDE DEF f, r
<1>5. f * k \in Int /\ k * f = f * k /\ (f + 1) * k = f * k + k
  BY <1>1
<1>6. CASE HalfEven(m, k) = f /\ 2 * r <= k
  <2>1. 2 * (f * k - m) = -(2 * r)
    BY <1>1, <1>5
  <2>2. Magnitude(2 * (f * k - m)) <= k
    BY <1>1, <1>6, <2>1 DEF Magnitude
  <2> QED
    BY <1>1, <1>4, <1>6, <2>2
<1>7. CASE HalfEven(m, k) = f + 1 /\ 2 * r >= k
  <2>1. 2 * ((f + 1) * k - m) = 2 * k - 2 * r
    BY <1>1, <1>5
  <2>2. Magnitude(2 * ((f + 1) * k - m)) <= k
    BY <1>1, <1>7, <2>1 DEF Magnitude
  <2>3. f + 1 \in Int /\ HalfEven(m, k) = f + 1
    BY <1>1, <1>7
  <2> QED
    BY <1>4, <2>2, <2>3
<1> QED
  BY <1>2, <1>6, <1>7

LEMMA TwoPower ==
    ASSUME NEW n \in Nat
    PROVE  Two(n) \in Nat \ {0}
  BY PowerPositive DEF Two

\* A double says the number it is made of, but for what Bits bits cannot hold.
LEMMA FloatSame ==
    ASSUME NEW x \in Int, Magnitude(x) < Ten(Digits)
    PROVE  SameToTheBit(Float(x), x)
<1> DEFINE t == Ten(Places)
           l == Two(Least)
           b == Two(Bits)
           m == x * l
           S == {i \in 0..Exponents : Magnitude(m) < Two(Bits + i) * t}
           d == Min(S)
           step == Two(d)
           k == step * t
           h == HalfEven(m, k)
<1>1. /\ t \in Nat \ {0} /\ l \in Nat \ {0} /\ b \in Nat \ {0} /\ Ten(Digits) \in Nat
      /\ Exponents \in Nat /\ Bits \in Nat /\ Two(Bits + Exponents) \in Nat
      /\ b * t <= l /\ Ten(Digits) * l <= Two(Bits + Exponents) * t
  BY TenPower, TwoPower, ValuesAssumption DEF ValuesAssumption
<1>2. m \in Int /\ Magnitude(x) \in Nat /\ Magnitude(m) = Magnitude(x) * l
  <2>1. /\ x * l \in Int /\ (-x) * l = -(x * l)
        /\ (x < 0 => x * l < 0) /\ (x >= 0 => x * l >= 0)
    BY <1>1
  <2> QED
    BY <2>1 DEF Magnitude
<1>3. Float(x) = step * h
  BY DEF Float, Doublings
<1>4. Exponents \in S
  <2>1. Magnitude(x) * l < Ten(Digits) * l
    BY <1>1, <1>2
  <2> QED
    BY <1>1, <1>2, <2>1
<1>5. S \in SUBSET Nat /\ S # {}
  <2>1. S \subseteq 0..Exponents /\ 0..Exponents \subseteq Nat
    OBVIOUS
  <2> HIDE DEF S
  <2> QED
    BY <1>4, <2>1
<1> HIDE DEF m, S
<1>6. d \in S /\ \A i \in S : d <= i
  BY <1>5, SmallestOf
<1> HIDE DEF d
<1>7. d \in 0..Exponents /\ step \in Nat \ {0} /\ k \in Nat \ {0}
  <2>1. d \in 0..Exponents
    BY <1>6 DEF S
  <2>2. step \in Nat \ {0}
    BY <1>1, <2>1, TwoPower
  <2> QED
    BY <1>1, <2>1, <2>2
<1>8. h \in Int /\ Magnitude(2 * (h * k - m)) <= k /\ (m = 0 => h = 0)
  BY <1>2, <1>7, HalfEvenNearest
<1>9. Float(x) * t - x * l = h * k - m
  <2>1. (step * h) * t = h * k
    BY <1>1, <1>7, <1>8
  <2> QED
    BY <1>3, <2>1 DEF m
<1> HIDE DEF t, l, b, step, h
<1>10. b * k <= 2 * Magnitude(m) \/ m = 0
  <2>1. CASE d = 0
    <3>1. Magnitude(m) < b * t
      BY <1>1, <1>6, <2>1 DEF S, b
    <3>2. Magnitude(x) * l < l
      BY <1>1, <1>2, <3>1
    <3>3. Magnitude(x) = 0
      <4> SUFFICES ASSUME Magnitude(x) >= 1 PROVE FALSE
        BY <1>2
      <4>1. Magnitude(x) * l >= 1 * l
        BY <1>1, <1>2
      <4> QED
        BY <1>1, <1>2, <3>2, <4>1
    <3> QED
      BY <1>1, <1>2, <3>3 DEF Magnitude
  <2>2. CASE d # 0
    <3>1. d - 1 \in 0..Exponents /\ d - 1 \notin S /\ Bits + (d - 1) \in Nat
      BY <1>1, <1>6, <1>7, <2>2
    <3> DEFINE half == Two(Bits + (d - 1))
    <3>2. half \in Nat \ {0} /\ Magnitude(m) \in Nat
      BY <1>2, <3>1, TwoPower DEF Magnitude
    <3>3. half * t <= Magnitude(m)
      BY <1>1, <3>1, <3>2 DEF S
    <3>4. b * step = 2 * half
      <4>1. Two(Bits + d) = b * step
        BY <1>1, <1>7, PowerSum DEF Two, b, step
      <4>2. Two((Bits + (d - 1)) + 1) = 2 * half
        BY <3>1, PowerEquation DEF Two
      <4>3. (Bits + (d - 1)) + 1 = Bits + d
        BY <1>1, <1>7
      <4> QED
        BY <4>1, <4>2, <4>3
    <3> HIDE DEF half
    <3>5. b * k = 2 * (half * t)
      <4>1. b * (step * t) = (b * step) * t
        BY <1>1, <1>7
      <4>2. (2 * half) * t = 2 * (half * t)
        BY <1>1, <3>2
      <4> QED
        BY <3>4, <4>1, <4>2
    <3> QED
      BY <1>1, <3>2, <3>3, <3>5
  <2> QED
    BY <2>1, <2>2
<1> DEFINE off == h * k - m
<1>11. b * Magnitude(off) <= Magnitude(m)
  <2>0. off \in Int /\ Magnitude(off) \in Nat /\ Magnitude(2 * off) = 2 * Magnitude(off) /\ Magnitude(m) \in Nat
    <3>1. h * k \in Int
      BY <1>7, <1>8
    <3>2. off \in Int
      BY <1>2, <3>1
    <3> HIDE DEF off
    <3> QED
      BY <1>2, <3>2 DEF Magnitude
  <2>1. CASE m = 0
    <3>1. off = 0
      BY <1>7, <1>8, <2>1
    <3> HIDE DEF off
    <3> QED
      BY <1>1, <2>1, <3>1 DEF Magnitude
  <2>2. CASE b * k <= 2 * Magnitude(m)
    <3>1. 2 * Magnitude(off) <= k
      BY <1>8, <2>0
    <3> DEFINE y == Magnitude(off)
    <3> HIDE DEF y, k, off
    <3>2. b * (2 * y) <= b * k /\ b * (2 * y) = 2 * (b * y) /\ b * y \in Nat /\ b * k \in Nat
      BY <1>1, <1>7, <2>0, <3>1 DEF y
    <3> QED
      BY <2>0, <2>2, <3>2 DEF y
  <2> QED
    BY <1>10, <2>1, <2>2
<1> QED
  BY <1>2, <1>9, <1>11 DEF SameToTheBit, t, l, b

\* What is recorded of a reading that can be shown is what its text says.
LEMMA RecordedSame ==
    ASSUME NEW v, NEW label, v.numeric, v.unit \in DOMAIN UnitOptions, v.raw \in Int, v.scaler \in Int,
           Fits(v, label)
    PROVE  SameToTheBit(NumericValue(v, label), ReadBack(ValueToString(v, label)))
<1> DEFINE x == Clean10(Scaled(v, label))
<1>1. x \in Int /\ ReadBack(ValueToString(v, label)) = x /\ Ten(Digits) \in Nat
  BY NumberType, ShownNumber, TenPower, ValuesAssumption DEF ValuesAssumption
<1>2. NumericValue(v, label) = Float(x)
  BY DEF NumericValue
<1>3. x \in (1 - Ten(Digits))..(Ten(Digits) - 1)
  BY DEF Fits
<1> HIDE DEF x
<1>4. Magnitude(x) < Ten(Digits)
  BY <1>1, <1>3 DEF Magnitude
<1> QED
  BY <1>1, <1>2, <1>4, FloatSame

-----------------------------------------------------------------------------
(* Codes of a result.                                                      *)

CodesOf(result) == {result[i].code : i \in DOMAIN result}

\* What is left of a result, and its first value, make up the result.
LEMMA FirstAndRest ==
    ASSUME NEW V, NEW s \in Seq(V), s # <<>>
    PROVE  /\ Tail(s) \in Seq(V)
           /\ CodesOf(s) = {Head(s).code} \cup CodesOf(Tail(s))
           /\ Len(s) = 1 => CodesOf(Tail(s)) = {}
<1>1. /\ Tail(s) \in Seq(V) /\ Len(s) \in Nat /\ Len(Tail(s)) = Len(s) - 1
      /\ DOMAIN s = 1..Len(s) /\ DOMAIN Tail(s) = 1..(Len(s) - 1)
      /\ \A i \in 1..(Len(s) - 1) : Tail(s)[i] = s[i + 1]
      /\ Head(s) = s[1] /\ Len(s) > 0
  BY HeadTailProperties
<1>2. \A i \in DOMAIN s : s[i].code \in {Head(s).code} \cup CodesOf(Tail(s))
  <2> SUFFICES ASSUME NEW i \in 1..Len(s), i # 1 PROVE s[i].code \in CodesOf(Tail(s))
    BY <1>1
  <2>1. i - 1 \in 1..(Len(s) - 1) /\ Tail(s)[i - 1] = s[i]
    BY <1>1
  <2> QED
    BY <1>1, <2>1 DEF CodesOf
<1>3. Head(s).code \in CodesOf(s)
  BY <1>1 DEF CodesOf
<1>4. \A i \in DOMAIN Tail(s) : Tail(s)[i].code \in CodesOf(s)
  <2> SUFFICES ASSUME NEW i \in 1..(Len(s) - 1) PROVE Tail(s)[i].code \in CodesOf(s)
    BY <1>1
  <2>1. i + 1 \in DOMAIN s /\ Tail(s)[i] = s[i + 1]
    BY <1>1
  <2> QED
    BY <2>1 DEF CodesOf
<1>5. CodesOf(s) = {Head(s).code} \cup CodesOf(Tail(s))
  BY <1>2, <1>3, <1>4 DEF CodesOf
<1>6. Len(s) = 1 => CodesOf(Tail(s)) = {}
  BY <1>1 DEF CodesOf
<1> QED
  BY <1>1, <1>5, <1>6

LEMMA NoCodes == CodesOf(<<>>) = {}
BY DEF CodesOf

-----------------------------------------------------------------------------
(* The page.                                                               *)

Resulting == Seq(Values)

DeliveryTypes ==
    /\ results \in [Workers -> Seq(Resulting)]
    /\ rest \in [Workers -> Resulting]
    /\ discovered = [r \in Workers |-> discovered[r]]
    /\ latest \in [Workers -> Resulting]
    /\ madeWith = [r \in Workers |-> madeWith[r]]
    /\ sent = [m \in Meters |-> sent[m]]
    /\ rpc \in [Workers -> Phases]

FreshCodes(r) == {c \in DOMAIN discovered[r] : discovered[r][c].fresh}

Converts(r, v) == Shows(r, v) /\ Sends(r, v)

\* Reader r has handled n values of its latest result, and has the others in hand.
Reached(r, n) ==
    /\ Len(latest[r]) = n + Len(rest[r])
    /\ \A i \in 1..Len(rest[r]) : rest[r][i] = latest[r][n + i]
    /\ \A k \in 1..n : Converts(r, latest[r][k])
    /\ FreshCodes(r) = {latest[r][k].code : k \in 1..n}

\* Between two values of a result the page has those that have been handled, and
\* only a reader in its callback has any in hand; a slot that nobody uses has
\* nothing to show.
Whole(r) ==
    /\ rest[r] # <<>> => rpc[r] = "deliver" /\ \E n \in Nat : Reached(r, n)
    /\ rest[r] = <<>> => FreshCodes(r) = ShownPart(r)
    /\ Fresh(r[1], r[2]) => discovered[r] = Nothing /\ latest[r] = <<>>

PageInv == DeliveryTypes /\ \A r \in Workers : Whole(r)

\* What the page is to show, seen from the value in hand.
LEMMA PartShown ==
    ASSUME DeliveryTypes, NEW r \in Workers, NEW n \in Nat, Reached(r, n), rest[r] # <<>>
    PROVE  LET v == Head(rest[r]) IN
           /\ ~Shows(r, v) => ShownPart(r) = FreshCodes(r)
           /\ Shows(r, v) /\ ~Sends(r, v) => ShownPart(r) = FreshCodes(r) \cup {v.code}
           /\ Shows(r, v) /\ Sends(r, v) /\ Tail(rest[r]) = <<>> => ShownPart(r) = FreshCodes(r) \cup {v.code}
           /\ Shows(r, v) /\ Sends(r, v) => \A k \in 1..(n + 1) : Converts(r, latest[r][k])
           /\ {latest[r][k].code : k \in 1..(n + 1)} = FreshCodes(r) \cup {v.code}
<1> DEFINE v == Head(rest[r])
           s == latest[r]
           P == {k \in DOMAIN s : /\ Shows(r, s[k])
                                  /\ \A i \in 1..(k - 1) : Shows(r, s[i]) /\ Sends(r, s[i])}
<1>1. /\ s \in Seq(Values) /\ rest[r] \in Seq(Values) /\ Len(rest[r]) \in Nat \ {0}
      /\ Len(Tail(rest[r])) = Len(rest[r]) - 1 /\ v = rest[r][1]
  BY HeadTailProperties DEF DeliveryTypes, Resulting
<1>2. DOMAIN s = 1..Len(s) /\ Len(s) = n + Len(rest[r]) /\ v = s[n + 1]
  BY <1>1 DEF Reached
<1>3. \A k \in 1..n : Shows(r, s[k]) /\ Sends(r, s[k])
  BY DEF Reached, Converts
<1>4. FreshCodes(r) = {s[k].code : k \in 1..n}
  BY DEF Reached
<1>5. {s[k].code : k \in 1..(n + 1)} = FreshCodes(r) \cup {v.code}
  BY <1>2, <1>4
<1>6. ShownPart(r) = {s[k].code : k \in P}
  BY DEF ShownPart
<1> HIDE DEF v, s
<1>7. 1..n \in SUBSET P /\ n + 1 \in DOMAIN s
  BY <1>1, <1>2, <1>3
<1>8. ~Shows(r, v) => P = 1..n
  <2> SUFFICES ASSUME ~Shows(r, v), NEW k \in P PROVE k \in 1..n
    BY <1>7
  <2>1. k \in 1..Len(s) /\ k # n + 1 /\ (n + 1 \in 1..(k - 1) => Shows(r, s[n + 1]))
    BY <1>2
  <2> QED
    BY <1>1, <1>2, <2>1
<1>9. Shows(r, v) /\ (~Sends(r, v) \/ Tail(rest[r]) = <<>>) => P = 1..(n + 1)
  <2> SUFFICES ASSUME Shows(r, v), ~Sends(r, v) \/ Tail(rest[r]) = <<>> PROVE P = 1..(n + 1)
    OBVIOUS
  <2>1. 1..(n + 1) \in SUBSET P
    BY <1>2, <1>3, <1>7
  <2>2. ASSUME NEW k \in P PROVE k \in 1..(n + 1)
    <3>1. k \in 1..Len(s) /\ (n + 1 \in 1..(k - 1) => Sends(r, s[n + 1]))
      BY <1>2
    <3>2. Tail(rest[r]) = <<>> => Len(s) = n + 1
      <4>1. Len(<<>>) = 0
        OBVIOUS
      <4>2. Tail(rest[r]) = <<>> => Len(rest[r]) - 1 = 0
        BY <1>1, <4>1, Zenon
      <4>3. \A l \in Nat : l - 1 = 0 => n + l = n + 1
        OBVIOUS
      <4>4. Tail(rest[r]) = <<>> => n + Len(rest[r]) = n + 1
        BY <1>1, <4>2, <4>3
      <4> QED
        BY <1>2, <4>4
    <3> QED
      BY <1>1, <1>2, <3>1, <3>2
  <2> QED
    BY <2>1, <2>2
<1> HIDE DEF P
<1>10. Shows(r, v) /\ Sends(r, v) => \A k \in 1..(n + 1) : Converts(r, s[k])
  BY <1>2, <1>3 DEF Converts
<1>11. /\ ~Shows(r, v) => ShownPart(r) = FreshCodes(r)
       /\ Shows(r, v) /\ ~Sends(r, v) => ShownPart(r) = FreshCodes(r) \cup {v.code}
       /\ Shows(r, v) /\ Sends(r, v) /\ Tail(rest[r]) = <<>> => ShownPart(r) = FreshCodes(r) \cup {v.code}
  BY <1>4, <1>5, <1>6, <1>8, <1>9
<1> QED
  BY <1>5, <1>10, <1>11 DEF v, s

\* What Discover does to the codes on the page.
LEMMA DiscoverEffect ==
    ASSUME DeliveryTypes, NEW r \in Workers, NEW v, NEW label, Discover(r, v, label)
    PROVE  /\ discovered' = [q \in Workers |-> discovered'[q]]
           /\ \A q \in Workers \ {r} : discovered'[q] = discovered[q]
           /\ DOMAIN discovered'[r] = DOMAIN discovered[r] \cup {v.code}
           /\ FreshCodes(r)' = FreshCodes(r) \cup {v.code}
<1>1. discovered' = [discovered EXCEPT ![r] = Put(discovered[r], v.code,
          [text |-> ValueToString(v, label), unit |-> UnitFor(v, label), fresh |-> TRUE])]
  BY DEF Discover
<1>2. discovered'[r] = Put(discovered[r], v.code,
          [text |-> ValueToString(v, label), unit |-> UnitFor(v, label), fresh |-> TRUE])
  BY <1>1 DEF DeliveryTypes
<1>3. DOMAIN discovered'[r] = DOMAIN discovered[r] \cup {v.code}
  BY <1>2 DEF Put
<1>4. discovered'[r][v.code].fresh = TRUE
  BY <1>2 DEF Put
<1>5. \A c \in DOMAIN discovered[r] : c # v.code => discovered'[r][c] = discovered[r][c]
  BY <1>2 DEF Put
<1>6. FreshCodes(r)' = FreshCodes(r) \cup {v.code}
  BY <1>3, <1>4, <1>5 DEF FreshCodes
<1> QED
  BY <1>1, <1>3, <1>6 DEF DeliveryTypes

\* A slot is launched only when it is free.
LEMMA LaunchedFresh ==
    ASSUME TypeInv, Next, NEW r \in Workers, Launched(r)
    PROVE  Fresh(r[1], r[2])
<1>1. rpc'[r] # rpc[r] /\ ~Live(r)
  BY DEF Launched, Live
<1>2. ~ReaderStep(r)
  BY <1>1, ReaderStepEffect DEF TypeInv, TypeOK
<1> QED
  BY <1>1, <1>2, WhoMoves

\* What a reader has reached is its own affair.
LEMMA ReachedStays ==
    ASSUME NEW q \in Workers, NEW n \in Nat, Reached(q, n),
           rest'[q] = rest[q], latest'[q] = latest[q], FreshCodes(q)' = FreshCodes(q),
           \A v : Shows(q, v)' = Shows(q, v) /\ Sends(q, v)' = Sends(q, v)
    PROVE  Reached(q, n)'
  BY DEF Reached, Converts

LEMMA ManagerKeepsPage ==
    ASSUME DeliveryAssumption, TypeInv, TypeOK', PageInv, Around(Next)
    PROVE  PageInv'
<1> USE DEF PageInv
<1>1. /\ UNCHANGED <<rest, sent>>
      /\ discovered' = [r \in Workers |-> IF Gone(r) THEN Nothing ELSE discovered[r]]
      /\ latest' = [r \in Workers |-> IF Gone(r) THEN <<>> ELSE latest[r]]
      /\ madeWith' = [r \in Workers |->
                         IF Launched(r) THEN config[r[1]] ELSE IF Gone(r) THEN None ELSE madeWith[r]]
      /\ \A r \in Workers : rpc[r] = "deliver" /\ rpc'[r] # "deliver" => rest[r] = <<>>
      /\ Next
  BY DEF Around, Kept
<1>2. PICK chunk \in Chunks : results' = [r \in Workers |->
          IF rpc[r] = "read" /\ rpc'[r] = "deliver" THEN chunk ELSE results[r]]
  BY DEF Around
<1>3. results' \in [Workers -> Seq(Resulting)]
  BY <1>2 DEF DeliveryAssumption, DeliveryTypes, Resulting
<1>4. rpc' \in [Workers -> Phases]
  BY DEF TypeOK, ReaderTypeOK
<1>5. DeliveryTypes'
  <2>1. <<>> \in Resulting
    BY DEF Resulting
  <2> QED
    BY <1>1, <1>3, <1>4, <2>1 DEF DeliveryTypes
<1>6. ASSUME NEW r \in Workers PROVE Whole(r)'
  <2>1. rest[r] # <<>> => rpc'[r] = "deliver"
    BY <1>1 DEF Whole
  <2>2. CASE discovered'[r] = Nothing /\ latest'[r] = <<>> /\ rest'[r] = <<>>
    <3>1. FreshCodes(r)' = {} /\ ShownPart(r)' = {}
      BY <2>2 DEF FreshCodes, Nothing, ShownPart
    <3> QED
      BY <2>2, <3>1 DEF Whole
  <2>3. CASE Gone(r)
    <3>1. r = <<r[1], r[2]>>
      BY DEF Workers
    <3>2. rpc'[r] = "off"
      BY <2>3, <3>1 DEF Gone, Fresh, Live
    <3> QED
      BY <1>1, <2>1, <2>2, <2>3, <3>2
  <2>4. CASE Launched(r) /\ ~Gone(r)
    <3>1. Fresh(r[1], r[2]) /\ rest[r] = <<>>
      BY <1>1, <2>4, LaunchedFresh DEF Launched, Whole
    <3> QED
      BY <1>1, <2>2, <2>4, <3>1 DEF Whole
  <2>5. CASE ~Launched(r) /\ ~Gone(r)
    <3>1. /\ discovered'[r] = discovered[r] /\ latest'[r] = latest[r]
          /\ madeWith'[r] = madeWith[r] /\ rest'[r] = rest[r]
      BY <1>1, <2>5
    <3>2. FreshCodes(r)' = FreshCodes(r)
      BY <3>1 DEF FreshCodes
    <3>3. \A v : Shows(r, v)' = Shows(r, v) /\ Sends(r, v)' = Sends(r, v)
      BY <3>1 DEF Shows, Sends
    <3>4. ShownPart(r)' = ShownPart(r)
      BY <3>1, <3>3 DEF ShownPart
    <3>5. \A n \in Nat : Reached(r, n) => Reached(r, n)'
      BY <3>1, <3>2, <3>3, ReachedStays
    <3>6. ~Fresh(r[1], r[2])'
      BY <2>5 DEF Gone
    <3> QED
      BY <2>1, <3>1, <3>2, <3>4, <3>5, <3>6 DEF Whole
  <2> QED
    BY <2>3, <2>4, <2>5
<1> QED
  BY <1>5, <1>6

\* A callback leaves the manager and the slots as they are.
LEMMA CallbackInside ==
    ASSUME PageInv, NEW r \in Workers, Callback(r)
    PROVE  /\ rpc' = rpc /\ madeWith' = madeWith /\ rpc[r] = "deliver" /\ ~Fresh(r[1], r[2])
           /\ \A q \in Workers : Fresh(q[1], q[2])' = Fresh(q[1], q[2])
<1>1. /\ rpc' = rpc /\ madeWith' = madeWith /\ rpc[r] = "deliver"
      /\ workers' = workers /\ job' = job
  BY DEF Callback, BeginResult, HandleValue, HandleRaises, LockHeld, PageInv, Whole, vars, readerVars, managerVars
<1>2. r = <<r[1], r[2]>>
  BY DEF Workers
<1> QED
  BY <1>1, <1>2 DEF Fresh, Live, Holds, Held

\* A callback of r leaves the readers it does not belong to as they were.
LEMMA OthersWhole ==
    ASSUME PageInv, NEW q \in Workers,
           rpc' = rpc, rest'[q] = rest[q], discovered'[q] = discovered[q],
           latest'[q] = latest[q], madeWith'[q] = madeWith[q],
           Fresh(q[1], q[2])' = Fresh(q[1], q[2])
    PROVE  Whole(q)'
<1>1. FreshCodes(q)' = FreshCodes(q)
  BY DEF FreshCodes
<1>2. \A v : Shows(q, v)' = Shows(q, v) /\ Sends(q, v)' = Sends(q, v)
  BY DEF Shows, Sends
<1>3. ShownPart(q)' = ShownPart(q)
  BY <1>2 DEF ShownPart
<1>4. \A n \in Nat : Reached(q, n) => Reached(q, n)'
  BY <1>1, <1>2, ReachedStays
<1> QED
  BY <1>1, <1>3, <1>4 DEF PageInv, Whole

LEMMA CallbackKeepsPage ==
    ASSUME DeliveryAssumption, PageInv, NEW r \in Workers, Callback(r)
    PROVE  PageInv'
<1> USE DEF PageInv
<1>0. /\ rpc' = rpc /\ madeWith' = madeWith /\ rpc[r] = "deliver" /\ ~Fresh(r[1], r[2])
      /\ \A q \in Workers : Fresh(q[1], q[2])' = Fresh(q[1], q[2])
  BY CallbackInside
<1>00. \A v : Shows(r, v)' = Shows(r, v) /\ Sends(r, v)' = Sends(r, v)
  BY <1>0 DEF Shows, Sends
<1>1. CASE BeginResult(r)
  <2>1. Head(results[r]) \in Resulting /\ Tail(results[r]) \in Seq(Resulting)
    BY <1>1, HeadTailProperties DEF BeginResult, DeliveryTypes
  <2>2. DeliveryTypes'
    BY <1>0, <1>1, <2>1 DEF BeginResult, DeliveryTypes
  <2>3. /\ discovered'[r] = Aged(discovered[r]) /\ rest'[r] = Head(results[r])
        /\ latest'[r] = Head(results[r])
    BY <1>1 DEF BeginResult, DeliveryTypes
  <2>4. FreshCodes(r)' = {}
    BY <2>3 DEF Aged, FreshCodes
  <2>5. Reached(r, 0)'
    <3>1. Len(Head(results[r])) \in Nat /\ 1..0 = {}
      BY <2>1 DEF Resulting
    <3> QED
      BY <2>3, <2>4, <3>1 DEF Reached
  <2>6. rest'[r] = <<>> => ShownPart(r)' = {}
    BY <2>3 DEF ShownPart
  <2>7. Whole(r)'
    BY <1>0, <2>4, <2>5, <2>6 DEF Whole
  <2>8. \A q \in Workers \ {r} : Whole(q)'
    BY <1>0, <1>1, OthersWhole DEF BeginResult, DeliveryTypes
  <2> QED
    BY <2>2, <2>7, <2>8
<1>2. CASE HandleValue(r)
  <2> DEFINE v == Head(rest[r])
             label == UnitByObis(madeWith[r], v.code)
  <2>1. /\ LockHeld(r) /\ Discover(r, v, label) /\ Publish(r, v) /\ Shows(r, v) /\ Sends(r, v)
        /\ rest' = [rest EXCEPT ![r] = Tail(rest[r])]
        /\ UNCHANGED <<results, latest>>
    BY <1>2 DEF HandleValue
  <2>2. PICK n \in Nat : Reached(r, n)
    BY <2>1 DEF LockHeld, Whole
  <2>3. /\ Tail(rest[r]) = <<>> => ShownPart(r) = FreshCodes(r) \cup {v.code}
        /\ \A k \in 1..(n + 1) : Converts(r, latest[r][k])
        /\ {latest[r][k].code : k \in 1..(n + 1)} = FreshCodes(r) \cup {v.code}
    BY <2>1, <2>2, PartShown DEF LockHeld
  <2>4. /\ Tail(rest[r]) \in Resulting /\ Len(Tail(rest[r])) = Len(rest[r]) - 1 /\ Len(rest[r]) \in Nat
        /\ \A i \in 1..(Len(rest[r]) - 1) : Tail(rest[r])[i] = rest[r][i + 1]
    BY <2>1, HeadTailProperties DEF LockHeld, DeliveryTypes, Resulting
  <2>5. sent' = [m \in Meters |-> sent'[m]]
    BY <2>1 DEF Publish, DeliveryTypes
  <2> HIDE DEF v, label
  <2>6. /\ discovered' = [q \in Workers |-> discovered'[q]]
        /\ \A q \in Workers \ {r} : discovered'[q] = discovered[q]
        /\ FreshCodes(r)' = FreshCodes(r) \cup {v.code}
    BY <2>1, DiscoverEffect
  <2>7. DeliveryTypes'
    BY <1>0, <2>1, <2>4, <2>5, <2>6 DEF DeliveryTypes
  <2>8. rest'[r] = Tail(rest[r]) /\ latest'[r] = latest[r]
    BY <2>1 DEF DeliveryTypes
  <2>9. Reached(r, n + 1)'
    <3>1. Len(latest[r]) = (n + 1) + Len(Tail(rest[r]))
      <4>1. Len(latest[r]) = n + Len(rest[r])
        BY <2>2 DEF Reached
      <4>2. \A a, b \in Int : a + b = (a + 1) + (b - 1)
        OBVIOUS
      <4> QED
        BY <2>4, <4>1, <4>2
    <3>2. \A i \in 1..Len(Tail(rest[r])) : Tail(rest[r])[i] = latest[r][(n + 1) + i]
      <4> SUFFICES ASSUME NEW i \in 1..(Len(rest[r]) - 1) PROVE rest[r][i + 1] = latest[r][(n + 1) + i]
        BY <2>4
      <4>1. i + 1 \in 1..Len(rest[r]) /\ n + (i + 1) = (n + 1) + i
        BY <2>4
      <4> QED
        BY <2>2, <4>1 DEF Reached
    <3>3. \A k \in 1..(n + 1) : Converts(r, latest[r][k])'
      BY <1>00, <2>3, <2>8 DEF Converts
    <3> QED
      BY <2>3, <2>6, <2>8, <3>1, <3>2, <3>3 DEF Reached
  <2>10. ShownPart(r)' = ShownPart(r)
    BY <1>00, <2>8 DEF ShownPart
  <2>11. Whole(r)'
    <3>1. n + 1 \in Nat
      OBVIOUS
    <3> QED
      BY <1>0, <2>3, <2>6, <2>8, <2>9, <2>10, <3>1 DEF Whole
  <2>12. \A q \in Workers \ {r} : Whole(q)'
    BY <1>0, <2>1, <2>6, OthersWhole DEF DeliveryTypes
  <2> QED
    BY <2>7, <2>11, <2>12
<1>3. CASE HandleRaises(r)
  <2> DEFINE v == Head(rest[r])
             label == UnitByObis(madeWith[r], v.code)
  <2>1. /\ LockHeld(r)
        /\ \/ ~Shows(r, v) /\ discovered' = discovered
           \/ Shows(r, v) /\ ~Sends(r, v) /\ Discover(r, v, label)
        /\ rest' = [rest EXCEPT ![r] = <<>>]
        /\ UNCHANGED <<results, latest, sent>>
    BY <1>3 DEF HandleRaises
  <2>2. PICK n \in Nat : Reached(r, n)
    BY <2>1 DEF LockHeld, Whole
  <2>3. /\ ~Shows(r, v) => ShownPart(r) = FreshCodes(r)
        /\ Shows(r, v) /\ ~Sends(r, v) => ShownPart(r) = FreshCodes(r) \cup {v.code}
    BY <2>1, <2>2, PartShown DEF LockHeld
  <2> HIDE DEF v, label
  <2>4. /\ discovered' = [q \in Workers |-> discovered'[q]]
        /\ \A q \in Workers \ {r} : discovered'[q] = discovered[q]
        /\ FreshCodes(r)' = ShownPart(r)
    <3>1. CASE discovered' = discovered /\ ~Shows(r, v)
      BY <2>3, <3>1 DEF DeliveryTypes, FreshCodes
    <3>2. CASE Shows(r, v) /\ ~Sends(r, v) /\ Discover(r, v, label)
      BY <2>3, <3>2, DiscoverEffect
    <3> QED
      BY <2>1, <3>1, <3>2
  <2>5. <<>> \in Resulting
    BY DEF Resulting
  <2>6. DeliveryTypes'
    BY <1>0, <2>1, <2>4, <2>5 DEF DeliveryTypes
  <2>7. rest'[r] = <<>> /\ latest'[r] = latest[r]
    BY <2>1 DEF DeliveryTypes
  <2>8. ShownPart(r)' = ShownPart(r)
    BY <1>00, <2>7 DEF ShownPart
  <2>9. Whole(r)'
    BY <1>0, <2>4, <2>7, <2>8 DEF Whole
  <2>10. \A q \in Workers \ {r} : Whole(q)'
    BY <1>0, <2>1, <2>4, OthersWhole DEF DeliveryTypes
  <2> QED
    BY <2>6, <2>9, <2>10
<1> QED
  BY <1>1, <1>2, <1>3 DEF Callback

LEMMA PageInvariant == ASSUME DeliveryAssumption PROVE DeliverySpec => []PageInv
<1>1. DeliveryInit => PageInv
  <2> SUFFICES ASSUME DeliveryInit PROVE PageInv
    OBVIOUS
  <2>1. DeliveryTypes
    BY DEF DeliveryInit, DeliveryTypes, Resulting, Init, ReaderInit, Phases
  <2>2. \A r \in Workers : Whole(r)
    BY DEF DeliveryInit, Whole, FreshCodes, ShownPart, Nothing
  <2> QED
    BY <2>1, <2>2 DEF PageInv
<1>2. TypeInv /\ TypeOK' /\ PageInv /\ [DeliveryNext]_allVars => PageInv'
  <2> SUFFICES ASSUME TypeInv, TypeOK', PageInv, [DeliveryNext]_allVars PROVE PageInv'
    OBVIOUS
  <2>1. CASE ManagerStep
    BY <2>1, ManagerKeepsPage DEF ManagerStep
  <2>2. ASSUME NEW r \in Workers, Callback(r) PROVE PageInv'
    BY <2>2, CallbackKeepsPage
  <2>3. CASE UNCHANGED allVars
    <3>1. DeliveryTypes' /\ UNCHANGED <<rest, rpc, discovered, latest, madeWith>>
      BY <2>3 DEF allVars, deliveryVars, vars, readerVars, PageInv, DeliveryTypes
    <3>2. \A q \in Workers : Fresh(q[1], q[2])' = Fresh(q[1], q[2])
      BY <2>3 DEF allVars, vars, managerVars, readerVars, Fresh, Live, Holds, Held
    <3> QED
      BY <3>1, <3>2, OthersWhole DEF PageInv
  <2> QED
    BY <2>1, <2>2, <2>3 DEF DeliveryNext
<1> QED
  BY <1>1, <1>2, ManagerInside, OwnershipInvariant, Typing, PTL DEF DeliverySpec

\* Whenever the page can be drawn it has the latest result up to the first value
\* that cannot be converted, and nothing else that is fresh (manager.py:116-135),
\* for any mappings, readings and chunks.
THEOREM PageShown == ASSUME DeliveryAssumption PROVE DeliverySpec => []PageShowsResult
<1>1. PageInv => PageShowsResult
  BY DEF PageInv, Whole, PageShowsResult, LockHeld, FreshCodes
<1> QED
  BY <1>1, PageInvariant, PTL

-----------------------------------------------------------------------------
(* Mappings that are gone.                                                 *)

\* How a meter comes to have a registered worker: it had it, or it was started
\* with the config of that moment.
LEMMA Registering ==
    ASSUME TypeInv, [Next]_vars, NEW m \in Meters, Registered(m)'
    PROVE  \/ /\ Registered(m) /\ workers'[m] = workers[m] /\ madeFor'[m] = madeFor[m]
              /\ ~Launched(<<m, workers[m]>>)
           \/ /\ Launched(<<m, workers'[m]>>) /\ workers'[m] \in Slots /\ Fresh(m, workers'[m])
              /\ madeFor'[m] = config[m] /\ config[m] \in EnabledConfigs
<1> USE DEF TypeInv, TypeOK, ManagerTypeOK, Registered
<1>0. workers'[m] = workers[m] => <<m, workers[m]>> \in Workers
  BY DEF Workers
<1>1. ASSUME rpc' = rpc, workers'[m] = workers[m], madeFor'[m] = madeFor[m] PROVE ~Launched(<<m, workers[m]>>)
  BY <1>1 DEF Launched
<1>2. ASSUME NEW n \in Meters, NEW s \in Slots, StartWorker(n, s), Wanted(n)
      PROVE  \/ /\ workers'[m] = workers[m] /\ madeFor'[m] = madeFor[m] /\ ~Launched(<<m, workers[m]>>)
             \/ /\ Launched(<<m, workers'[m]>>) /\ workers'[m] \in Slots /\ Fresh(m, workers'[m])
                /\ madeFor'[m] = config[m] /\ config[m] \in EnabledConfigs
  <2>1. CASE n = m
    BY <1>2, <2>1 DEF StartWorker, Launch, Launched, Live, Go, Wanted, Workers, ReaderTypeOK
  <2>2. CASE n # m
    BY <1>0, <1>2, <2>2 DEF StartWorker, Launch, Launched, Live, Go, Workers, ReaderTypeOK
  <2> QED
    BY <2>1, <2>2
<1>3. CASE ApplyBegin \/ StopBegin \/ UNCHANGED vars
  BY <1>1, <1>3 DEF ApplyBegin, StopBegin, vars, readerVars, managerVars
<1>4. CASE LockHolderStep
  <2>1. ASSUME NEW n \in Meters, HaltWorker(n) \/ Joined(n)
        PROVE  rpc' = rpc /\ workers'[m] = workers[m] /\ madeFor'[m] = madeFor[m]
    BY <2>1 DEF HaltWorker, SetStop, Joined, managerVars, readerVars
  <2>2. ASSUME NEW n \in Meters, NEW s \in Slots, StartNext(n, s) PROVE StartWorker(n, s) /\ Wanted(n)
    BY <2>2 DEF StartNext, ToStart
  <2>3. ~StopEnd
    BY DEF StopEnd
  <2>4. EndUpdate => rpc' = rpc /\ workers' = workers /\ madeFor' = madeFor
    BY DEF EndUpdate, readerVars
  <2> QED
    BY <1>1, <1>2, <1>4, <2>1, <2>2, <2>3, <2>4 DEF LockHolderStep
<1>5. ASSUME NEW j \in Jobs, NEW n \in Meters, Reserve(j, n)
      PROVE  rpc' = rpc /\ workers'[m] = workers[m] /\ madeFor'[m] = madeFor[m]
  BY <1>5 DEF Reserve, ReserveKeeping, readerVars
<1>6. ASSUME NEW j \in Jobs, JobStep(j), ~Release(j)
      PROVE  rpc' = rpc /\ workers'[m] = workers[m] /\ madeFor'[m] = madeFor[m]
  BY <1>6, JobMoves, JobReaders
<1>7. ASSUME NEW j \in Jobs, Release(j)
      PROVE  \/ UNCHANGED <<rpc, workers, madeFor>>
             \/ \E n \in Meters, s \in Slots : StartWorker(n, s) /\ Wanted(n)
  <2>1. job[j].meter \in Meters
    BY <1>7 DEF Release, ReleaseLeaving, JobsWellFormed, JobRecord
  <2> QED
    BY <1>7, <2>1 DEF Release, ReleaseLeaving, readerVars
<1>8. ASSUME NEW r \in Workers, ReaderThread(r)
      PROVE  /\ workers'[m] = workers[m] /\ madeFor'[m] = madeFor[m]
             /\ ~Launched(<<m, workers[m]>>)
  <2>1. workers' = workers /\ madeFor' = madeFor /\ ReaderStep(r)
    BY <1>8 DEF ReaderThread, managerVars
  <2>2. \A q \in Workers : Live(q)' => Live(q)
    BY <2>1, ReaderStepEffect
  <2> QED
    BY <1>0, <2>1, <2>2 DEF Launched, Live
<1> QED
  BY <1>1, <1>2, <1>3, <1>4, <1>5, <1>6, <1>7, <1>8 DEF Next

\* The config a registered worker object was made with is the one the manager
\* remembers, and an enabled one.
MadeInv ==
    \A m \in Meters : Registered(m) =>
        madeWith[<<m, workers[m]>>] = madeFor[m] /\ madeFor[m] \in EnabledConfigs

LEMMA MadeStep ==
    ASSUME TypeInv, MadeInv, [DeliveryNext]_allVars
    PROVE  MadeInv'
<1> USE DEF TypeInv, TypeOK, ManagerTypeOK
<1>1. CASE ManagerStep
  <2> SUFFICES ASSUME NEW m \in Meters, Registered(m)'
               PROVE  madeWith'[<<m, workers'[m]>>] = madeFor'[m] /\ madeFor'[m] \in EnabledConfigs
    BY DEF MadeInv
  <2>1. /\ Next
        /\ madeWith' = [r \in Workers |->
                IF Launched(r) THEN config[r[1]] ELSE IF Gone(r) THEN None ELSE madeWith[r]]
    BY <1>1 DEF ManagerStep, Around
  <2>2. CASE /\ Registered(m) /\ workers'[m] = workers[m] /\ madeFor'[m] = madeFor[m]
             /\ ~Launched(<<m, workers[m]>>)
    <3>1. <<m, workers[m]>> \in Workers
      BY <2>2 DEF Registered, Workers
    <3>2. ~Gone(<<m, workers[m]>>)
      BY <2>2 DEF Gone, Fresh
    <3> QED
      BY <2>1, <2>2, <3>1, <3>2 DEF MadeInv
  <2>3. CASE /\ Launched(<<m, workers'[m]>>) /\ workers'[m] \in Slots
             /\ madeFor'[m] = config[m] /\ config[m] \in EnabledConfigs
    <3>1. <<m, workers'[m]>> \in Workers
      BY <2>3 DEF Workers
    <3> QED
      BY <2>1, <2>3, <3>1
  <2> QED
    BY <2>1, <2>2, <2>3, Registering
<1>2. ASSUME NEW r \in Workers, Callback(r) PROVE MadeInv'
  BY <1>2 DEF Callback, BeginResult, HandleValue, HandleRaises, vars, managerVars, MadeInv, Registered
<1>3. CASE UNCHANGED allVars
  BY <1>3 DEF allVars, deliveryVars, vars, managerVars, MadeInv, Registered
<1> QED
  BY <1>1, <1>2, <1>3 DEF DeliveryNext

\* What a value is published under, when nobody is editing, the current
\* mappings of its meter ask for.
LEMMA PublishedIsAskedFor ==
    ASSUME DeliveryAssumption, TypeInv, Ownership, Prompt, MadeInv, PageInv,
           NEW r \in Workers, NEW v, LockHeld(r), lock = "free", r[1] \notin reserved,
           EnabledFor(madeWith[r], v.code) # {}
    PROVE  AskedFor(r[1], v.code, EnabledMapping(madeWith[r], v.code).topic)
<1> USE DEF TypeInv, TypeOK, ManagerTypeOK
<1>1. Live(r) /\ r = <<r[1], r[2]>> /\ r[1] \in Meters
  BY DEF LockHeld, PageInv, Whole, Live, Workers
<1>2. workers[r[1]] = r[2]
  <2>1. \A j \in Jobs : Holds(j, r) /\ job[j].pc # "idle" => r[1] \in reserved
    BY DEF Holds, Held, Ownership, Reservation, ReservedByOneJob
  <2> QED
    BY <1>1, <2>1 DEF Prompt, LiveOwned
<1>3. Registered(r[1])
  BY <1>1, <1>2, ConstantsAssumption DEF Registered, Workers
<1>4. madeWith[r] = config[r[1]] /\ config[r[1]] \in EnabledConfigs
  BY <1>1, <1>2, <1>3 DEF MadeInv, Ownership, WorkersCurrent, HaltsRegistered
<1> DEFINE cfg == config[r[1]]
<1>6. cfg # None /\ cfg \in MeterConfigs
  BY <1>4, ConstantsAssumption DEF MeterConfigs
<1>7. Len(MappingsOf[cfg]) \in Nat /\ DOMAIN MappingsOf[cfg] = 1..Len(MappingsOf[cfg])
  BY <1>6 DEF DeliveryAssumption
<1>8. EnabledFor(cfg, v.code) \in SUBSET (0..Len(MappingsOf[cfg])) /\ EnabledFor(cfg, v.code) # {}
  BY <1>4, <1>7 DEF EnabledFor, MappingsFor
<1>9. Max(EnabledFor(cfg, v.code)) \in EnabledFor(cfg, v.code)
  BY <1>7, <1>8, LargestOf
<1> QED
  BY <1>4, <1>6, <1>9 DEF AskedFor, EnabledMapping

\* Once an edit is applied nothing is published that the current mappings of
\* the meter do not ask for (manager.py:253-258).
THEOREM RetiredSilent ==
    ASSUME SlowCalls = {}, DeliveryAssumption
    PROVE  DeliverySpec => RetiredMappingsSilent
<1> DEFINE Inv == TypeInv /\ Ownership /\ Prompt /\ MadeInv /\ PageInv
           Asked == \A m \in Meters \ reserved : \A t \in DOMAIN sent'[m] \ DOMAIN sent[m] :
                       lock = "free" => AskedFor(m, sent'[m][t].reading.code, t)
<1>1. ASSUME Inv, NEW r \in Workers, HandleValue(r) PROVE Asked
  <2> SUFFICES ASSUME NEW m \in Meters \ reserved, NEW t \in DOMAIN sent'[m] \ DOMAIN sent[m], lock = "free"
               PROVE  AskedFor(m, sent'[m][t].reading.code, t)
    OBVIOUS
  <2> DEFINE v == Head(rest[r])
             mapping == EnabledMapping(madeWith[r], v.code)
             message == [reading |-> v, text |-> ValueToString(v, mapping.unit),
                         unit |-> UnitFor(v, mapping.unit)]
  <2>1. /\ LockHeld(r)
        /\ \/ UNCHANGED sent
           \/ /\ EnabledFor(madeWith[r], v.code) # {}
              /\ sent' = [sent EXCEPT ![r[1]] = Put(sent[r[1]], mapping.topic, message)]
    BY <1>1 DEF HandleValue, Publish
  <2>2. message.reading = v /\ r[1] \in Meters
    BY DEF Workers
  <2> HIDE DEF v, mapping, message
  <2>3. /\ EnabledFor(madeWith[r], v.code) # {} /\ m = r[1]
        /\ sent'[m] = Put(sent[m], mapping.topic, message)
    BY <1>1, <2>1, <2>2 DEF PageInv, DeliveryTypes
  <2>4. t = mapping.topic /\ sent'[m][t] = message
    BY <2>3 DEF Put
  <2>5. AskedFor(r[1], v.code, mapping.topic)
    BY <1>1, <2>1, <2>3, PublishedIsAskedFor DEF mapping
  <2> QED
    BY <2>2, <2>3, <2>4, <2>5
<1>2. ASSUME Inv, NEW r \in Workers, BeginResult(r) PROVE Asked
  <2>1. \A m \in Meters : sent'[m] = sent[m] \/ DOMAIN sent'[m] = {}
    BY <1>2 DEF BeginResult, PageInv, DeliveryTypes, Nothing
  <2> QED
    BY <2>1
<1>3. ASSUME Inv, [DeliveryNext]_allVars, sent' # sent PROVE Asked
  <2>1. PICK r \in Workers : BeginResult(r) \/ HandleValue(r)
    BY <1>3 DEF DeliveryNext, ManagerStep, Around, Callback, HandleRaises, allVars, deliveryVars
  <2> QED
    BY <1>1, <1>2, <1>3, <2>1
<1>4. Inv /\ [DeliveryNext]_allVars => [Asked]_sent
  BY <1>3
<1>5. DeliveryInit => MadeInv
  BY DEF DeliveryInit, Init, MadeInv, Registered
<1>6. TypeInv /\ MadeInv /\ [DeliveryNext]_allVars => MadeInv'
  BY MadeStep
<1> QED
  BY <1>4, <1>5, <1>6, ManagerInside, PromptInvariant, PageInvariant, PTL
  DEF DeliverySpec, RetiredMappingsSilent

-----------------------------------------------------------------------------
(* What subscribers read.                                                  *)

\* Every message is some reading in some output unit.
SentInv ==
    \A m \in Meters : \A t \in DOMAIN sent[m] :
        /\ sent[m][t].reading \in Values
        /\ \E label : /\ sent[m][t].text = ValueToString(sent[m][t].reading, label)
                     /\ sent[m][t].unit = UnitFor(sent[m][t].reading, label)

LEMMA SentStep ==
    ASSUME PageInv, SentInv, [DeliveryNext]_allVars
    PROVE  SentInv'
<1>1. CASE sent' = sent
  BY <1>1 DEF SentInv
<1>2. ASSUME NEW r \in Workers, BeginResult(r) PROVE SentInv'
  <2>1. \A m \in Meters : sent'[m] = sent[m] \/ DOMAIN sent'[m] = {}
    BY <1>2 DEF BeginResult, PageInv, DeliveryTypes, Nothing
  <2> QED
    BY <2>1 DEF SentInv
<1>3. ASSUME NEW r \in Workers, HandleValue(r), sent' # sent PROVE SentInv'
  <2> DEFINE v == Head(rest[r])
             label == EnabledMapping(madeWith[r], v.code).unit
             topic == EnabledMapping(madeWith[r], v.code).topic
             message == [reading |-> v, text |-> ValueToString(v, label), unit |-> UnitFor(v, label)]
  <2>1. sent' = [sent EXCEPT ![r[1]] = Put(sent[r[1]], topic, message)] /\ LockHeld(r)
    BY <1>3 DEF HandleValue, Publish
  <2>2. v \in Values
    BY <2>1, HeadTailProperties DEF LockHeld, PageInv, DeliveryTypes, Resulting
  <2>3. message.reading = v /\ message.text = ValueToString(v, label) /\ message.unit = UnitFor(v, label)
    OBVIOUS
  <2> HIDE DEF v, topic, message, label
  <2> SUFFICES ASSUME NEW m \in Meters, NEW t \in DOMAIN sent'[m]
               PROVE  /\ sent'[m][t].reading \in Values
                      /\ \E l : /\ sent'[m][t].text = ValueToString(sent'[m][t].reading, l)
                               /\ sent'[m][t].unit = UnitFor(sent'[m][t].reading, l)
    BY DEF SentInv
  <2>4. CASE m = r[1] /\ t = topic
    <3>1. sent'[m][t] = message
      BY <2>1, <2>4 DEF PageInv, DeliveryTypes, Put
    <3> QED
      BY <2>2, <2>3, <3>1
  <2>5. CASE ~(m = r[1] /\ t = topic)
    <3>1. t \in DOMAIN sent[m] /\ sent'[m][t] = sent[m][t]
      BY <2>1, <2>5 DEF PageInv, DeliveryTypes, Put
    <3> QED
      BY <3>1 DEF SentInv
  <2> QED
    BY <2>4, <2>5
<1>4. sent' # sent => \E r \in Workers : BeginResult(r) \/ HandleValue(r)
  BY DEF DeliveryNext, ManagerStep, Around, Callback, HandleRaises, allVars, deliveryVars
<1> QED
  BY <1>1, <1>2, <1>3, <1>4

\* What a subscriber reads is the meter's number to the nearest last place, halves
\* of one away from zero (obis.py:116-118), for every reading, scaler and unit, and any number of places.
THEOREM NearestSent == ASSUME DeliveryAssumption PROVE DeliverySpec => []PayloadIsNearest
<1>1. SentInv => PayloadIsNearest
  <2> SUFFICES ASSUME SentInv, NEW m \in Meters, NEW t \in DOMAIN sent[m], sent[m][t].reading.numeric
               PROVE  Nearest(Scaled(sent[m][t].reading, sent[m][t].unit), ReadBack(sent[m][t].text))
    BY DEF PayloadIsNearest
  <2> DEFINE v == sent[m][t].reading
  <2>1. v \in Values /\ v.numeric
    BY DEF SentInv
  <2>2. PICK label : sent[m][t].text = ValueToString(v, label) /\ sent[m][t].unit = UnitFor(v, label)
    BY DEF SentInv
  <2> HIDE DEF v
  <2>3. v.unit \in DOMAIN UnitOptions /\ v.raw \in Int /\ v.scaler \in Int
    BY <2>1 DEF DeliveryAssumption
  <2>4. ReadBack(sent[m][t].text) = Clean10(Scaled(v, label))
    BY <2>1, <2>2, <2>3, ShownNumber
  <2>5. Scaled(v, UnitFor(v, label)) = Scaled(v, label)
    BY <2>3, ResolvedUnit DEF Scaled
  <2> QED
    BY <2>2, <2>3, <2>4, <2>5, NumberType DEF v
<1>2. DeliveryInit => SentInv
  BY DEF DeliveryInit, SentInv, Nothing
<1>3. PageInv /\ SentInv /\ [DeliveryNext]_allVars => SentInv'
  BY SentStep
<1> QED
  BY <1>1, <1>2, <1>3, PageInvariant, PTL DEF DeliverySpec

-----------------------------------------------------------------------------
(* Page, broker and history.                                               *)

\* A result names a code once.
Apart(result) == \A i, j \in DOMAIN result : result[i].code = result[j].code => i = j

ApartResults == {s \in Resulting : Apart(s)}

CodesApart == Chunks \subseteq Seq(ApartResults)

LEMMA ApartRest ==
    ASSUME NEW s \in ApartResults, s # <<>>
    PROVE  Tail(s) \in ApartResults /\ Head(s) \in Values /\ Head(s).code \notin CodesOf(Tail(s))
<1>1. /\ s \in Seq(Values) /\ Apart(s)
      /\ Head(s) \in Values /\ Tail(s) \in Seq(Values) /\ Len(s) \in Nat
      /\ DOMAIN s = 1..Len(s) /\ DOMAIN Tail(s) = 1..(Len(s) - 1)
      /\ \A i \in 1..(Len(s) - 1) : Tail(s)[i] = s[i + 1]
      /\ Head(s) = s[1] /\ Len(s) > 0
  BY HeadTailProperties DEF ApartResults, Resulting
<1>2. Apart(Tail(s))
  <2> SUFFICES ASSUME NEW i \in 1..(Len(s) - 1), NEW j \in 1..(Len(s) - 1), Tail(s)[i].code = Tail(s)[j].code
               PROVE  i = j
    BY <1>1 DEF Apart
  <2>1. i + 1 \in DOMAIN s /\ j + 1 \in DOMAIN s /\ s[i + 1].code = s[j + 1].code
    BY <1>1
  <2>2. i + 1 = j + 1
    BY <1>1, <2>1 DEF Apart
  <2> QED
    BY <2>2
<1>3. ASSUME NEW i \in 1..(Len(s) - 1), Tail(s)[i].code = Head(s).code PROVE FALSE
  <2>1. i + 1 \in DOMAIN s /\ 1 \in DOMAIN s /\ s[i + 1].code = s[1].code
    BY <1>1, <1>3
  <2>2. i + 1 = 1
    BY <1>1, <2>1 DEF Apart
  <2> QED
    BY <2>2
<1> QED
  BY <1>1, <1>2, <1>3 DEF ApartResults, Resulting, CodesOf

\* With one mapping for a code there is no doubt about its output unit.
LEMMA OneUnit ==
    ASSUME DeliveryAssumption, NEW cfg \in MeterConfigs, NEW code, OneMapping(cfg, code),
           EnabledFor(cfg, code) # {}
    PROVE  EnabledMapping(cfg, code).unit = UnitByObis(cfg, code)
<1> DEFINE S == MappingsFor(cfg, code)
           E == EnabledFor(cfg, code)
<1>1. E \subseteq S /\ S \subseteq 0..Len(MappingsOf[cfg]) /\ Len(MappingsOf[cfg]) \in Nat
  BY DEF MappingsFor, EnabledFor, DeliveryAssumption
<1>2. Max(S) \in S /\ Max(E) \in E
  BY <1>1, LargestOf
<1>3. \E x : S = {x}
  <2> DEFINE n == Len(MappingsOf[cfg])
  <2>1. S \in SUBSET Nat /\ n \in Nat /\ \A i \in S : i <= n
    BY <1>1
  <2>2. Cardinality(S) = 1
    BY DEF OneMapping
  <2> HIDE DEF S, n
  <2>3. IsFiniteSet(S)
    BY <2>1, FS_BoundedSetOfNaturals
  <2> QED
    BY <2>2, <2>3, FS_Singleton
<1>4. Max(S) = Max(E)
  BY <1>1, <1>2, <1>3
<1> QED
  BY <1>1, <1>4 DEF EnabledMapping, UnitByObis

\* Of its reading of code c the page, the broker and the history have the same.
SameReading(r, c) ==
    /\ \A t \in DOMAIN sent[r[1]] : sent[r[1]][t].reading.code = c =>
          /\ sent[r[1]][t].text = discovered[r][c].text
          /\ sent[r[1]][t].unit = discovered[r][c].unit
    /\ c \in DOMAIN stored[r[1]] =>
          /\ SameToTheBit(stored[r[1]][c].number, ReadBack(discovered[r][c].text))
          /\ stored[r[1]][c].unit = discovered[r][c].unit

\* While a result is handled neither the broker nor the history have anything
\* of the values that are yet to come.
NotYet(r) ==
    /\ \A t \in DOMAIN sent[r[1]] : sent[r[1]][t].reading.code \notin CodesOf(rest[r])
    /\ \A c \in DOMAIN stored[r[1]] : c \notin CodesOf(rest[r])

Agreeing(r) ==
    /\ \A c \in FreshCodes(r) : OneMapping(madeWith[r], c) => SameReading(r, c)
    /\ NotYet(r)

AgreeInv ==
    /\ results \in [Workers -> Seq(ApartResults)]
    /\ rest \in [Workers -> ApartResults]
    /\ stored = [m \in Meters |-> stored[m]]
    /\ \A r \in Workers : workers[r[1]] = r[2] => Agreeing(r)

\* What a step does not touch goes on agreeing.
LEMMA AgreeingStays ==
    ASSUME NEW r \in Workers, Agreeing(r),
           sent'[r[1]] = sent[r[1]], stored'[r[1]] = stored[r[1]], discovered'[r] = discovered[r],
           madeWith'[r] = madeWith[r], rest'[r] = rest[r]
    PROVE  Agreeing(r)'
<1>1. FreshCodes(r)' = FreshCodes(r)
  BY DEF FreshCodes
<1>2. \A c : OneMapping(madeWith[r], c)' = OneMapping(madeWith[r], c)
  BY DEF OneMapping, MappingsFor
<1> QED
  BY <1>1, <1>2 DEF Agreeing, SameReading, NotYet

\* Nobody but the registered reader of a meter is in a callback for it.
LEMMA CallbackOfRegistered ==
    ASSUME TypeInv, Ownership, Prompt, NEW r \in Workers, rpc[r] = "deliver", Registered(r[1])
    PROVE  workers[r[1]] = r[2]
<1> USE DEF TypeInv, TypeOK, ManagerTypeOK
<1>1. Live(r) /\ r[1] \in Meters
  BY DEF Live, Workers
<1>2. r[1] \notin reserved
  BY <1>1 DEF Ownership, Reservation, ReservedUnregistered
<1>3. \A j \in Jobs : Holds(j, r) /\ job[j].pc # "idle" => r[1] \in reserved
  BY DEF Holds, Held, Ownership, Reservation, ReservedByOneJob
<1> QED
  BY <1>1, <1>2, <1>3 DEF Prompt, LiveOwned

LEMMA ManagerAgrees ==
    ASSUME DeliveryAssumption, CodesApart, TypeInv, PageInv, AgreeInv, Around(Next)
    PROVE  AgreeInv'
<1> USE DEF TypeInv, TypeOK, ManagerTypeOK
<1>1. /\ UNCHANGED <<rest, sent, stored>>
      /\ discovered' = [r \in Workers |-> IF Gone(r) THEN Nothing ELSE discovered[r]]
      /\ madeWith' = [r \in Workers |->
                         IF Launched(r) THEN config[r[1]] ELSE IF Gone(r) THEN None ELSE madeWith[r]]
  BY DEF Around, Kept
<1>2. results' \in [Workers -> Seq(ApartResults)]
  <2>1. PICK chunk \in Chunks : results' = [r \in Workers |->
          IF rpc[r] = "read" /\ rpc'[r] = "deliver" THEN chunk ELSE results[r]]
    BY DEF Around
  <2> QED
    BY <2>1 DEF CodesApart, AgreeInv
<1>4. ASSUME NEW r \in Workers, workers'[r[1]] = r[2] PROVE Agreeing(r)'
  <2>1. r[1] \in Meters /\ r[2] \in Slots /\ r = <<r[1], r[2]>> /\ Registered(r[1])'
    BY <1>4, ConstantsAssumption DEF Workers, Registered
  <2>2. ~Gone(r)
    BY <1>4 DEF Gone, Fresh
  <2>3. discovered'[r] = discovered[r]
    BY <1>1, <2>2
  <2>4. CASE workers[r[1]] = r[2] /\ ~Launched(r)
    <3>1. madeWith'[r] = madeWith[r] /\ Agreeing(r)
      BY <1>1, <2>2, <2>4 DEF AgreeInv
    <3> QED
      BY <1>1, <2>3, <3>1, AgreeingStays
  <2>5. CASE Launched(r) /\ Fresh(r[1], r[2])
    <3>1. discovered'[r] = Nothing
      BY <2>3, <2>5 DEF PageInv, Whole
    <3>2. rest'[r] = <<>>
      BY <1>1, <2>5 DEF Launched, PageInv, Whole
    <3>3. FreshCodes(r)' = {}
      BY <3>1 DEF FreshCodes, Nothing
    <3> QED
      BY <3>2, <3>3, NoCodes DEF Agreeing, NotYet
  <2> QED
    <3>1. Next
      BY DEF Around
    <3> QED
      BY <1>4, <2>1, <2>4, <2>5, <3>1, Registering
<1> QED
  BY <1>1, <1>2, <1>4 DEF AgreeInv

\* The registered reader of a meter handles a value.
LEMMA HandledAgrees ==
    ASSUME DeliveryAssumption, TypeInv, MadeInv, PageInv, AgreeInv,
           NEW r \in Workers, HandleValue(r), workers[r[1]] = r[2]
    PROVE  Agreeing(r)'
<1> DEFINE m == r[1]
           v == Head(rest[r])
           label == UnitByObis(madeWith[r], v.code)
           entry == [text |-> ValueToString(v, label), unit |-> UnitFor(v, label), fresh |-> TRUE]
           mapping == EnabledMapping(madeWith[r], v.code)
           message == [reading |-> v, text |-> ValueToString(v, mapping.unit),
                       unit |-> UnitFor(v, mapping.unit)]
           sample == [number |-> NumericValue(v, label), unit |-> UnitFor(v, label)]
<1>1. /\ LockHeld(r) /\ madeWith' = madeWith
      /\ discovered' = [discovered EXCEPT ![r] = Put(discovered[r], v.code, entry)]
      /\ rest' = [rest EXCEPT ![r] = Tail(rest[r])]
      /\ \/ UNCHANGED sent
         \/ /\ EnabledFor(madeWith[r], v.code) # {}
            /\ sent' = [sent EXCEPT ![r[1]] = Put(sent[r[1]], mapping.topic, message)]
      /\ \/ UNCHANGED stored
         \/ /\ v.numeric
            /\ stored' = [stored EXCEPT ![r[1]] = Put(stored[r[1]], v.code, sample)]
  BY DEF HandleValue, Discover, Publish, Record
<1>2. rest[r] \in ApartResults /\ rest[r] # <<>>
  BY <1>1 DEF LockHeld, AgreeInv
<1>3. v \in Values /\ v.code \notin CodesOf(Tail(rest[r])) /\ CodesOf(rest[r]) = {v.code} \cup CodesOf(Tail(rest[r]))
  <2>1. rest[r] \in Seq(Values)
    BY <1>2 DEF ApartResults, Resulting
  <2> QED
    BY <1>2, <2>1, ApartRest, FirstAndRest
<1>4. m \in Meters /\ madeWith[r] \in MeterConfigs
  <2>1. r = <<r[1], r[2]>> /\ r[1] \in Meters /\ Registered(r[1])
    BY ConstantsAssumption DEF Workers, Registered
  <2> QED
    BY <2>1 DEF MadeInv, MeterConfigs
<1>5. Agreeing(r)
  BY DEF AgreeInv
<1>6. /\ message.reading = v /\ message.text = ValueToString(v, mapping.unit)
      /\ message.unit = UnitFor(v, mapping.unit)
      /\ entry.text = ValueToString(v, label) /\ entry.unit = UnitFor(v, label)
      /\ sample.number = NumericValue(v, label) /\ sample.unit = UnitFor(v, label)
  OBVIOUS
<1>7. v.numeric => SameToTheBit(sample.number, ReadBack(entry.text))
  <2>1. Fits(v, label)
    BY DEF HandleValue, Shows
  <2> QED
    BY <1>3, <1>6, <2>1, RecordedSame DEF DeliveryAssumption
<1>8. OneMapping(madeWith[r], v.code) /\ EnabledFor(madeWith[r], v.code) # {} => mapping.unit = label
  BY <1>4, OneUnit
<1> HIDE DEF v, label, entry, mapping, message, sample
<1>9. /\ rest'[r] = Tail(rest[r])
      /\ discovered'[r] = Put(discovered[r], v.code, entry)
      /\ \/ sent'[m] = sent[m]
         \/ EnabledFor(madeWith[r], v.code) # {} /\ sent'[m] = Put(sent[m], mapping.topic, message)
      /\ \/ stored'[m] = stored[m]
         \/ v.numeric /\ stored'[m] = Put(stored[m], v.code, sample)
  BY <1>1, <1>4 DEF PageInv, DeliveryTypes, AgreeInv
<1>10. \A t \in DOMAIN sent'[m] : \/ /\ sent'[m][t] = message /\ EnabledFor(madeWith[r], v.code) # {}
                                  \/ t \in DOMAIN sent[m] /\ sent'[m][t] = sent[m][t]
  BY <1>9 DEF Put
<1>11. \A c \in DOMAIN stored'[m] : \/ c = v.code /\ v.numeric /\ stored'[m][c] = sample
                                    \/ c \in DOMAIN stored[m] /\ stored'[m][c] = stored[m][c]
  BY <1>9 DEF Put
<1>12. /\ \A t \in DOMAIN sent[m] : sent[m][t].reading.code # v.code
       /\ v.code \notin DOMAIN stored[m]
  BY <1>3, <1>5 DEF Agreeing, NotYet
<1>13. NotYet(r)'
  BY <1>3, <1>5, <1>6, <1>9, <1>10, <1>11 DEF Agreeing, NotYet
<1>14. ASSUME NEW c, c \in FreshCodes(r)', OneMapping(madeWith[r], c) PROVE SameReading(r, c)'
  <2>1. CASE c = v.code
    <3>1. discovered'[r][c] = entry
      BY <1>9, <2>1 DEF Put
    <3>2. ASSUME NEW t \in DOMAIN sent'[m], sent'[m][t].reading.code = c
          PROVE  sent'[m][t].text = entry.text /\ sent'[m][t].unit = entry.unit
      <4>1. sent'[m][t] = message /\ EnabledFor(madeWith[r], v.code) # {}
        BY <1>10, <1>12, <2>1, <3>2
      <4>2. mapping.unit = label
        BY <1>8, <1>14, <2>1, <4>1
      <4> QED
        BY <1>6, <4>1, <4>2
    <3>3. c \in DOMAIN stored'[m] =>
             SameToTheBit(stored'[m][c].number, ReadBack(entry.text)) /\ stored'[m][c].unit = entry.unit
      BY <1>6, <1>7, <1>11, <1>12, <2>1
    <3> QED
      BY <3>1, <3>2, <3>3 DEF SameReading
  <2>2. CASE c # v.code
    <3>1. c \in FreshCodes(r) /\ discovered'[r][c] = discovered[r][c]
      BY <1>9, <1>14, <2>2 DEF FreshCodes, Put
    <3>2. SameReading(r, c)
      BY <1>5, <1>14, <3>1 DEF Agreeing
    <3>3. \A t \in DOMAIN sent'[m] : sent'[m][t].reading.code = c => t \in DOMAIN sent[m] /\ sent'[m][t] = sent[m][t]
      BY <1>6, <1>10, <2>2
    <3>4. c \in DOMAIN stored'[m] => c \in DOMAIN stored[m] /\ stored'[m][c] = stored[m][c]
      BY <1>11, <2>2
    <3> QED
      BY <3>1, <3>2, <3>3, <3>4 DEF SameReading
  <2> QED
    BY <2>1, <2>2
<1>15. \A c : OneMapping(madeWith[r], c)' = OneMapping(madeWith[r], c)
  BY <1>1 DEF OneMapping, MappingsFor
<1> QED
  BY <1>13, <1>14, <1>15 DEF Agreeing

\* A callback of another reader does not concern a registered one, unless it is
\* one of the same meter, which there is not.
LEMMA OthersAgree ==
    ASSUME TypeInv, Ownership, Prompt, PageInv, AgreeInv, NEW r \in Workers, Callback(r),
           NEW q \in Workers, q # r, workers[q[1]] = q[2]
    PROVE  Agreeing(q)'
<1>1. rpc[r] = "deliver" /\ r[1] \in Meters /\ q[1] \in Meters
  BY DEF Callback, BeginResult, HandleValue, HandleRaises, LockHeld, PageInv, Whole, Workers
<1>2. q[1] # r[1]
  <2> SUFFICES ASSUME q[1] = r[1] PROVE FALSE
    OBVIOUS
  <2>1. Registered(r[1])
    BY ConstantsAssumption DEF Registered, Workers
  <2> QED
    BY <1>1, <2>1, CallbackOfRegistered DEF Workers
<1>3. /\ sent'[q[1]] = sent[q[1]] /\ stored'[q[1]] = stored[q[1]]
      /\ discovered'[q] = discovered[q] /\ madeWith'[q] = madeWith[q] /\ rest'[q] = rest[q]
  BY <1>1, <1>2 DEF Callback, BeginResult, HandleValue, HandleRaises, Discover, Publish, Record,
     PageInv, DeliveryTypes, AgreeInv
<1> QED
  BY <1>3, AgreeingStays DEF AgreeInv

\* The shape of what the callback keeps of results.
LEMMA CallbackShapes ==
    ASSUME PageInv, AgreeInv, NEW r \in Workers, Callback(r)
    PROVE  /\ results' \in [Workers -> Seq(ApartResults)]
           /\ rest' \in [Workers -> ApartResults]
           /\ stored' = [m \in Meters |-> stored'[m]]
<1>1. results[r] # <<>> => Head(results[r]) \in ApartResults /\ Tail(results[r]) \in Seq(ApartResults)
  BY HeadTailProperties DEF AgreeInv
<1>2. LockHeld(r) => Tail(rest[r]) \in ApartResults
  BY ApartRest DEF AgreeInv, LockHeld
<1>3. <<>> \in ApartResults
  BY DEF ApartResults, Resulting, Apart
<1>4. results' \in [Workers -> Seq(ApartResults)] /\ rest' \in [Workers -> ApartResults]
  <2>1. CASE BeginResult(r)
    BY <1>1, <2>1 DEF BeginResult, AgreeInv
  <2>2. CASE HandleValue(r)
    BY <1>2, <2>2 DEF HandleValue, AgreeInv
  <2>3. CASE HandleRaises(r)
    BY <1>3, <2>3 DEF HandleRaises, AgreeInv
  <2> QED
    BY <2>1, <2>2, <2>3 DEF Callback
<1>5. stored' = [m \in Meters |-> stored'[m]]
  BY DEF Callback, BeginResult, HandleValue, HandleRaises, Record, AgreeInv
<1> QED
  BY <1>4, <1>5

\* The registered reader of a meter begins a result: nothing is fresh any more.
LEMMA BegunAgrees ==
    ASSUME PageInv, AgreeInv, NEW r \in Workers, BeginResult(r)
    PROVE  Agreeing(r)'
<1>1. r[1] \in Meters
  BY DEF Workers
<1>2. discovered'[r] = Aged(discovered[r])
  BY DEF BeginResult, PageInv, DeliveryTypes
<1>3. FreshCodes(r)' = {}
  BY <1>2 DEF FreshCodes, Aged
<1>4. sent'[r[1]] = Nothing /\ stored'[r[1]] = Nothing
  BY <1>1 DEF BeginResult, PageInv, DeliveryTypes, AgreeInv
<1> QED
  BY <1>3, <1>4 DEF Agreeing, NotYet, Nothing

\* The registered reader of a meter drops the rest of a result: of the value
\* that raised neither the broker nor the history have anything.
LEMMA RaisedAgrees ==
    ASSUME PageInv, AgreeInv, NEW r \in Workers, HandleRaises(r), workers[r[1]] = r[2]
    PROVE  Agreeing(r)'
<1> DEFINE v == Head(rest[r])
           label == UnitByObis(madeWith[r], v.code)
           entry == [text |-> ValueToString(v, label), unit |-> UnitFor(v, label), fresh |-> TRUE]
<1>1. /\ LockHeld(r) /\ UNCHANGED <<sent, stored, madeWith>>
      /\ rest' = [rest EXCEPT ![r] = <<>>]
      /\ \/ UNCHANGED discovered
         \/ discovered' = [discovered EXCEPT ![r] = Put(discovered[r], v.code, entry)]
  BY DEF HandleRaises, Discover
<1>2. v.code \in CodesOf(rest[r])
  <2>1. rest[r] \in Seq(Values) /\ rest[r] # <<>>
    BY <1>1 DEF LockHeld, AgreeInv, ApartResults, Resulting
  <2> QED
    BY <2>1, FirstAndRest
<1> HIDE DEF v, label, entry
<1>3. /\ rest'[r] = <<>>
      /\ \/ discovered'[r] = discovered[r]
         \/ discovered'[r] = Put(discovered[r], v.code, entry)
  BY <1>1 DEF PageInv, DeliveryTypes
<1>4. Agreeing(r)
  BY DEF AgreeInv
<1>5. NotYet(r)'
  BY <1>3, NoCodes DEF NotYet
<1>6. ASSUME NEW c, c \in FreshCodes(r)', OneMapping(madeWith[r], c) PROVE SameReading(r, c)'
  <2>1. CASE c = v.code
    BY <1>1, <1>2, <1>4, <2>1 DEF Agreeing, NotYet, SameReading
  <2>2. CASE c # v.code
    <3>1. c \in FreshCodes(r) /\ discovered'[r][c] = discovered[r][c]
      BY <1>3, <1>6, <2>2 DEF FreshCodes, Put
    <3>2. SameReading(r, c)
      BY <1>4, <1>6, <3>1 DEF Agreeing
    <3> QED
      BY <1>1, <3>1, <3>2 DEF SameReading
  <2>3. CASE discovered'[r] = discovered[r]
    <3>1. c \in FreshCodes(r)
      BY <1>6, <2>3 DEF FreshCodes
    <3>2. SameReading(r, c)
      BY <1>4, <1>6, <3>1 DEF Agreeing
    <3> QED
      BY <1>1, <2>3, <3>2 DEF SameReading
  <2> QED
    BY <2>1, <2>2, <2>3
<1>7. \A c : OneMapping(madeWith[r], c)' = OneMapping(madeWith[r], c)
  BY <1>1 DEF OneMapping, MappingsFor
<1> QED
  BY <1>5, <1>6, <1>7 DEF Agreeing

LEMMA AgreeStep ==
    ASSUME DeliveryAssumption, CodesApart, TypeInv, Ownership, Prompt, MadeInv, PageInv, AgreeInv,
           [DeliveryNext]_allVars
    PROVE  AgreeInv'
<1>1. CASE ManagerStep
  BY <1>1, ManagerAgrees DEF ManagerStep
<1>2. ASSUME NEW r \in Workers, Callback(r) PROVE AgreeInv'
  <2>1. UNCHANGED workers
    BY <1>2 DEF Callback, BeginResult, HandleValue, HandleRaises, vars, managerVars
  <2>2. ASSUME workers[r[1]] = r[2] PROVE Agreeing(r)'
    BY <1>2, <2>2, BegunAgrees, HandledAgrees, RaisedAgrees DEF Callback
  <2>3. \A q \in Workers : workers'[q[1]] = q[2] => Agreeing(q)'
    BY <1>2, <2>1, <2>2, OthersAgree
  <2> QED
    BY <1>2, <2>3, CallbackShapes DEF AgreeInv
<1>3. CASE UNCHANGED allVars
  <2>1. \A q \in Workers : Agreeing(q) => Agreeing(q)'
    BY <1>3, AgreeingStays DEF allVars, deliveryVars
  <2> QED
    BY <1>3, <2>1 DEF AgreeInv, allVars, deliveryVars, vars, managerVars
<1> QED
  BY <1>1, <1>2, <1>3 DEF DeliveryNext

\* What the page shows of a reading and what subscribers got of it are one text
\* in one unit, and what was recorded is that number in that unit, as nearly as
\* a double can be it (manager.py:110-111, obis.py:196-201), for every code
\* with one mapping, when every join sees its thread end and a result names a
\* code once.
THEOREM OneNumberOneUnit ==
    ASSUME SlowCalls = {}, DeliveryAssumption, CodesApart
    PROVE  DeliverySpec => []ReadingsAgree
<1>1. TypeInv /\ AgreeInv => ReadingsAgree
  <2> SUFFICES ASSUME TypeInv, AgreeInv, NEW m \in Meters, Registered(m),
                      NEW c \in FreshCodes(<<m, workers[m]>>), OneMapping(madeWith[<<m, workers[m]>>], c)
               PROVE  SameReading(<<m, workers[m]>>, c)
    BY DEF ReadingsAgree, FreshCodes, SameReading
  <2> DEFINE r == <<m, workers[m]>>
  <2>1. r \in Workers /\ workers[r[1]] = r[2]
    BY DEF Registered, TypeInv, TypeOK, ManagerTypeOK, Workers
  <2>2. Agreeing(r)
    BY <2>1 DEF AgreeInv
  <2> QED
    BY <2>2 DEF Agreeing
<1>2. DeliveryInit => MadeInv /\ AgreeInv
  <2> SUFFICES ASSUME DeliveryInit PROVE MadeInv /\ AgreeInv
    OBVIOUS
  <2>1. \A m \in Meters : ~Registered(m)
    BY DEF DeliveryInit, Init, Registered
  <2>2. \A r \in Workers : workers[r[1]] # r[2]
    BY <2>1, ConstantsAssumption DEF Registered, Workers
  <2>3. <<>> \in ApartResults
    BY DEF ApartResults, Resulting, Apart
  <2> QED
    BY <2>1, <2>2, <2>3 DEF DeliveryInit, MadeInv, AgreeInv
<1>3. TypeInv /\ MadeInv /\ [DeliveryNext]_allVars => MadeInv'
  BY MadeStep
<1>4. TypeInv /\ Ownership /\ Prompt /\ MadeInv /\ PageInv /\ AgreeInv /\ [DeliveryNext]_allVars => AgreeInv'
  BY AgreeStep
<1> QED
  BY <1>1, <1>2, <1>3, <1>4, ManagerInside, PromptInvariant, PageInvariant, PTL DEF DeliverySpec
=============================================================================
