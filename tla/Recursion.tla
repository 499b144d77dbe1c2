----------------------------- MODULE Recursion -----------------------------
(***************************************************************************)
(* Induction over the natural numbers, and that a recursive function is    *)
(* what its defining equation says.  The facts are stated over sets and    *)
(* functions, with no operator for a parameter, so that the provers can    *)
(* apply them: a predicate is the set of numbers it holds of, and a        *)
(* recursion is given by the functions it is made of.                      *)
(***************************************************************************)
EXTENDS Numerals, FiniteSetsExt, TLAPS, WellFoundedInduction, SequenceTheorems

\* A set of numbers that is not empty has a least one.
LEMMA LeastNumber ==
    ASSUME NEW T \in SUBSET Nat, T # {}
    PROVE  \E n \in T : \A k \in T : n <= k
<1>1. PICK n \in T : \A k \in T : ~(<<k, n>> \in OpToRel(<, Nat))
  BY WFMin, NatLessThanWellFounded
<1>2. \A k \in T : ~(k < n)
  BY <1>1 DEF OpToRel
<1> QED
  BY <1>2

LEMMA SmallestOf ==
    ASSUME NEW S \in SUBSET Nat, S # {}
    PROVE  Min(S) \in S /\ \A i \in S : Min(S) <= i
<1>1. PICK x \in S : \A y \in S : x <= y
  BY LeastNumber
<1> QED
  BY <1>1 DEF Min

LEMMA LargestOf ==
    ASSUME NEW n \in Nat, NEW S \in SUBSET (0..n), S # {}
    PROVE  Max(S) \in S /\ \A i \in S : Max(S) >= i
<1> DEFINE T == {n - i : i \in S}
<1>1. \A i \in S : i \in 0..n
  OBVIOUS
<1>2. T \in SUBSET Nat /\ T # {}
  <2>1. \A i \in S : n - i \in Nat
    BY <1>1
  <2> QED
    BY <2>1
<1>3. PICK x \in T : \A y \in T : x <= y
  BY <1>2, LeastNumber
<1>4. PICK i \in S : x = n - i
  OBVIOUS
<1>5. \A j \in S : i >= j
  <2> SUFFICES ASSUME NEW j \in S PROVE i >= j
    OBVIOUS
  <2>1. n - i <= n - j
    BY <1>3, <1>4
  <2> QED
    BY <1>1, <2>1
<1> QED
  BY <1>4, <1>5 DEF Max

LEMMA Induction ==
    ASSUME NEW T, 0 \in T, \A n \in Nat : n \in T => n + 1 \in T
    PROVE  \A n \in Nat : n \in T
<1> DEFINE U == {n \in Nat : n \notin T}
<1> SUFFICES ASSUME U # {} PROVE FALSE
  OBVIOUS
<1>1. PICK n \in U : \A k \in U : n <= k
  BY LeastNumber
<1>2. n \in Nat /\ n # 0 /\ n \notin T
  OBVIOUS
<1>3. n - 1 \in Nat /\ n - 1 \notin U
  BY <1>1, <1>2
<1> QED
  BY <1>2, <1>3

\* The same from any number on.
LEMMA InductionFrom ==
    ASSUME NEW a \in Int, NEW T, a \in T, \A n \in Int : a <= n /\ n \in T => n + 1 \in T
    PROVE  \A n \in Int : a <= n => n \in T
<1> DEFINE U == {k \in Nat : a + k \in T}
<1>1. 0 \in U
  OBVIOUS
<1>2. ASSUME NEW k \in Nat, k \in U PROVE k + 1 \in U
  <2>1. (a + k) + 1 \in T
    BY <1>2
  <2>2. (a + k) + 1 = a + (k + 1)
    OBVIOUS
  <2> QED
    BY <2>1, <2>2
<1> HIDE DEF U
<1>3. \A k \in Nat : k \in U
  BY <1>1, <1>2, Induction
<1>4. ASSUME NEW n \in Int, a <= n PROVE n \in T
  <2>1. n - a \in Nat /\ a + (n - a) = n
    BY <1>4
  <2> QED
    BY <1>3, <2>1 DEF U
<1> QED
  BY <1>4

-----------------------------------------------------------------------------
\* A recursion over D that yields elements of V: at an element of Stop it ends
\* with base, elsewhere it calls itself at next, whose measure m is smaller, and
\* makes its value of the answer with comb.
Recursive(D, V, Stop, m, next, base, comb) ==
    /\ m \in [D -> Nat] /\ next \in [D -> D]
    /\ base \in [D -> V] /\ comb \in [D -> [V -> V]]
    /\ \A x \in D : x \notin Stop => m[next[x]] < m[x]

\* f follows it up to measure n.
Follows(f, D, V, Stop, m, next, base, comb, n) ==
    /\ f \in [D -> V]
    /\ \A x \in D : m[x] < n => f[x] = IF x \in Stop THEN base[x] ELSE comb[x][f[next[x]]]

\* f is what it defines.
Solves(f, D, V, Stop, next, base, comb) ==
    /\ f \in [D -> V]
    /\ \A x \in D : f[x] = IF x \in Stop THEN base[x] ELSE comb[x][f[next[x]]]

\* A recursion that gets nearer to its end with every call defines a function.
LEMMA RecursiveFunction ==
    ASSUME NEW D, NEW V, NEW Stop, NEW m, NEW next, NEW base, NEW comb,
           Recursive(D, V, Stop, m, next, base, comb)
    PROVE  \E f : Solves(f, D, V, Stop, next, base, comb)
<1> USE DEF Recursive
<1> DEFINE Good(f, n) == Follows(f, D, V, Stop, m, next, base, comb, n)
           T == {n \in Nat : \E f : Good(f, n)}
           U == {n \in Nat : \A f, g : Good(f, n) /\ Good(g, n) => \A x \in D : m[x] < n => f[x] = g[x]}
<1>1. \A n \in Nat : n \in T
  <2>1. 0 \in T
    <3>1. Good(base, 0)
      BY DEF Follows
    <3> QED
      BY <3>1
  <2>2. ASSUME NEW n \in Nat, n \in T PROVE n + 1 \in T
    <3>1. PICK f : Good(f, n)
      BY <2>2
    <3> DEFINE g == [x \in D |-> IF x \in Stop THEN base[x] ELSE comb[x][f[next[x]]]]
    <3>2. g \in [D -> V]
      BY <3>1 DEF Follows
    <3>3. ASSUME NEW x \in D, m[x] < n + 1, x \notin Stop PROVE g[next[x]] = f[next[x]]
      <4>1. next[x] \in D /\ m[next[x]] < n
        BY <3>3
      <4> QED
        BY <3>1, <4>1 DEF Follows
    <3>4. Good(g, n + 1)
      BY <3>2, <3>3 DEF Follows
    <3> QED
      BY <3>4
  <2> HIDE DEF T
  <2> QED
    BY <2>1, <2>2, Induction
<1>2. \A n \in Nat : n \in U
  <2>1. 0 \in U
    OBVIOUS
  <2>2. ASSUME NEW n \in Nat, n \in U PROVE n + 1 \in U
    <3> SUFFICES ASSUME NEW f, NEW g, Good(f, n + 1), Good(g, n + 1), NEW x \in D, m[x] < n + 1
                 PROVE  f[x] = g[x]
      OBVIOUS
    <3>1. Good(f, n) /\ Good(g, n)
      BY DEF Follows
    <3>2. \A y \in D : m[y] < n => f[y] = g[y]
      BY <2>2, <3>1
    <3>3. x \notin Stop => f[next[x]] = g[next[x]]
      BY <3>2
    <3> QED
      BY <3>3 DEF Follows
  <2> HIDE DEF U
  <2> QED
    BY <2>1, <2>2, Induction
<1> DEFINE h(n) == CHOOSE f : Good(f, n)
           f == [x \in D |-> h(m[x] + 1)[x]]
<1>3. \A n \in Nat : Good(h(n), n)
  BY <1>1
<1> HIDE DEF h
<1>4. f \in [D -> V]
  BY <1>3 DEF Follows
<1>5. ASSUME NEW x \in D PROVE f[x] = IF x \in Stop THEN base[x] ELSE comb[x][f[next[x]]]
  <2> DEFINE n == m[x] + 1
  <2>1. n \in Nat /\ m[x] < n
    OBVIOUS
  <2>2. f[x] = h(n)[x] /\ Good(h(n), n)
    BY <1>3, <2>1
  <2>3. CASE x \in Stop
    BY <2>1, <2>2, <2>3 DEF Follows
  <2>4. CASE x \notin Stop
    <3> DEFINE y == next[x]
               k == m[y] + 1
    <3>1. y \in D /\ k \in Nat /\ m[y] < k /\ k <= n
      BY <2>4
    <3>2. Good(h(k), k) /\ f[y] = h(k)[y]
      BY <1>3, <3>1
    <3>3. Good(h(n), k)
      BY <2>2, <3>1 DEF Follows
    <3>4. h(n)[y] = h(k)[y]
      BY <1>2, <3>1, <3>2, <3>3
    <3> QED
      BY <2>1, <2>2, <2>4, <3>2, <3>4 DEF Follows
  <2> QED
    BY <2>3, <2>4
<1> QED
  BY <1>4, <1>5 DEF Solves

\* The usual case: a function of a number that calls itself for the number before.
Counted(D, V, base, comb) ==
    /\ D \in SUBSET Nat /\ \A n \in D : n # 0 => n - 1 \in D
    /\ base \in V /\ comb \in [D -> [V -> V]]

SolvesCounted(f, D, V, base, comb) ==
    /\ f \in [D -> V]
    /\ \A n \in D : f[n] = IF n = 0 THEN base ELSE comb[n][f[n - 1]]

LEMMA CountedRecursion ==
    ASSUME NEW D, NEW V, NEW base, NEW comb, Counted(D, V, base, comb)
    PROVE  \E f : SolvesCounted(f, D, V, base, comb)
<1> USE DEF Counted
<1> DEFINE m == [n \in D |-> n]
           next == [n \in D |-> IF n = 0 THEN 0 ELSE n - 1]
           start == [n \in D |-> base]
           Stop == {0}
<1>1. Recursive(D, V, Stop, m, next, start, comb)
  <2>1. m \in [D -> Nat] /\ start \in [D -> V]
    OBVIOUS
  <2>2. next \in [D -> D]
    OBVIOUS
  <2>3. \A x \in D : x \notin Stop => m[next[x]] < m[x]
    OBVIOUS
  <2> HIDE DEF m, next, start, Stop
  <2> QED
    BY <2>1, <2>2, <2>3 DEF Recursive
<1>2. \A x \in D : start[x] = base /\ (x \in Stop <=> x = 0) /\ (x # 0 => next[x] = x - 1)
  OBVIOUS
<1> HIDE DEF m, next, start, Stop
<1>3. PICK f : Solves(f, D, V, Stop, next, start, comb)
  BY <1>1, RecursiveFunction
<1>4. SolvesCounted(f, D, V, base, comb)
  BY <1>2, <1>3 DEF Solves, SolvesCounted
<1> QED
  BY <1>4

-----------------------------------------------------------------------------
(* Powers.                                                                 *)

LEMMA PowerEquation ==
    ASSUME NEW b \in Nat
    PROVE  /\ Power(b, 0) = 1
           /\ \A n \in Nat : Power(b, n) \in Nat /\ Power(b, n + 1) = b * Power(b, n)
<1> DEFINE power[k \in Nat] == IF k = 0 THEN 1 ELSE b * power[k - 1]
           comb == [n \in Nat |-> [v \in Nat |-> b * v]]
<1>1. Counted(Nat, Nat, 1, comb) /\ \A k \in Nat, v \in Nat : comb[k][v] = b * v
  BY DEF Counted
<1> HIDE DEF comb
<1>2. PICK f : SolvesCounted(f, Nat, Nat, 1, comb)
  BY <1>1, CountedRecursion
<1>3. f = [k \in Nat |-> IF k = 0 THEN 1 ELSE b * f[k - 1]]
  <2>1. \A k \in Nat : k # 0 => f[k - 1] \in Nat
    BY <1>2 DEF SolvesCounted
  <2> QED
    BY <1>1, <1>2, <2>1 DEF SolvesCounted
<1>4. power = [k \in Nat |-> IF k = 0 THEN 1 ELSE b * power[k - 1]]
  BY <1>3, Zenon DEF power
<1>5. \A n \in Nat : Power(b, n) = power[n]
  BY DEF Power
<1> HIDE DEF power
<1>6. power[0] = 1 /\ \A n \in Nat : power[n + 1] = b * power[n]
  BY <1>4
<1> DEFINE T == {n \in Nat : power[n] \in Nat}
<1>7. \A n \in Nat : n \in T
  <2>1. 0 \in T /\ \A n \in Nat : n \in T => n + 1 \in T
    BY <1>6
  <2> HIDE DEF T
  <2> QED
    BY <2>1, Induction
<1> QED
  BY <1>5, <1>6, <1>7

LEMMA PowerIsNat == \A b \in Nat : \A n \in Nat : Power(b, n) \in Nat
BY PowerEquation

LEMMA PowerPositive ==
    ASSUME NEW b \in Nat \ {0}, NEW n \in Nat
    PROVE  Power(b, n) \in Nat \ {0}
<1> DEFINE T == {k \in Nat : Power(b, k) # 0}
<1>1. 0 \in T
  BY PowerEquation
<1>2. ASSUME NEW k \in Nat, k \in T PROVE k + 1 \in T
  <2>1. Power(b, k + 1) = b * Power(b, k) /\ Power(b, k) \in Nat \ {0}
    BY <1>2, PowerEquation
  <2> QED
    BY <2>1
<1> HIDE DEF T
<1>3. n \in T
  BY <1>1, <1>2, Induction
<1> QED
  BY <1>3, PowerEquation DEF T

LEMMA PowerGrows ==
    ASSUME NEW b \in Nat \ {0, 1}, NEW m \in Nat, NEW n \in Nat, m < n
    PROVE  Power(b, m) < Power(b, n)
<1> DEFINE T == {k \in Int : m < k => Power(b, m) < Power(b, k)}
<1>1. m \in T
  OBVIOUS
<1>2. ASSUME NEW k \in Int, m <= k, k \in T PROVE k + 1 \in T
  <2>1. k \in Nat /\ Power(b, k) \in Nat \ {0} /\ Power(b, k + 1) = b * Power(b, k) /\ Power(b, m) \in Nat
    <3>1. k \in Nat
      BY <1>2
    <3> QED
      BY <3>1, PowerPositive, PowerEquation
  <2>2. \A x \in Nat \ {0} : x < b * x
    OBVIOUS
  <2>3. Power(b, k) < Power(b, k + 1)
    BY <2>1, <2>2
  <2>4. k = m \/ Power(b, m) < Power(b, k)
    BY <1>2
  <2> QED
    BY <2>1, <2>3, <2>4
<1> HIDE DEF T
<1>3. n \in T
  BY <1>1, <1>2, InductionFrom
<1> QED
  BY <1>3 DEF T

LEMMA PowerExceeds ==
    ASSUME NEW b \in Nat \ {0, 1}, NEW n \in Nat
    PROVE  n < Power(b, n)
<1> DEFINE T == {k \in Nat : k < Power(b, k)}
<1>1. 0 \in T
  BY PowerEquation
<1>2. ASSUME NEW k \in Nat, k \in T PROVE k + 1 \in T
  BY <1>2, PowerGrows, PowerEquation
<1> HIDE DEF T
<1>3. n \in T
  BY <1>1, <1>2, Induction
<1> QED
  BY <1>3 DEF T

LEMMA PowerSum ==
    ASSUME NEW b \in Nat, NEW m \in Nat, NEW n \in Nat
    PROVE  Power(b, m + n) = Power(b, m) * Power(b, n)
<1> DEFINE T == {k \in Nat : Power(b, m + k) = Power(b, m) * Power(b, k)}
<1>1. 0 \in T
  BY PowerEquation
<1>2. ASSUME NEW k \in Nat, k \in T PROVE k + 1 \in T
  <2> DEFINE x == Power(b, m)
             y == Power(b, k)
  <2>1. Power(b, m + (k + 1)) = b * (x * y) /\ Power(b, k + 1) = b * y /\ x \in Nat /\ y \in Nat
    <3>1. m + (k + 1) = (m + k) + 1 /\ m + k \in Nat
      OBVIOUS
    <3> QED
      BY <1>2, <3>1, PowerEquation
  <2>2. b * (x * y) = x * (b * y)
    <3> HIDE DEF x, y
    <3> QED
      BY <2>1
  <2> QED
    BY <2>1, <2>2
<1> HIDE DEF T
<1>3. n \in T
  BY <1>1, <1>2, Induction
<1> QED
  BY <1>3 DEF T

-----------------------------------------------------------------------------
(* Division.                                                               *)

LEMMA Remainder ==
    ASSUME NEW x \in Int, NEW k \in Int, k > 0
    PROVE  x = k * (x \div k) + (x % k)
OBVIOUS

LEMMA Division ==
    ASSUME NEW x \in Int, NEW k \in Nat \ {0}
    PROVE  /\ x \div k \in Int /\ x % k \in 0..(k - 1)
           /\ x = k * (x \div k) + (x % k)
<1>1. x \div k \in Int /\ x % k \in 0..(k - 1)
  OBVIOUS
<1>2. k \in Int /\ k > 0
  OBVIOUS
<1> QED
  BY <1>1, <1>2, Remainder

LEMMA DivisionBounds ==
    ASSUME NEW x \in Int, NEW k \in Nat \ {0}
    PROVE  x \div k \in Int /\ k * (x \div k) <= x /\ x < k * (x \div k) + k
<1> DEFINE q == x \div k
           m == k * q
<1>1. q \in Int /\ x % k \in 0..(k - 1) /\ x = m + (x % k)
  BY Division
<1>2. m \in Int
  BY <1>1
<1>3. m <= x /\ x < m + k
  <2> HIDE DEF m
  <2> QED
    BY <1>1, <1>2
<1> QED
  BY <1>1, <1>3

\* Of two numbers of multiples of k, the larger has more.
LEMMA MoreMultiples ==
    ASSUME NEW k \in Nat \ {0}, NEW p \in Int, NEW q \in Int, k * p < k * q + k
    PROVE  p <= q
<1> SUFFICES ASSUME q + 1 <= p PROVE FALSE
  OBVIOUS
<1>1. k * (q + 1) <= k * p /\ k * (q + 1) = k * q + k
  OBVIOUS
<1> QED
  BY <1>1

\* A quotient is known by its bounds.
LEMMA Quotient ==
    ASSUME NEW x \in Int, NEW k \in Nat \ {0}, NEW q \in Int, k * q <= x, x < k * q + k
    PROVE  x \div k = q
<1> DEFINE p == x \div k
<1>1. p \in Int /\ k * p <= x /\ x < k * p + k
  BY Division
<1> HIDE DEF p
<1>2. k * p \in Int /\ k * q \in Int
  BY <1>1
<1>3. p <= q /\ q <= p
  BY <1>1, <1>2, MoreMultiples
<1> QED
  BY <1>1, <1>3 DEF p

LEMMA SmallRemainder ==
    ASSUME NEW x \in Nat, NEW k \in Nat \ {0}, x < k
    PROVE  x % k = x
<1> DEFINE q == x \div k
           r == x % k
           m == k * q
<1>1. r \in Int /\ x = m + r /\ q \in Int
  BY Division
<1>2. k * 0 <= x /\ x < k * 0 + k /\ k * 0 = 0
  OBVIOUS
<1>3. q = 0
  BY <1>2, Quotient
<1>4. m = 0
  BY <1>2, <1>3
<1> HIDE DEF m
<1> QED
  BY <1>1, <1>4

\* Dividing twice is dividing by the product.
LEMMA DividedTwice ==
    ASSUME NEW x \in Int, NEW k \in Nat \ {0}, NEW b \in Nat \ {0}
    PROVE  x \div (b * k) = (x \div k) \div b
<1> DEFINE p == x \div k
           q == p \div b
<1>1. p \in Int /\ k * p <= x /\ x < k * p + k
  BY Division
<1>2. q \in Int /\ b * q <= p /\ p + 1 <= b * q + b
  BY <1>1, Division
<1> HIDE DEF p, q
<1>3. k * (b * q) <= k * p /\ k * (p + 1) <= k * (b * q + b)
  <2>1. ASSUME NEW u \in Int, NEW v \in Int, u <= v PROVE k * u <= k * v
    BY <2>1
  <2>2. b * q \in Int /\ b * q + b \in Int /\ p + 1 \in Int
    BY <1>1, <1>2
  <2> QED
    BY <1>1, <1>2, <2>1, <2>2
<1>4. (b * k) * q <= x /\ x < (b * k) * q + b * k /\ b * k \in Nat \ {0}
  <2>1. k * (b * q) = (b * k) * q /\ k * (b * q + b) = (b * k) * q + b * k /\ k * (p + 1) = k * p + k
    BY <1>1, <1>2
  <2>2. k * (b * q) \in Int /\ k * p \in Int /\ (b * k) * q \in Int /\ b * k \in Nat \ {0}
    BY <1>1, <1>2
  <2> QED
    BY <1>1, <1>3, <2>1, <2>2
<1>5. x \div (b * k) = q
  BY <1>2, <1>4, Quotient
<1> QED
  BY <1>5 DEF p, q

-----------------------------------------------------------------------------
(* Digits.                                                                 *)

LEMMA DigitsType ==
    ASSUME NEW b \in Nat \ {0}, NEW n \in Int, NEW width \in Nat
    PROVE  /\ DigitsOf(b, n, width) \in Seq(0..(b - 1))
           /\ Len(DigitsOf(b, n, width)) = width
           /\ \A i \in 1..width : DigitsOf(b, n, width)[i] = (n \div Power(b, width - i)) % b
<1>1. ASSUME NEW i \in 1..width PROVE (n \div Power(b, width - i)) % b \in 0..(b - 1)
  <2>1. Power(b, width - i) \in Nat \ {0}
    BY PowerPositive
  <2>2. n \div Power(b, width - i) \in Int
    BY <2>1
  <2> QED
    BY <2>2
<1> QED
  BY <1>1 DEF DigitsOf

\* v is the number the first digits stand for, for each number of them.
Reads(v, b, s) ==
    /\ v \in [0..Len(s) -> Nat]
    /\ v[0] = 0 /\ \A i \in 1..Len(s) : v[i] = b * v[i - 1] + s[i]
    /\ ValueOf(b, s) = v[Len(s)]

LEMMA ValueEquation ==
    ASSUME NEW b \in Nat, NEW s \in Seq(Nat)
    PROVE  \E v : Reads(v, b, s)
<1> DEFINE D == 0..Len(s)
           value[i \in D] == IF i = 0 THEN 0 ELSE b * value[i - 1] + s[i]
           comb == [i \in D |-> [x \in Nat |-> IF i = 0 THEN 0 ELSE b * x + s[i]]]
<1>0. Len(s) \in Nat /\ \A i \in 1..Len(s) : s[i] \in Nat
  OBVIOUS
<1>1. Counted(D, Nat, 0, comb) /\ \A i \in D, x \in Nat : i # 0 => comb[i][x] = b * x + s[i]
  <2>1. \A i \in D, x \in Nat : i # 0 => b * x + s[i] \in Nat
    BY <1>0
  <2>2. comb \in [D -> [Nat -> Nat]]
    BY <2>1
  <2> QED
    BY <1>0, <2>2 DEF Counted
<1> HIDE DEF comb
<1>2. PICK f : SolvesCounted(f, D, Nat, 0, comb)
  BY <1>1, CountedRecursion
<1>3. f = [i \in D |-> IF i = 0 THEN 0 ELSE b * f[i - 1] + s[i]]
  <2>1. \A i \in D : i # 0 => i - 1 \in D
    BY <1>0
  <2>2. f \in [D -> Nat] /\ \A i \in D : f[i] = IF i = 0 THEN 0 ELSE comb[i][f[i - 1]]
    BY <1>2, Zenon DEF SolvesCounted
  <2> HIDE DEF D
  <2>3. \A i \in D : i # 0 => f[i - 1] \in Nat
    BY <2>1, <2>2
  <2>4. \A i \in D : f[i] = IF i = 0 THEN 0 ELSE b * f[i - 1] + s[i]
    BY <1>1, <2>2, <2>3
  <2> QED
    BY <2>2, <2>4
<1>4. value = [i \in D |-> IF i = 0 THEN 0 ELSE b * value[i - 1] + s[i]]
  BY <1>3, Zenon DEF value
<1>5. ValueOf(b, s) = value[Len(s)]
  BY DEF ValueOf
<1> HIDE DEF value
<1>6. value[0] = 0 /\ \A i \in 1..Len(s) : value[i] = b * value[i - 1] + s[i]
  BY <1>0, <1>4, SMTT(30)
<1> DEFINE T == {i \in Nat : i <= Len(s) => value[i] \in Nat}
<1>7. \A i \in Nat : i \in T
  <2>1. 0 \in T
    BY <1>6
  <2>2. ASSUME NEW i \in Nat, i \in T PROVE i + 1 \in T
    <3> SUFFICES ASSUME i + 1 <= Len(s) PROVE value[i + 1] \in Nat
      OBVIOUS
    <3>1. value[i + 1] = b * value[i] + s[i + 1] /\ value[i] \in Nat /\ s[i + 1] \in Nat
      BY <1>0, <1>6, <2>2
    <3>2. \A x \in Nat, y \in Nat : b * x + y \in Nat
      OBVIOUS
    <3> QED
      BY <3>1, <3>2
  <2> HIDE DEF T
  <2> QED
    BY <2>1, <2>2, Induction
<1>8. value \in [D -> Nat]
  <2>1. DOMAIN value = D /\ value = [i \in D |-> value[i]]
    BY <1>4
  <2>2. \A i \in D : value[i] \in Nat
    BY <1>0, <1>7
  <2> HIDE DEF D
  <2> QED
    BY <2>1, <2>2
<1> QED
  BY <1>5, <1>6, <1>8 DEF Reads

\* Digits add up to the number they are of, as far as they reach.
LEMMA DigitsAddUp ==
    ASSUME NEW b \in Nat \ {0, 1}, NEW n \in Nat, NEW width \in Nat
    PROVE  ValueOf(b, DigitsOf(b, n, width)) = n % Power(b, width)
<1> DEFINE s == DigitsOf(b, n, width)
           q(i) == n \div Power(b, width - i)
<1>1. s \in Seq(Nat) /\ Len(s) = width /\ \A i \in 1..width : s[i] = q(i) % b
  <2>1. n \in Int /\ b \in Nat \ {0}
    OBVIOUS
  <2>2. s \in Seq(0..(b - 1)) /\ Len(s) = width /\ \A i \in 1..width : s[i] = q(i) % b
    BY <2>1, DigitsType
  <2> QED
    BY <2>2
<1>2. PICK v : Reads(v, b, s)
  BY <1>1, ValueEquation
<1>3. \A i \in 0..width : q(i) \in Int /\ Power(b, i) \in Nat \ {0}
  BY PowerPositive
<1>4. ASSUME NEW i \in Nat, i < width PROVE q(i + 1) = b * q(i) + s[i + 1]
  <2> DEFINE k == Power(b, width - (i + 1))
  <2>1. k \in Nat \ {0} /\ Power(b, width - i) = b * k
    <3>1. width - (i + 1) \in Nat /\ (width - (i + 1)) + 1 = width - i
      BY <1>4
    <3> QED
      BY <3>1, PowerPositive, PowerEquation
  <2>2. n \div (b * k) = (n \div k) \div b
    BY <2>1, DividedTwice
  <2>3. q(i) = q(i + 1) \div b /\ q(i + 1) \in Int
    BY <1>3, <1>4, <2>1, <2>2
  <2>4. s[i + 1] = q(i + 1) % b
    BY <1>1, <1>4
  <2> QED
    BY <2>3, <2>4, Division
<1> DEFINE T == {i \in Nat : i <= width => q(i) = Power(b, i) * q(0) + v[i]}
<1>5. \A i \in Nat : i \in T
  <2>1. 0 \in T
    BY <1>2, <1>3, PowerEquation DEF Reads
  <2>2. ASSUME NEW i \in Nat, i \in T PROVE i + 1 \in T
    <3> SUFFICES ASSUME i < width PROVE q(i + 1) = Power(b, i + 1) * q(0) + v[i + 1]
      OBVIOUS
    <3> DEFINE p == Power(b, i)
    <3> HIDE DEF q, s
    <3>1. q(i + 1) = b * q(i) + s[i + 1] /\ v[i + 1] = b * v[i] + s[i + 1] /\ q(i) = p * q(0) + v[i]
      BY <1>1, <1>2, <1>4, <2>2, SMTT(30) DEF Reads
    <3>2. Power(b, i + 1) = b * p /\ p \in Nat /\ q(0) \in Int /\ v[i] \in Nat /\ s[i + 1] \in Nat
      <4>1. Power(b, i + 1) = b * p /\ p \in Nat
        BY PowerEquation
      <4>2. q(0) \in Int
        BY <1>3
      <4>3. v[i] \in Nat
        BY <1>1, <1>2 DEF Reads
      <4>4. s[i + 1] \in Nat
        BY <1>1
      <4> QED
        BY <4>1, <4>2, <4>3, <4>4
    <3>3. b * (p * q(0) + v[i]) = (b * p) * q(0) + b * v[i]
      BY <3>2
    <3>4. b * v[i] \in Int /\ (b * p) * q(0) \in Int
      BY <3>2
    <3> HIDE DEF p
    <3> QED
      BY <3>1, <3>2, <3>3, <3>4
  <2> HIDE DEF T
  <2> QED
    BY <2>1, <2>2, Induction
<1>6. n = Power(b, width) * (n \div Power(b, width)) + ValueOf(b, s)
  <2>1. q(width) = Power(b, width) * q(0) + v[width]
    BY <1>5
  <2>2. q(width) = n /\ q(0) = n \div Power(b, width)
    BY PowerEquation
  <2> QED
    BY <1>1, <1>2, <2>1, <2>2 DEF Reads
<1>7. Power(b, width) \in Nat \ {0} /\ ValueOf(b, s) \in Nat
  BY <1>1, <1>2, PowerPositive DEF Reads
<1>8. \A x \in Nat \ {0}, y \in Nat : n = x * (n \div x) + y => n % x = y
  <2> SUFFICES ASSUME NEW x \in Nat \ {0}, NEW y \in Nat, n = x * (n \div x) + y PROVE n % x = y
    OBVIOUS
  <2> DEFINE z == x * (n \div x)
             r == n % x
  <2>1. n = z + r /\ r \in Int /\ z \in Int
    BY Division
  <2> HIDE DEF z, r
  <2>2. n = z + y
    BY DEF z
  <2>3. r = y
    BY <2>1, <2>2
  <2> QED
    BY <2>3 DEF r
<1> HIDE DEF s
<1>9. n % Power(b, width) = ValueOf(b, s)
  BY <1>6, <1>7, <1>8, Zenon
<1> QED
  BY <1>9 DEF s

\* Zeros at the end only move the other digits.
LEMMA TrailingZeros ==
    ASSUME NEW b \in Nat \ {0}, NEW s \in Seq(Nat), NEW last \in 0..Len(s),
           \A i \in (last + 1)..Len(s) : s[i] = 0
    PROVE  ValueOf(b, s) = ValueOf(b, SubSeq(s, 1, last)) * Power(b, Len(s) - last)
<1> DEFINE t == SubSeq(s, 1, last)
<1>1. t \in Seq(Nat) /\ Len(t) = last /\ \A i \in 1..last : t[i] = s[i]
  OBVIOUS
<1>2. PICK v : Reads(v, b, s)
  BY ValueEquation
<1>3. PICK u : Reads(u, b, t)
  BY <1>1, ValueEquation
<1> HIDE DEF t
<1> DEFINE T == {i \in Nat : i <= last => v[i] = u[i]}
<1>4. \A i \in Nat : i \in T
  <2>1. 0 \in T
    BY <1>2, <1>3 DEF Reads
  <2>2. ASSUME NEW i \in Nat, i \in T PROVE i + 1 \in T
    <3> SUFFICES ASSUME i + 1 <= last PROVE v[i + 1] = u[i + 1]
      OBVIOUS
    <3>1. i + 1 \in 1..Len(s) /\ i + 1 \in 1..Len(t) /\ (i + 1) - 1 = i /\ v[i] = u[i]
      BY <1>1, <2>2
    <3>2. v[i + 1] = b * v[i] + s[i + 1] /\ u[i + 1] = b * u[i] + t[i + 1] /\ s[i + 1] = t[i + 1]
      BY <1>1, <1>2, <1>3, <3>1 DEF Reads
    <3> QED
      BY <3>1, <3>2
  <2> HIDE DEF T
  <2> QED
    BY <2>1, <2>2, Induction
<1> DEFINE U == {j \in Nat : last + j <= Len(s) => v[last + j] = v[last] * Power(b, j)}
<1>5. \A j \in Nat : j \in U
  <2>1. 0 \in U
    <3>1. v[last] \in Nat /\ Power(b, 0) = 1 /\ last + 0 = last
      BY <1>2, PowerEquation, SMTT(30) DEF Reads
    <3> QED
      BY <3>1
  <2>2. ASSUME NEW j \in Nat, j \in U PROVE j + 1 \in U
    <3> SUFFICES ASSUME last + (j + 1) <= Len(s) PROVE v[last + (j + 1)] = v[last] * Power(b, j + 1)
      OBVIOUS
    <3> DEFINE p == Power(b, j)
               x == v[last]
    <3>1. v[last + (j + 1)] = b * v[last + j] + 0 /\ v[last + j] = x * p /\ Power(b, j + 1) = b * p
      <4>1. last + (j + 1) \in 1..Len(s) /\ (last + (j + 1)) - 1 = last + j /\ s[last + (j + 1)] = 0
        OBVIOUS
      <4>2. v[last + (j + 1)] = b * v[last + j] + 0
        BY <1>2, <4>1 DEF Reads
      <4>3. v[last + j] = x * p
        BY <2>2
      <4> QED
        BY <4>2, <4>3, PowerEquation
    <3>2. p \in Nat /\ x \in Nat
      BY <1>2, PowerEquation DEF Reads
    <3> HIDE DEF p, x
    <3>3. b * (x * p) + 0 = x * (b * p)
      BY <3>2
    <3> QED
      BY <3>1, <3>3 DEF p, x
  <2> HIDE DEF U
  <2> QED
    BY <2>1, <2>2, Induction
<1>6. v[last] = u[last] /\ v[Len(s)] = v[last] * Power(b, Len(s) - last)
  <2>1. Len(s) - last \in Nat /\ last + (Len(s) - last) = Len(s)
    OBVIOUS
  <2> QED
    BY <1>4, <1>5, <2>1
<1> QED
  BY <1>1, <1>2, <1>3, <1>6 DEF Reads, t
=============================================================================
