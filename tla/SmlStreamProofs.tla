--------------------------- MODULE SmlStreamProofs ---------------------------
(***************************************************************************)
(* Proofs about SmlStream, for any bytes on the line, any chunks and any   *)
(* limit of the buffer.                                                    *)
(***************************************************************************)
EXTENDS SmlStream, Recursion, FiniteSetTheorems

Bytes == Seq(Byte)

-----------------------------------------------------------------------------
(* Pieces of byte strings.                                                 *)

LEMMA FromType ==
    ASSUME NEW s \in Bytes, NEW i \in 1..(Len(s) + 1)
    PROVE  /\ From(s, i) \in Bytes /\ Len(From(s, i)) = Len(s) - i + 1
           /\ \A k \in 1..(Len(s) - i + 1) : From(s, i)[k] = s[i + k - 1]
BY DEF From, Bytes

LEMMA FromFirst ==
    ASSUME NEW s \in Bytes
    PROVE  From(s, 1) = s
<1>1. /\ From(s, 1) \in Seq(Byte) /\ s \in Seq(Byte) /\ Len(From(s, 1)) = Len(s)
      /\ \A k \in 1..Len(s) : From(s, 1)[k] = s[k]
  <2>1. 1 \in 1..(Len(s) + 1) /\ Len(s) \in Nat
    BY DEF Bytes
  <2> QED
    BY <2>1, FromType DEF Bytes
<1> QED
  BY <1>1, SeqEqual

LEMMA FromTwice ==
    ASSUME NEW s \in Bytes, NEW i \in 1..(Len(s) + 1), NEW j \in 1..(Len(s) - i + 2)
    PROVE  From(From(s, i), j) = From(s, i + j - 1)
<1> DEFINE t == From(s, i)
           u == From(s, i + j - 1)
<1>0. Len(s) \in Nat
  BY DEF Bytes
<1>1. t \in Bytes /\ Len(t) = Len(s) - i + 1 /\ \A k \in 1..Len(t) : t[k] = s[i + k - 1]
  BY FromType
<1>2. i + j - 1 \in 1..(Len(s) + 1) /\ j \in 1..(Len(t) + 1)
  BY <1>0, <1>1
<1>3. u \in Bytes /\ Len(u) = Len(s) - (i + j - 1) + 1 /\ \A k \in 1..Len(u) : u[k] = s[(i + j - 1) + k - 1]
  BY <1>2, FromType
<1> HIDE DEF t, u
<1>4. From(t, j) \in Bytes /\ Len(From(t, j)) = Len(t) - j + 1 /\ \A k \in 1..(Len(t) - j + 1) : From(t, j)[k] = t[j + k - 1]
  BY <1>1, <1>2, FromType
<1>5. Len(From(t, j)) = Len(u)
  BY <1>0, <1>1, <1>3, <1>4
<1>6. \A k \in 1..Len(u) : From(t, j)[k] = u[k]
  <2> SUFFICES ASSUME NEW k \in 1..Len(u) PROVE From(t, j)[k] = u[k]
    OBVIOUS
  <2>1. k \in 1..(Len(t) - j + 1) /\ j + k - 1 \in 1..Len(t) /\ i + (j + k - 1) - 1 = (i + j - 1) + k - 1
    BY <1>0, <1>1, <1>3
  <2>2. From(t, j)[k] = t[j + k - 1] /\ t[j + k - 1] = s[i + (j + k - 1) - 1]
    BY <1>1, <1>4, <2>1
  <2> QED
    BY <1>3, <2>1, <2>2
<1>7. From(t, j) = u
  BY <1>3, <1>4, <1>5, <1>6, SeqEqual DEF Bytes
<1> QED
  BY <1>7 DEF t, u

LEMMA Longer ==
    ASSUME NEW s \in Bytes, NEW t \in Bytes
    PROVE  /\ s \o t \in Bytes /\ Len(s \o t) = Len(s) + Len(t) /\ Len(s) \in Nat /\ Len(t) \in Nat
           /\ \A k \in 1..Len(s) : (s \o t)[k] = s[k]
           /\ \A k \in 1..Len(t) : (s \o t)[Len(s) + k] = t[k]
           /\ \A k \in (Len(s) + 1)..(Len(s) + Len(t)) : (s \o t)[k] = t[k - Len(s)]
BY DEF Bytes

LEMMA FromLonger ==
    ASSUME NEW s \in Bytes, NEW t \in Bytes, NEW i \in 1..(Len(s) + 1)
    PROVE  From(s \o t, i) = From(s, i) \o t
<1> DEFINE u == s \o t
           f == From(s, i)
<1>1. /\ u \in Bytes /\ Len(u) = Len(s) + Len(t) /\ Len(s) \in Nat /\ Len(t) \in Nat
      /\ \A k \in 1..Len(s) : u[k] = s[k]
      /\ \A k \in (Len(s) + 1)..(Len(s) + Len(t)) : u[k] = t[k - Len(s)]
  BY Longer
<1>2. f \in Bytes /\ Len(f) = Len(s) - i + 1 /\ \A k \in 1..Len(f) : f[k] = s[i + k - 1]
  BY FromType
<1> HIDE DEF u, f
<1>3. /\ From(u, i) \in Bytes /\ Len(From(u, i)) = Len(u) - i + 1
      /\ \A k \in 1..(Len(u) - i + 1) : From(u, i)[k] = u[i + k - 1]
  <2>1. i \in 1..(Len(u) + 1)
    BY <1>1
  <2> QED
    BY <1>1, <2>1, FromType
<1>4. /\ f \o t \in Bytes /\ Len(f \o t) = Len(f) + Len(t)
      /\ \A k \in 1..Len(f) : (f \o t)[k] = f[k]
      /\ \A k \in (Len(f) + 1)..(Len(f) + Len(t)) : (f \o t)[k] = t[k - Len(f)]
  BY <1>2, Longer
<1>5. Len(From(u, i)) = Len(f \o t)
  BY <1>1, <1>2, <1>3, <1>4
<1>6. ASSUME NEW k \in 1..Len(f \o t) PROVE From(u, i)[k] = (f \o t)[k]
  <2>1. k \in 1..(Len(u) - i + 1) /\ From(u, i)[k] = u[i + k - 1]
    BY <1>3, <1>5
  <2>2. CASE k <= Len(f)
    <3>1. k \in 1..Len(f) /\ i + k - 1 \in 1..Len(s)
      BY <1>1, <1>2, <2>2
    <3> QED
      BY <1>1, <1>2, <1>4, <2>1, <3>1
  <2>3. CASE k > Len(f)
    <3>1. k \in (Len(f) + 1)..(Len(f) + Len(t)) /\ i + k - 1 \in (Len(s) + 1)..(Len(s) + Len(t))
          /\ (i + k - 1) - Len(s) = k - Len(f)
      BY <1>1, <1>2, <1>4, <2>3
    <3> QED
      BY <1>1, <1>4, <2>1, <3>1
  <2>4. Len(f) \in Nat
    BY <1>2 DEF Bytes
  <2> QED
    BY <2>2, <2>3, <2>4
<1>7. From(u, i) = f \o t
  BY <1>3, <1>4, <1>5, <1>6, SeqEqual DEF Bytes
<1> QED
  BY <1>7 DEF u, f

-----------------------------------------------------------------------------
(* Patterns.                                                               *)

LEMMA AtFrom ==
    ASSUME NEW s \in Bytes, NEW pattern \in Bytes, NEW i \in 1..(Len(s) + 1), NEW p \in Nat \ {0}
    PROVE  At(From(s, i), p, pattern) <=> At(s, i + p - 1, pattern)
<1> DEFINE f == From(s, i)
<1>0. Len(s) \in Nat /\ Len(pattern) \in Nat /\ DOMAIN pattern = 1..Len(pattern)
  BY DEF Bytes
<1>1. f \in Bytes /\ Len(f) = Len(s) - i + 1 /\ \A k \in 1..Len(f) : f[k] = s[i + k - 1]
  BY FromType
<1> HIDE DEF f
<1>2. p + Len(pattern) - 1 <= Len(f) <=> (i + p - 1) + Len(pattern) - 1 <= Len(s)
  BY <1>0, <1>1
<1>3. ASSUME p + Len(pattern) - 1 <= Len(f), NEW k \in 1..Len(pattern)
      PROVE  f[p + k - 1] = s[(i + p - 1) + k - 1]
  <2>1. p + k - 1 \in 1..Len(f) /\ i + (p + k - 1) - 1 = (i + p - 1) + k - 1
    BY <1>0, <1>1, <1>3
  <2> QED
    BY <1>1, <2>1
<1> QED
  BY <1>0, <1>2, <1>3 DEF At, f

LEMMA AtLonger ==
    ASSUME NEW s \in Bytes, NEW t \in Bytes, NEW pattern \in Bytes, NEW p \in Nat \ {0},
           p + Len(pattern) - 1 <= Len(s)
    PROVE  At(s \o t, p, pattern) <=> At(s, p, pattern)
<1>0. Len(s) \in Nat /\ Len(pattern) \in Nat /\ DOMAIN pattern = 1..Len(pattern)
  BY DEF Bytes
<1>1. Len(s \o t) = Len(s) + Len(t) /\ Len(t) \in Nat /\ \A k \in 1..Len(s) : (s \o t)[k] = s[k]
  BY Longer
<1>2. \A k \in 1..Len(pattern) : p + k - 1 \in 1..Len(s)
  BY <1>0
<1> QED
  BY <1>0, <1>1, <1>2, SMTT(30) DEF At

\* Find is 0 when there is no place, and else the first of them.
LEMMA FindFirst ==
    ASSUME NEW s \in Bytes, NEW pattern, NEW i \in Nat \ {0}
    PROVE  \/ Find(s, pattern, i) = 0 /\ \A p \in i..Len(s) : ~At(s, p, pattern)
           \/ /\ Find(s, pattern, i) \in i..Len(s) /\ At(s, Find(s, pattern, i), pattern)
              /\ \A p \in i..(Find(s, pattern, i) - 1) : ~At(s, p, pattern)
<1>0. Len(s) \in Nat
  BY DEF Bytes
<1>1. Places(s, pattern, i) \in SUBSET Nat /\ \A p \in Places(s, pattern, i) : p \in i..Len(s) /\ At(s, p, pattern)
  BY <1>0 DEF Places
<1>2. \A p \in i..Len(s) : At(s, p, pattern) => p \in Places(s, pattern, i)
  BY DEF Places
<1>3. CASE Places(s, pattern, i) = {}
  BY <1>2, <1>3 DEF Find
<1>4. CASE Places(s, pattern, i) # {}
  <2> DEFINE f == Find(s, pattern, i)
  <2>1. f = Min(Places(s, pattern, i))
    BY <1>4 DEF Find
  <2>2. f \in Places(s, pattern, i) /\ \A p \in Places(s, pattern, i) : f <= p
    BY <1>1, <1>4, <2>1, SmallestOf
  <2> HIDE DEF f
  <2>3. \A p \in i..(f - 1) : ~At(s, p, pattern)
    BY <1>0, <1>1, <1>2, <2>2
  <2> QED
    BY <1>1, <2>2, <2>3 DEF f
<1> QED
  BY <1>3, <1>4

\* It is known by that.
LEMMA FindIs ==
    ASSUME NEW s \in Bytes, NEW pattern, NEW i \in Nat \ {0}, NEW f \in i..Len(s),
           At(s, f, pattern), \A p \in i..(f - 1) : ~At(s, p, pattern)
    PROVE  Find(s, pattern, i) = f
<1> DEFINE g == Find(s, pattern, i)
<1>0. Len(s) \in Nat
  BY DEF Bytes
<1>1. g \in i..Len(s) /\ At(s, g, pattern) /\ \A p \in i..(g - 1) : ~At(s, p, pattern)
  BY FindFirst
<1> HIDE DEF g
<1>2. ~(g < f) /\ ~(f < g)
  BY <1>0, <1>1
<1> QED
  BY <1>0, <1>1, <1>2 DEF g

\* What has been found stays found when more bytes come.
LEMMA FindLonger ==
    ASSUME NEW s \in Bytes, NEW t \in Bytes, NEW pattern \in Bytes, NEW i \in Nat \ {0},
           Find(s, pattern, i) # 0
    PROVE  Find(s \o t, pattern, i) = Find(s, pattern, i)
<1> DEFINE f == Find(s, pattern, i)
<1>0. Len(s) \in Nat /\ Len(pattern) \in Nat
  BY DEF Bytes
<1>1. f \in i..Len(s) /\ At(s, f, pattern) /\ \A p \in i..(f - 1) : ~At(s, p, pattern)
  BY FindFirst
<1> HIDE DEF f
<1>2. f + Len(pattern) - 1 <= Len(s)
  BY <1>1 DEF At
<1>3. s \o t \in Bytes /\ f \in i..Len(s \o t)
  <2>1. s \o t \in Bytes /\ Len(s \o t) = Len(s) + Len(t) /\ Len(t) \in Nat
    BY Longer
  <2> QED
    BY <1>0, <1>1, <2>1
<1>4. At(s \o t, f, pattern)
  BY <1>0, <1>1, <1>2, AtLonger
<1>5. ASSUME NEW p \in i..(f - 1) PROVE ~At(s \o t, p, pattern)
  <2>1. p \in Nat \ {0} /\ p + Len(pattern) - 1 <= Len(s)
    BY <1>0, <1>1, <1>2
  <2> QED
    BY <1>1, <2>1, AtLonger
<1>6. Find(s \o t, pattern, i) = f
  BY <1>3, <1>4, <1>5, FindIs
<1> QED
  BY <1>6 DEF f

-----------------------------------------------------------------------------
(* The search for the end of a frame.                                      *)

LEMMA Patterns ==
    /\ Escape \in Bytes /\ Start \in Bytes /\ Escape \o Escape \in Bytes
    /\ Len(Escape) = 4 /\ Len(Start) = 8 /\ Len(Escape \o Escape) = 8
BY DEF Escape, Start, Bytes, Byte

\* One turn of the loop of _scan_one (sml/parser.py:265-301).
ScanTurn(buf, i, check) ==
    LET esc == Find(buf, Escape, i) IN
    IF esc = 0 \/ esc + 4 > Len(buf) THEN Wait(buf)
    ELSE IF At(buf, esc, Start) THEN Rescan(From(buf, esc))
    ELSE IF At(buf, esc, Escape \o Escape) THEN ScanBody(buf, esc + 8, check)
    ELSE IF buf[esc + 4] # EndMarker THEN ScanBody(buf, esc + 4, check)
    ELSE IF EndBlockThere(buf, esc) THEN CloseFrame(buf, esc, check)
    ELSE Wait(buf)

\* The loop makes turns until it ends: every turn that goes on gets further.
LEMMA ScanTurns ==
    ASSUME NEW buf \in Bytes, NEW check
    PROVE  \A i \in Nat \ {0} : ScanBody(buf, i, check) = ScanTurn(buf, i, check)
<1> DEFINE D == Nat \ {0}
           scan[i \in D] ==
             LET esc == Find(buf, Escape, i) IN
             IF esc = 0 \/ esc + 4 > Len(buf) THEN Wait(buf)
             ELSE IF At(buf, esc, Start) THEN Rescan(From(buf, esc))
             ELSE IF At(buf, esc, Escape \o Escape) THEN scan[esc + 8]
             ELSE IF buf[esc + 4] # EndMarker THEN scan[esc + 4]
             ELSE IF EndBlockThere(buf, esc) THEN CloseFrame(buf, esc, check)
             ELSE Wait(buf)
           esc(i) == Find(buf, Escape, i)
           goesOn(i) == ~(esc(i) = 0 \/ esc(i) + 4 > Len(buf)) /\ ~At(buf, esc(i), Start)
           double(i) == At(buf, esc(i), Escape \o Escape)
           Stop == {i \in D : ~(goesOn(i) /\ (double(i) \/ buf[esc(i) + 4] # EndMarker))}
           next == [i \in D |-> IF i \in Stop THEN i ELSE IF double(i) THEN esc(i) + 8 ELSE esc(i) + 4]
           m == [i \in D |-> IF i <= Len(buf) THEN Len(buf) + 1 - i ELSE 0]
           end(i) == IF esc(i) = 0 \/ esc(i) + 4 > Len(buf) THEN Wait(buf)
                     ELSE IF At(buf, esc(i), Start) THEN Rescan(From(buf, esc(i)))
                     ELSE IF EndBlockThere(buf, esc(i)) THEN CloseFrame(buf, esc(i), check)
                     ELSE Wait(buf)
           V == {end(i) : i \in D}
           base == [i \in D |-> end(i)]
           comb == [i \in D |-> [v \in V |-> v]]
<1>0. Len(buf) \in Nat
  BY DEF Bytes
<1>1. \A i \in D : esc(i) = 0 \/ esc(i) \in i..Len(buf)
  BY FindFirst
<1>2. \A i \in D : i \notin Stop => esc(i) \in i..Len(buf)
  BY <1>1
<1> HIDE DEF esc, scan
<1>3. Recursive(D, V, Stop, m, next, base, comb)
  <2>1. m \in [D -> Nat] /\ base \in [D -> V] /\ comb \in [D -> [V -> V]]
    BY <1>0
  <2>2. next \in [D -> D]
    BY <1>0, <1>2
  <2>3. ASSUME NEW i \in D, i \notin Stop PROVE m[next[i]] < m[i]
    <3>1. next[i] \in {esc(i) + 8, esc(i) + 4}
      BY <2>3
    <3>2. next[i] \in D /\ next[i] > i /\ i <= Len(buf)
      BY <1>0, <1>2, <2>3, <3>1
    <3> QED
      BY <1>0, <3>2
  <2> HIDE DEF m, next, base, comb, V, Stop
  <2> QED
    BY <2>1, <2>2, <2>3 DEF Recursive
<1>4. \A i \in D : base[i] = end(i) /\ \A v \in V : comb[i][v] = v
  OBVIOUS
<1>5. \A i \in D : i \notin Stop => next[i] = IF double(i) THEN esc(i) + 8 ELSE esc(i) + 4
  OBVIOUS
<1>51. next \in [D -> D]
  BY <1>3 DEF Recursive
<1> HIDE DEF base, comb, next, m, V
<1>6. PICK f : Solves(f, D, V, Stop, next, base, comb)
  BY <1>3, RecursiveFunction
<1>7. f = [i \in D |->
             IF esc(i) = 0 \/ esc(i) + 4 > Len(buf) THEN Wait(buf)
             ELSE IF At(buf, esc(i), Start) THEN Rescan(From(buf, esc(i)))
             ELSE IF At(buf, esc(i), Escape \o Escape) THEN f[esc(i) + 8]
             ELSE IF buf[esc(i) + 4] # EndMarker THEN f[esc(i) + 4]
             ELSE IF EndBlockThere(buf, esc(i)) THEN CloseFrame(buf, esc(i), check)
             ELSE Wait(buf)]
  <2>1. f \in [D -> V] /\ \A i \in D : f[i] = IF i \in Stop THEN base[i] ELSE comb[i][f[next[i]]]
    BY <1>6 DEF Solves
  <2>2. \A i \in D : f[i] = IF i \in Stop THEN end(i) ELSE f[next[i]]
    BY <1>4, <1>51, <2>1
  <2>3. ASSUME NEW i \in D
        PROVE  f[i] = IF esc(i) = 0 \/ esc(i) + 4 > Len(buf) THEN Wait(buf)
             ELSE IF At(buf, esc(i), Start) THEN Rescan(From(buf, esc(i)))
             ELSE IF At(buf, esc(i), Escape \o Escape) THEN f[esc(i) + 8]
             ELSE IF buf[esc(i) + 4] # EndMarker THEN f[esc(i) + 4]
             ELSE IF EndBlockThere(buf, esc(i)) THEN CloseFrame(buf, esc(i), check)
             ELSE Wait(buf)
    <3>1. CASE i \in Stop
      BY <2>2, <3>1
    <3>2. CASE i \notin Stop
      BY <1>5, <2>2, <3>2
    <3> QED
      BY <3>1, <3>2
  <2> QED
    BY <2>1, <2>3
<1>8. scan = [i \in D |->
             LET e == Find(buf, Escape, i) IN
             IF e = 0 \/ e + 4 > Len(buf) THEN Wait(buf)
             ELSE IF At(buf, e, Start) THEN Rescan(From(buf, e))
             ELSE IF At(buf, e, Escape \o Escape) THEN scan[e + 8]
             ELSE IF buf[e + 4] # EndMarker THEN scan[e + 4]
             ELSE IF EndBlockThere(buf, e) THEN CloseFrame(buf, e, check)
             ELSE Wait(buf)]
  BY <1>7, Zenon DEF scan, esc
<1>9. \A i \in D : ScanBody(buf, i, check) = scan[i]
  BY DEF ScanBody, scan
<1> SUFFICES ASSUME NEW i \in D PROVE ScanBody(buf, i, check) = ScanTurn(buf, i, check)
  OBVIOUS
<1>10. scan[i] = IF esc(i) = 0 \/ esc(i) + 4 > Len(buf) THEN Wait(buf)
             ELSE IF At(buf, esc(i), Start) THEN Rescan(From(buf, esc(i)))
             ELSE IF At(buf, esc(i), Escape \o Escape) THEN scan[esc(i) + 8]
             ELSE IF buf[esc(i) + 4] # EndMarker THEN scan[esc(i) + 4]
             ELSE IF EndBlockThere(buf, esc(i)) THEN CloseFrame(buf, esc(i), check)
             ELSE Wait(buf)
  BY <1>8 DEF esc
<1>11. esc(i) # 0 => esc(i) + 8 \in D /\ esc(i) + 4 \in D
  BY <1>0, <1>1
<1> QED
  BY <1>9, <1>10, <1>11 DEF ScanTurn, esc

\* Where the loop looks next is further on, while there is a place to look.
LEMMA EscapePlace ==
    ASSUME NEW buf \in Bytes, NEW i \in Nat \ {0}, Find(buf, Escape, i) # 0
    PROVE  /\ Find(buf, Escape, i) \in i..Len(buf) /\ Len(buf) \in Nat
           /\ Find(buf, Escape, i) + 3 <= Len(buf)
           /\ At(buf, Find(buf, Escape, i), Escape)
<1>1. Find(buf, Escape, i) \in i..Len(buf) /\ At(buf, Find(buf, Escape, i), Escape) /\ Len(buf) \in Nat
  BY FindFirst DEF Bytes
<1> QED
  BY <1>1, Patterns DEF At

\* A property of where a scan may begin, proved from the end of buf.
LEMMA ScanInduction ==
    ASSUME NEW buf \in Bytes, NEW T,
           \A i \in Nat \ {0} : (\A j \in Nat \ {0} : j > i /\ i <= Len(buf) => j \in T) => i \in T
    PROVE  \A i \in Nat \ {0} : i \in T
<1> DEFINE D == {d \in Nat : \A i \in Nat \ {0} : Len(buf) + 1 - i <= d => i \in T}
<1>0. Len(buf) \in Nat
  BY DEF Bytes
<1>1. 0 \in D
  BY <1>0
<1>2. ASSUME NEW d \in Nat, d \in D PROVE d + 1 \in D
  <2> SUFFICES ASSUME NEW i \in Nat \ {0}, Len(buf) + 1 - i <= d + 1 PROVE i \in T
    OBVIOUS
  <2>1. \A j \in Nat \ {0} : j > i => j \in T
    BY <1>0, <1>2
  <2> QED
    BY <2>1
<1> HIDE DEF D
<1>3. \A d \in Nat : d \in D
  BY <1>1, <1>2, Induction
<1> SUFFICES ASSUME NEW i \in Nat \ {0} PROVE i \in T
  OBVIOUS
<1>4. Len(buf) + 1 \in D
  BY <1>0, <1>3
<1> QED
  BY <1>0, <1>4 DEF D

\* A scan waits with all of buf, or goes on behind what it has taken of it.
Ends(scan, buf) ==
    \/ scan.kind = "wait" /\ scan.rest = buf
    \/ /\ scan.kind \in {"rescan", "frame"}
       /\ \E k \in 2..(Len(buf) + 1) : scan.rest = From(buf, k)

LEMMA ScanEnds ==
    ASSUME NEW buf \in Bytes, NEW check
    PROVE  \A i \in Nat \ {0, 1} : Ends(ScanBody(buf, i, check), buf)
<1> DEFINE T == {i \in Nat \ {0} : i # 1 => Ends(ScanBody(buf, i, check), buf)}
<1>1. ASSUME NEW i \in Nat \ {0}, \A j \in Nat \ {0} : j > i /\ i <= Len(buf) => j \in T
      PROVE  i \in T
  <2> SUFFICES ASSUME i # 1 PROVE Ends(ScanBody(buf, i, check), buf)
    OBVIOUS
  <2> DEFINE esc == Find(buf, Escape, i)
  <2>1. ScanBody(buf, i, check) = ScanTurn(buf, i, check)
    BY ScanTurns
  <2>2. Ends(Wait(buf), buf)
    BY DEF Ends, Wait
  <2>3. ASSUME esc # 0 PROVE esc \in i..Len(buf) /\ Len(buf) \in Nat /\ esc + 3 <= Len(buf)
    BY <2>3, EscapePlace
  <2>4. ASSUME esc # 0 PROVE Ends(Rescan(From(buf, esc)), buf)
    <3>1. esc \in 2..(Len(buf) + 1)
      BY <2>3, <2>4
    <3> QED
      BY <3>1 DEF Ends, Rescan
  <2>5. ASSUME esc # 0, EndBlockThere(buf, esc) PROVE Ends(CloseFrame(buf, esc, check), buf)
    <3>1. esc + 8 \in 2..(Len(buf) + 1)
      BY <2>3, <2>5 DEF EndBlockThere
    <3> QED
      BY <3>1 DEF Ends, CloseFrame, Found
  <2>6. ASSUME esc # 0 PROVE Ends(ScanBody(buf, esc + 8, check), buf) /\ Ends(ScanBody(buf, esc + 4, check), buf)
    <3>1. esc + 8 \in T /\ esc + 4 \in T /\ esc + 8 # 1 /\ esc + 4 # 1
      BY <1>1, <2>3, <2>6
    <3> QED
      BY <3>1
  <2> QED
    BY <2>1, <2>2, <2>4, <2>5, <2>6 DEF ScanTurn
<1> HIDE DEF T
<1>2. \A i \in Nat \ {0} : i \in T
  BY <1>1, ScanInduction
<1> QED
  BY <1>2 DEF T

\* What a finished scan has found is found again when more bytes come.
Goes(longer, scan, more) ==
    scan.kind # "wait" =>
        /\ longer.kind = scan.kind
        /\ longer.rest = scan.rest \o more
        /\ scan.kind = "frame" => longer.body = scan.body

LEMMA CrcOfTwo == \A data : \E a, b : Crc16Sml(data) = <<a, b>>
BY DEF Crc16Sml

\* The end block at esc says the same when more bytes follow it.
LEMMA CloseLonger ==
    ASSUME NEW buf \in Bytes, NEW more \in Bytes, NEW check,
           NEW esc \in Nat \ {0}, EndBlockThere(buf, esc)
    PROVE  Goes(CloseFrame(buf \o more, esc, check), CloseFrame(buf, esc, check), more)
<1> DEFINE all == buf \o more
           crc == Crc16Sml(SubSeq(buf, 1, esc + 5))
<1>0. /\ all \in Bytes /\ Len(all) = Len(buf) + Len(more) /\ Len(buf) \in Nat /\ Len(more) \in Nat
      /\ \A k \in 1..Len(buf) : all[k] = buf[k]
  BY Longer
<1>1. esc + 7 <= Len(buf)
  BY DEF EndBlockThere
<1>2. From(all, esc + 8) = From(buf, esc + 8) \o more
  <2>1. esc + 8 \in 1..(Len(buf) + 1)
    BY <1>0, <1>1
  <2> QED
    BY <2>1, FromLonger
<1>3. ASSUME NEW i \in Nat \ {0}, NEW j \in Nat, j <= Len(buf)
      PROVE  SubSeq(all, i, j) = SubSeq(buf, i, j)
  <2>1. all \in Seq(Byte) /\ buf \in Seq(Byte)
    BY <1>0 DEF Bytes
  <2>2. \A k \in i..j : all[k] = buf[k]
    BY <1>0, <1>3
  <2>3. \A k \in 1..(1 + j - i) : k + i - 1 \in i..j
    BY <1>3
  <2> HIDE DEF all
  <2> QED
    BY <2>2, <2>3
<1>4. SubSeq(all, 1, esc + 5) = SubSeq(buf, 1, esc + 5)
      /\ SubSeq(all, Len(Start) + 1, esc - 1) = SubSeq(buf, Len(Start) + 1, esc - 1)
  BY <1>0, <1>1, <1>3, Patterns
<1>5. all[esc + 5] = buf[esc + 5]
  BY <1>0, <1>1
<1>6. At(all, esc + 6, crc) <=> At(buf, esc + 6, crc)
  <2>1. PICK a, b : crc = <<a, b>>
    BY CrcOfTwo, Zenon
  <2>2. esc + 6 + Len(crc) - 1 = esc + 7 /\ DOMAIN crc = {1, 2}
    <3> HIDE DEF crc
    <3> QED
      BY <1>0, <2>1
  <2> HIDE DEF all, crc
  <2> QED
    BY <1>0, <1>1, <2>2 DEF At
<1> HIDE DEF all
<1> QED
  BY <1>2, <1>4, <1>5, <1>6 DEF CloseFrame, Goes, Found, all

LEMMA ScanLonger ==
    ASSUME NEW buf \in Bytes, NEW more \in Bytes, NEW check
    PROVE  \A i \in Nat \ {0} : Goes(ScanBody(buf \o more, i, check), ScanBody(buf, i, check), more)
<1> DEFINE all == buf \o more
           T == {i \in Nat \ {0} : Goes(ScanBody(all, i, check), ScanBody(buf, i, check), more)}
<1>0. /\ all \in Bytes /\ Len(all) = Len(buf) + Len(more) /\ Len(buf) \in Nat /\ Len(more) \in Nat
      /\ \A k \in 1..Len(buf) : all[k] = buf[k]
  BY Longer
<1>1. ASSUME NEW i \in Nat \ {0}, \A j \in Nat \ {0} : j > i /\ i <= Len(buf) => j \in T
      PROVE  i \in T
  <2> SUFFICES ASSUME ScanBody(buf, i, check).kind # "wait"
               PROVE  Goes(ScanBody(all, i, check), ScanBody(buf, i, check), more)
    BY DEF Goes
  <2> DEFINE esc == Find(buf, Escape, i)
  <2>1. ScanBody(buf, i, check) = ScanTurn(buf, i, check) /\ ScanBody(all, i, check) = ScanTurn(all, i, check)
    BY <1>0, ScanTurns
  <2>2. ScanTurn(buf, i, check).kind # "wait" /\ Wait(buf).kind = "wait"
    BY <2>1 DEF Wait
  <2>3. esc # 0 /\ esc + 4 <= Len(buf)
    BY <1>0, <2>2, EscapePlace DEF ScanTurn
  <2>4. esc \in i..Len(buf) /\ At(buf, esc, Escape)
    BY <2>3, EscapePlace
  <2>5. Find(all, Escape, i) = esc
    BY <2>3, FindLonger, Patterns
  <2> DEFINE other == ~At(buf, esc, Start) /\ ~At(buf, esc, Escape \o Escape)
  <2>6. ScanBody(buf, esc + 8, check).kind = "wait" \/ Goes(ScanBody(all, esc + 8, check), ScanBody(buf, esc + 8, check), more)
    <3>1. esc + 8 \in T
      BY <1>1, <2>4
    <3> QED
      BY <3>1
  <2>7. Goes(ScanBody(all, esc + 4, check), ScanBody(buf, esc + 4, check), more)
    <3>1. esc + 4 \in T
      BY <1>1, <2>4
    <3> QED
      BY <3>1
  <2>8. esc + 7 <= Len(buf)
    <3>1. CASE At(buf, esc, Start) \/ At(buf, esc, Escape \o Escape)
      BY <3>1, <2>4, Patterns DEF At
    <3>2. CASE other /\ buf[esc + 4] = EndMarker
      BY <2>2, <2>3, <3>2 DEF ScanTurn, EndBlockThere
    <3>3. CASE other /\ buf[esc + 4] # EndMarker
      <4> DEFINE e == Find(buf, Escape, esc + 4)
      <4>1. ScanBody(buf, esc + 4, check).kind # "wait"
        BY <1>0, <2>2, <2>3, <2>4, <3>3 DEF ScanTurn
      <4>2. esc + 4 \in Nat \ {0}
        BY <2>4
      <4>3. ScanBody(buf, esc + 4, check) = ScanTurn(buf, esc + 4, check)
        BY <4>2, ScanTurns
      <4>4. e # 0
        BY <2>2, <4>1, <4>3 DEF ScanTurn
      <4>5. e \in (esc + 4)..Len(buf) /\ e + 3 <= Len(buf)
        BY <4>2, <4>4, EscapePlace
      <4> HIDE DEF e
      <4> QED
        BY <1>0, <2>4, <4>5
    <3> QED
      BY <3>1, <3>2, <3>3
  <2>9. /\ At(all, esc, Start) <=> At(buf, esc, Start)
        /\ At(all, esc, Escape \o Escape) <=> At(buf, esc, Escape \o Escape)
        /\ all[esc + 4] = buf[esc + 4]
    <3>1. esc \in Nat \ {0} /\ esc + 8 - 1 <= Len(buf) /\ esc + 4 \in 1..Len(buf)
      BY <1>0, <2>4, <2>8
    <3> QED
      BY <1>0, <3>1, AtLonger, Patterns
  <2>10. EndBlockThere(buf, esc) /\ EndBlockThere(all, esc)
    BY <1>0, <2>4, <2>8 DEF EndBlockThere
  <2>11. Goes(Rescan(From(all, esc)), Rescan(From(buf, esc)), more)
    <3>1. From(all, esc) = From(buf, esc) \o more
      <4>1. esc \in 1..(Len(buf) + 1)
        BY <1>0, <2>4
      <4> QED
        BY <4>1, FromLonger
    <3> QED
      BY <3>1 DEF Rescan, Goes
  <2>12. Goes(CloseFrame(all, esc, check), CloseFrame(buf, esc, check), more)
    BY <2>4, <2>10, CloseLonger
  <2>13. ~(esc + 4 > Len(all)) /\ ~(esc + 4 > Len(buf))
    BY <1>0, <2>3, <2>4
  <2>14. CASE At(buf, esc, Start)
    BY <2>1, <2>3, <2>5, <2>9, <2>11, <2>13, <2>14 DEF ScanTurn
  <2>15. CASE ~At(buf, esc, Start) /\ At(buf, esc, Escape \o Escape)
    BY <2>1, <2>2, <2>3, <2>5, <2>6, <2>9, <2>13, <2>15 DEF ScanTurn
  <2>16. CASE other /\ buf[esc + 4] # EndMarker
    BY <2>1, <2>3, <2>5, <2>7, <2>9, <2>13, <2>16 DEF ScanTurn
  <2>17. CASE other /\ buf[esc + 4] = EndMarker
    BY <2>1, <2>3, <2>5, <2>9, <2>10, <2>12, <2>13, <2>17 DEF ScanTurn
  <2> QED
    BY <2>14, <2>15, <2>16, <2>17
<1> HIDE DEF T
<1>2. \A i \in Nat \ {0} : i \in T
  BY <1>1, ScanInduction
<1> QED
  BY <1>2 DEF T

-----------------------------------------------------------------------------
(* One scan, and all of them.                                              *)

\* A scan begins behind the start escape it finds.
LEMMA OneFrom ==
    ASSUME NEW buf, NEW check, NEW start, Find(buf, Start, 1) = start, start # 0
    PROVE  ScanOne(buf, check) = ScanBody(From(buf, start), 9, check)
BY Patterns DEF ScanOne

LEMMA OneEnds ==
    ASSUME NEW buf \in Bytes, NEW check
    PROVE  LET scan == ScanOne(buf, check) IN
           /\ scan.rest \in Bytes
           /\ \E k \in 1..(Len(buf) + 1) : scan.rest = From(buf, k)
           /\ \/ scan.kind = "wait"
              \/ scan.kind \in {"rescan", "frame"} /\ Len(scan.rest) < Len(buf)
<1> DEFINE scan == ScanOne(buf, check)
           start == Find(buf, Start, 1)
           head == From(buf, start)
<1>0. Len(buf) \in Nat /\ 1 \in 1..(Len(buf) + 1)
  BY DEF Bytes
<1>1. CASE start = 0
  <2>1. scan.kind = "wait" /\ scan.rest = buf
    BY <1>1 DEF ScanOne, Wait
  <2> QED
    BY <1>0, <2>1, FromFirst
<1>2. CASE start # 0
  <2>1. start \in 1..Len(buf)
    BY <1>2, FindFirst
  <2>2. head \in Bytes /\ Len(head) = Len(buf) - start + 1
    BY <1>0, <2>1, FromType
  <2>3. scan = ScanBody(head, 9, check)
    BY <1>2, OneFrom
  <2>4. Ends(scan, head)
    <3>1. \A i \in Nat \ {0, 1} : Ends(ScanBody(head, i, check), head)
      BY <2>2, ScanEnds
    <3> QED
      BY <2>3, <3>1
  <2> HIDE DEF scan, start
  <2>5. CASE scan.kind = "wait" /\ scan.rest = head
    BY <1>0, <2>1, <2>2, <2>5 DEF scan
  <2>6. ASSUME scan.kind \in {"rescan", "frame"}, NEW k \in 2..(Len(head) + 1), scan.rest = From(head, k)
        PROVE  /\ scan.rest \in Bytes /\ Len(scan.rest) < Len(buf)
               /\ \E j \in 1..(Len(buf) + 1) : scan.rest = From(buf, j)
    <3>1. k \in 1..(Len(buf) - start + 2) /\ k \in 1..(Len(head) + 1) /\ start \in 1..(Len(buf) + 1)
          /\ start + k - 1 \in 1..(Len(buf) + 1)
      BY <1>0, <2>1, <2>2
    <3>2. From(head, k) = From(buf, start + k - 1)
      BY <3>1, FromTwice
    <3>3. From(head, k) \in Bytes /\ Len(From(head, k)) = Len(head) - k + 1
      BY <2>2, <3>1, FromType
    <3>4. Len(head) - k + 1 < Len(buf)
      BY <1>0, <2>1, <2>2
    <3> HIDE DEF head
    <3> QED
      BY <2>6, <3>1, <3>2, <3>3, <3>4
  <2> QED
    BY <2>4, <2>5, <2>6 DEF Ends, scan
<1> QED
  BY <1>1, <1>2

\* What a finished scan has found is found again when more bytes come.
LEMMA OneLonger ==
    ASSUME NEW buf \in Bytes, NEW more \in Bytes, NEW check
    PROVE  Goes(ScanOne(buf \o more, check), ScanOne(buf, check), more)
<1> DEFINE start == Find(buf, Start, 1)
<1>0. Len(buf) \in Nat
  BY DEF Bytes
<1>1. CASE start = 0
  BY <1>1 DEF ScanOne, Wait, Goes
<1>2. CASE start # 0
  <2>1. start \in 1..Len(buf) /\ Find(buf \o more, Start, 1) = start
    BY <1>2, FindFirst, FindLonger, Patterns
  <2>2. From(buf \o more, start) = From(buf, start) \o more /\ From(buf, start) \in Bytes
    <3>1. start \in 1..(Len(buf) + 1)
      BY <1>0, <2>1
    <3> QED
      BY <3>1, FromLonger, FromType
  <2>3. /\ ScanOne(buf, check) = ScanBody(From(buf, start), 9, check)
        /\ ScanOne(buf \o more, check) = ScanBody(From(buf, start) \o more, 9, check)
    BY <1>2, <2>1, <2>2, OneFrom
  <2>4. \A i \in Nat \ {0} :
          Goes(ScanBody(From(buf, start) \o more, i, check), ScanBody(From(buf, start), i, check), more)
    BY <2>2, ScanLonger
  <2> QED
    BY <2>3, <2>4
<1> QED
  BY <1>1, <1>2

\* A scan that waits leaves what the next scan needs: with more bytes it finds
\* what it would find in all of them.
LEMMA OneWaits ==
    ASSUME NEW buf \in Bytes, NEW more \in Bytes, NEW check, ScanOne(buf, check).kind = "wait"
    PROVE  ScanOne(buf \o more, check) = ScanOne(ScanOne(buf, check).rest \o more, check)
<1> DEFINE start == Find(buf, Start, 1)
           head == From(buf, start)
<1>0. Len(buf) \in Nat
  BY DEF Bytes
<1>1. CASE start = 0
  BY <1>1 DEF ScanOne, Wait
<1>2. CASE start # 0
  <2>1. start \in 1..Len(buf) /\ At(buf, start, Start) /\ Find(buf \o more, Start, 1) = start
    BY <1>2, FindFirst, FindLonger, Patterns
  <2>2. start \in 1..(Len(buf) + 1)
    BY <1>0, <2>1
  <2>3. head \in Bytes /\ Len(head) = Len(buf) - start + 1 /\ From(buf \o more, start) = head \o more
    BY <2>2, FromType, FromLonger
  <2>4. ScanOne(buf, check) = ScanBody(head, 9, check) /\ ScanOne(buf \o more, check) = ScanBody(head \o more, 9, check)
    BY <1>2, <2>1, <2>3, OneFrom
  <2>5. ScanOne(buf, check).rest = head
    <3>1. \A i \in Nat \ {0, 1} : Ends(ScanBody(head, i, check), head)
      BY <2>3, ScanEnds
    <3>2. Ends(ScanOne(buf, check), head)
      BY <2>4, <3>1
    <3> QED
      BY <3>2 DEF Ends
  <2>6. At(head, 1, Start)
    <3>1. At(head, 1, Start) <=> At(buf, start + 1 - 1, Start)
      BY <2>2, AtFrom, Patterns, SMTT(30)
    <3> QED
      BY <2>1, <3>1
  <2>7. Find(head \o more, Start, 1) = 1
    <3>1. Find(head, Start, 1) = 1
      <4>1. 1 \in 1..Len(head)
        BY <1>0, <2>1, <2>3
      <4> HIDE DEF head
      <4> QED
        BY <2>3, <2>6, <4>1, FindIs
    <3> QED
      BY <2>3, <3>1, FindLonger, Patterns
  <2>8. head \o more \in Bytes
    BY <2>3, Longer
  <2>9. ScanOne(head \o more, check) = ScanBody(head \o more, 9, check)
    BY <2>7, <2>8, FromFirst, OneFrom
  <2> QED
    BY <2>4, <2>5, <2>9
<1> QED
  BY <1>1, <1>2

\* What one turn of the loop of feed makes of the buffer (sml/parser.py:224-233).
TakeTurn(buf, check) ==
    LET scan == ScanOne(buf, check) IN Taken(scan, TakeFrames(scan.rest, check))

Reports(check) == {ExtractResults(ScanOne(buf, check).body) : buf \in Bytes}

LEMMA TakeTurns ==
    ASSUME NEW check
    PROVE  \A buf \in Bytes : /\ TakeFrames(buf, check) = TakeTurn(buf, check)
                              /\ TakeFrames(buf, check) \in [buffer : Bytes, results : Seq(Reports(check))]
<1> DEFINE scan(b) == ScanOne(b, check)
           take[rest \in Bytes] ==
             LET s == ScanOne(rest, check) IN Taken(s, take[s.rest])
           V == [buffer : Bytes, results : Seq(Reports(check))]
           Stop == {b \in Bytes : scan(b).kind = "wait"}
           m == [b \in Bytes |-> Len(b)]
           next == [b \in Bytes |-> scan(b).rest]
           base == [b \in Bytes |-> [buffer |-> scan(b).rest, results |-> <<>>]]
           comb == [b \in Bytes |-> [v \in V |->
                      IF scan(b).kind = "rescan" THEN v
                      ELSE [buffer |-> v.buffer, results |-> <<ExtractResults(scan(b).body)>> \o v.results]]]
<1>1. \A b \in Bytes : /\ scan(b).rest \in Bytes /\ Len(b) \in Nat
                       /\ scan(b).kind = "wait" \/ Len(scan(b).rest) < Len(b)
  BY OneEnds DEF Bytes
<1>2. \A b \in Bytes : ExtractResults(scan(b).body) \in Reports(check)
  BY DEF Reports
<1> HIDE DEF scan, take
<1>3. Recursive(Bytes, V, Stop, m, next, base, comb)
  <2>1. m \in [Bytes -> Nat] /\ next \in [Bytes -> Bytes] /\ base \in [Bytes -> V]
    BY <1>1
  <2>2. comb \in [Bytes -> [V -> V]]
    <3>1. ASSUME NEW b \in Bytes, NEW v \in V
          PROVE  [buffer |-> v.buffer, results |-> <<ExtractResults(scan(b).body)>> \o v.results] \in V
      BY <1>2
    <3> HIDE DEF V
    <3> QED
      BY <3>1
  <2>3. \A b \in Bytes : b \notin Stop => m[next[b]] < m[b]
    BY <1>1
  <2> HIDE DEF m, next, base, comb, V, Stop
  <2> QED
    BY <2>1, <2>2, <2>3 DEF Recursive
<1>4. \A b \in Bytes : base[b] = [buffer |-> scan(b).rest, results |-> <<>>] /\ next[b] = scan(b).rest
  OBVIOUS
<1>5. \A b \in Bytes : \A v \in V :
        comb[b][v] = IF scan(b).kind = "rescan" THEN v
                     ELSE [buffer |-> v.buffer, results |-> <<ExtractResults(scan(b).body)>> \o v.results]
  OBVIOUS
<1> HIDE DEF base, comb, next, m, V
<1>6. PICK f : Solves(f, Bytes, V, Stop, next, base, comb)
  BY <1>3, RecursiveFunction
<1>7. f = [b \in Bytes |->
             IF scan(b).kind = "wait" THEN [buffer |-> scan(b).rest, results |-> <<>>]
             ELSE IF scan(b).kind = "rescan" THEN f[scan(b).rest]
             ELSE [buffer |-> f[scan(b).rest].buffer,
                   results |-> <<ExtractResults(scan(b).body)>> \o f[scan(b).rest].results]]
  <2>1. f \in [Bytes -> V] /\ \A b \in Bytes : f[b] = IF b \in Stop THEN base[b] ELSE comb[b][f[next[b]]]
    BY <1>6 DEF Solves
  <2>2. \A b \in Bytes : scan(b).rest \in Bytes /\ f[scan(b).rest] \in V
    BY <1>1, <2>1
  <2>3. ASSUME NEW b \in Bytes
        PROVE  f[b] = IF scan(b).kind = "wait" THEN [buffer |-> scan(b).rest, results |-> <<>>]
             ELSE IF scan(b).kind = "rescan" THEN f[scan(b).rest]
             ELSE [buffer |-> f[scan(b).rest].buffer,
                   results |-> <<ExtractResults(scan(b).body)>> \o f[scan(b).rest].results]
    <3>1. f[b] = IF scan(b).kind = "wait" THEN base[b] ELSE comb[b][f[scan(b).rest]]
      BY <1>4, <2>1
    <3> QED
      BY <1>4, <1>5, <2>2, <3>1
  <2> QED
    BY <2>1, <2>3
<1>8. take = [b \in Bytes |-> LET s == ScanOne(b, check) IN Taken(s, take[s.rest])]
  BY <1>7, Zenon DEF take, scan, Taken
<1>9. \A b \in Bytes : TakeFrames(b, check) = take[b]
  BY DEF TakeFrames, take, Bytes
<1>10. ASSUME NEW b \in Bytes PROVE TakeFrames(b, check) = TakeTurn(b, check)
  <2>1. ScanOne(b, check).rest \in Bytes
    BY <1>1 DEF scan
  <2>2. TakeFrames(ScanOne(b, check).rest, check) = take[ScanOne(b, check).rest]
    BY <1>9, <2>1
  <2> QED
    BY <1>8, <1>9, <2>2 DEF TakeTurn
<1> DEFINE T == {n \in Nat : \A b \in Bytes : Len(b) <= n => TakeFrames(b, check) \in V}
<1>11. \A b \in Bytes : Len(b) \in Nat
  BY <1>1
<1>12. ASSUME NEW b \in Bytes, scan(b).kind # "wait" => TakeFrames(scan(b).rest, check) \in V
       PROVE  TakeFrames(b, check) \in V
  <2>1. TakeFrames(b, check) = TakeTurn(b, check)
    BY <1>10
  <2>2. CASE scan(b).kind = "wait"
    BY <1>1, <2>1, <2>2 DEF TakeTurn, Taken, scan, V
  <2>3. CASE scan(b).kind # "wait"
    <3>1. TakeFrames(scan(b).rest, check) \in V
      BY <1>12, <2>3
    <3> QED
      BY <1>2, <2>1, <2>3, <3>1 DEF TakeTurn, Taken, scan, V
  <2> QED
    BY <2>2, <2>3
<1>13. \A n \in Nat : n \in T
  <2>1. 0 \in T
    BY <1>1, <1>12
  <2>2. ASSUME NEW n \in Nat, n \in T PROVE n + 1 \in T
    BY <1>1, <1>12, <2>2
  <2> HIDE DEF T
  <2> QED
    BY <2>1, <2>2, Induction
<1>14. \A b \in Bytes : TakeFrames(b, check) \in V
  BY <1>11, <1>13
<1> QED
  BY <1>10, <1>14 DEF V

\* What is left of the buffer is the end of it.
LEMMA TakeLeaves ==
    ASSUME NEW buf \in Bytes, NEW check
    PROVE  \E k \in 1..(Len(buf) + 1) : TakeFrames(buf, check).buffer = From(buf, k)
<1> DEFINE EndOf(b) == \E k \in 1..(Len(b) + 1) : TakeFrames(b, check).buffer = From(b, k)
           T == {n \in Nat : \A b \in Bytes : Len(b) <= n => EndOf(b)}
<1>0. \A b \in Bytes : Len(b) \in Nat
  BY DEF Bytes
<1>1. ASSUME NEW b \in Bytes, \A c \in Bytes : Len(c) < Len(b) => EndOf(c)
      PROVE  EndOf(b)
  <2> DEFINE scan == ScanOne(b, check)
  <2>1. /\ scan.rest \in Bytes
        /\ scan.kind = "wait" \/ Len(scan.rest) < Len(b)
        /\ \E j \in 1..(Len(b) + 1) : scan.rest = From(b, j)
    BY OneEnds
  <2>2. TakeFrames(b, check) = TakeTurn(b, check)
    BY TakeTurns
  <2>3. PICK j \in 1..(Len(b) + 1) : scan.rest = From(b, j)
    BY <2>1
  <2>4. CASE scan.kind = "wait"
    BY <2>2, <2>3, <2>4 DEF TakeTurn, Taken
  <2>5. CASE scan.kind # "wait"
    <3>1. TakeFrames(b, check).buffer = TakeFrames(scan.rest, check).buffer
      BY <2>2, <2>5 DEF TakeTurn, Taken
    <3>2. EndOf(scan.rest)
      <4>1. scan.rest \in Bytes /\ Len(scan.rest) < Len(b)
        BY <2>1, <2>5
      <4> HIDE DEF EndOf, scan
      <4> QED
        BY <1>1, <4>1
    <3>3. PICK k \in 1..(Len(scan.rest) + 1) : TakeFrames(scan.rest, check).buffer = From(scan.rest, k)
      BY <3>2
    <3>4. Len(scan.rest) = Len(b) - j + 1 /\ Len(b) \in Nat
      BY <1>0, <2>3, FromType
    <3>5. k \in 1..(Len(b) - j + 2) /\ j + k - 1 \in 1..(Len(b) + 1)
      BY <3>4
    <3>6. From(From(b, j), k) = From(b, j + k - 1)
      BY <3>5, FromTwice
    <3> HIDE DEF scan
    <3> QED
      BY <2>3, <3>1, <3>3, <3>5, <3>6
  <2> QED
    BY <2>4, <2>5
<1> HIDE DEF EndOf
<1>2. \A n \in Nat : n \in T
  <2>1. 0 \in T
    BY <1>0, <1>1
  <2>2. ASSUME NEW n \in Nat, n \in T PROVE n + 1 \in T
    BY <1>0, <1>1, <2>2
  <2> HIDE DEF T
  <2> QED
    BY <2>1, <2>2, Induction
<1> QED
  BY <1>0, <1>2 DEF EndOf

LEMMA Regrouped == \A S : \A s, t, u \in Seq(S) : s \o (t \o u) = (s \o t) \o u
BY ConcatAssociative, SMTT(30)

\* The bytes may be split anywhere: what the first part gives, and then the rest
\* of it with the second part, is what both give at once.
LEMMA TakeLonger ==
    ASSUME NEW buf \in Bytes, NEW more \in Bytes, NEW check
    PROVE  LET first == TakeFrames(buf, check)
               second == TakeFrames(first.buffer \o more, check)
           IN  /\ TakeFrames(buf \o more, check).buffer = second.buffer
               /\ TakeFrames(buf \o more, check).results = first.results \o second.results
<1> DEFINE Take(b) == TakeFrames(b, check)
           Splits(b) == /\ Take(b \o more).buffer = Take(Take(b).buffer \o more).buffer
                        /\ Take(b \o more).results = Take(b).results \o Take(Take(b).buffer \o more).results
           T == {n \in Nat : \A b \in Bytes : Len(b) <= n => Splits(b)}
<1>0. \A b \in Bytes : Len(b) \in Nat
  BY DEF Bytes
<1>01. \A b \in Bytes : /\ Take(b) = TakeTurn(b, check)
                        /\ Take(b).buffer \in Bytes /\ Take(b).results \in Seq(Reports(check))
  BY TakeTurns
<1>02. \A b \in Bytes : b \o more \in Bytes
  BY Longer
<1>03. \A s, t, u \in Seq(Reports(check)) : s \o (t \o u) = (s \o t) \o u
  BY Regrouped
<1>1. ASSUME NEW b \in Bytes, \A c \in Bytes : Len(c) < Len(b) => Splits(c)
      PROVE  Splits(b)
  <2> DEFINE scan == ScanOne(b, check)
             long == ScanOne(b \o more, check)
  <2>1. /\ scan.rest \in Bytes
        /\ scan.kind = "wait" \/ (scan.kind \in {"rescan", "frame"} /\ Len(scan.rest) < Len(b))
    BY OneEnds
  <2>2. Take(b) = TakeTurn(b, check) /\ Take(b \o more) = TakeTurn(b \o more, check)
    BY <1>01, <1>02
  <2>3. CASE scan.kind = "wait"
    <3>1. Take(b).buffer = scan.rest /\ Take(b).results = <<>> /\ scan.rest \in Bytes
      BY <2>2, <2>3, OneEnds DEF TakeTurn, Taken
    <3>2. long = ScanOne(scan.rest \o more, check)
      BY <2>3, OneWaits
    <3>3. Take(scan.rest \o more) = TakeTurn(scan.rest \o more, check)
      BY <1>01, <1>02, <3>1
    <3>4. TakeTurn(b \o more, check) = TakeTurn(scan.rest \o more, check)
      BY <3>2 DEF TakeTurn, Taken
    <3>5. Take(scan.rest \o more).results \in Seq(Reports(check))
      BY <1>01, <1>02, <3>1
    <3>6. Take(b \o more) = Take(scan.rest \o more)
      BY <2>2, <3>3, <3>4
    <3> HIDE DEF Take, scan, long
    <3>7. <<>> \o Take(scan.rest \o more).results = Take(scan.rest \o more).results
      BY <3>5
    <3> QED
      BY <3>1, <3>6, <3>7
  <2>4. CASE scan.kind # "wait"
    <3>1. scan.rest \in Bytes /\ Splits(scan.rest)
      <4>1. scan.rest \in Bytes /\ Len(scan.rest) < Len(b)
        BY <2>1, <2>4
      <4> HIDE DEF Splits, scan
      <4> QED
        BY <1>1, <4>1
    <3>2. /\ long.kind = scan.kind /\ long.rest = scan.rest \o more
          /\ scan.kind = "frame" => long.body = scan.body
      BY <2>4, OneLonger DEF Goes
    <3> DEFINE report == ExtractResults(scan.body)
               x == Take(scan.rest)
               y == Take(Take(scan.rest).buffer \o more)
    <3>3. CASE scan.kind = "rescan"
      <4>1. Take(b) = Take(scan.rest) /\ Take(b \o more) = Take(scan.rest \o more)
        BY <2>2, <3>2, <3>3 DEF TakeTurn, Taken
      <4> QED
        BY <3>1, <4>1
    <3>4. CASE scan.kind = "frame"
      <4>1. /\ Take(b).buffer = x.buffer /\ Take(b).results = <<report>> \o x.results
            /\ Take(b \o more).buffer = Take(scan.rest \o more).buffer
            /\ Take(b \o more).results = <<report>> \o Take(scan.rest \o more).results
        BY <2>2, <3>2, <3>4 DEF TakeTurn, Taken
      <4>2. report \in Reports(check)
        BY DEF Reports
      <4>3. x.results \in Seq(Reports(check)) /\ y.results \in Seq(Reports(check))
        BY <1>01, <1>02, <3>1
      <4>4. Take(scan.rest \o more).results = x.results \o y.results /\ Take(scan.rest \o more).buffer = y.buffer
        BY <3>1
      <4>5. y = Take(Take(b).buffer \o more)
        BY <4>1
      <4> HIDE DEF report, x, y, Take
      <4>6. <<report>> \o (x.results \o y.results) = (<<report>> \o x.results) \o y.results
        <5>1. <<report>> \in Seq(Reports(check))
          BY <4>2
        <5> QED
          BY <1>03, <4>3, <5>1
      <4> QED
        BY <4>1, <4>4, <4>5, <4>6
    <3> QED
      BY <2>1, <2>4, <3>3, <3>4
  <2> QED
    BY <2>3, <2>4
<1> HIDE DEF Splits
<1>2. \A n \in Nat : n \in T
  <2>1. 0 \in T
    BY <1>0, <1>1
  <2>2. ASSUME NEW n \in Nat, n \in T PROVE n + 1 \in T
    BY <1>0, <1>1, <2>2
  <2> HIDE DEF T
  <2> QED
    BY <2>1, <2>2, Induction
<1>3. Splits(buf)
  <2>1. Len(buf) \in T /\ Len(buf) \in Nat
    BY <1>0, <1>2
  <2> QED
    BY <2>1
<1> QED
  BY <1>3 DEF Splits

-----------------------------------------------------------------------------
(* The builder makes bytes of every reading.                               *)

\* A sequence of sequences made one, part by part.
LEMMA PartsOf ==
    ASSUME NEW S, NEW s \in Seq(Seq(S)), Len(s) # 0
    PROVE  \E f : /\ FlattenSeq(s) = f[Len(s)]
                  /\ \A i \in 1..Len(s) : f[i] \in Seq(S) /\ f[i] = IF i = 1 THEN s[i] ELSE f[i - 1] \o s[i]
<1> DEFINE D == 0..Len(s)
           n == Len(s)
           V == Seq(S)
           flatten[i \in 1..Len(s)] == IF i = 1 THEN s[i] ELSE flatten[i - 1] \o s[i]
           comb == [i \in D |-> [v \in V |-> IF i = 0 THEN <<>> ELSE IF i = 1 THEN s[i] ELSE v \o s[i]]]
<1>0. n \in Nat /\ \A i \in 1..n : s[i] \in V
  OBVIOUS
<1>01. \A u, v \in V : u \o v \in V
  BY ConcatProperties
<1>02. <<>> \in V
  OBVIOUS
<1> HIDE DEF V
<1>1. comb \in [D -> [V -> V]]
  <2>1. \A i \in D : i # 0 => i \in 1..n
    BY <1>0
  <2>2. \A i \in D : \A v \in V : i # 0 => s[i] \in V /\ v \o s[i] \in V
    BY <1>0, <1>01, <2>1
  <2> QED
    BY <1>02, <2>2
<1>2. Counted(D, V, <<>>, comb)
  BY <1>0, <1>02, <1>1 DEF Counted
<1>3. \A i \in D : \A v \in V : i # 0 => comb[i][v] = IF i = 1 THEN s[i] ELSE v \o s[i]
  OBVIOUS
<1> HIDE DEF comb
<1>4. PICK f : SolvesCounted(f, D, V, <<>>, comb)
  BY <1>2, CountedRecursion
<1>5. f \in [D -> V] /\ \A i \in D : i # 0 => f[i] = IF i = 1 THEN s[i] ELSE f[i - 1] \o s[i]
  <2>1. \A i \in D : i # 0 => i - 1 \in D
    BY <1>0
  <2> QED
    BY <1>3, <1>4, <2>1 DEF SolvesCounted
<1> DEFINE g == [i \in 1..Len(s) |-> f[i]]
<1>6. g = [i \in 1..Len(s) |-> IF i = 1 THEN s[i] ELSE g[i - 1] \o s[i]]
  <2>1. \A i \in 1..Len(s) : i \in D /\ i # 0 /\ (i # 1 => i - 1 \in 1..Len(s))
    BY <1>0
  <2> QED
    BY <1>5, <2>1
<1> HIDE DEF g
<1>7. flatten = [i \in 1..Len(s) |-> IF i = 1 THEN s[i] ELSE flatten[i - 1] \o s[i]]
  BY <1>6, Zenon DEF flatten
<1>8. FlattenSeq(s) = flatten[Len(s)]
  BY Zenon DEF FlattenSeq, flatten, n
<1> HIDE DEF flatten
<1> DEFINE T == {i \in Nat : i \in 1..Len(s) => flatten[i] \in V}
<1>9. \A i \in Nat : i \in T
  <2>1. 0 \in T
    OBVIOUS
  <2>2. ASSUME NEW i \in Nat, i \in T PROVE i + 1 \in T
    <3> SUFFICES ASSUME i + 1 \in 1..Len(s) PROVE flatten[i + 1] \in V
      OBVIOUS
    <3>1. flatten[i + 1] = IF i + 1 = 1 THEN s[i + 1] ELSE flatten[(i + 1) - 1] \o s[i + 1]
      BY <1>7
    <3>2. s[i + 1] \in V /\ (i + 1) - 1 = i
      BY <1>0
    <3>3. i + 1 # 1 => flatten[i] \in V
      BY <1>0, <2>2
    <3> QED
      BY <1>01, <3>1, <3>2, <3>3
  <2> HIDE DEF T
  <2> QED
    BY <2>1, <2>2, Induction
<1>10. \A i \in 1..Len(s) : flatten[i] \in V /\ flatten[i] = IF i = 1 THEN s[i] ELSE flatten[i - 1] \o s[i]
  <2>1. \A i \in 1..Len(s) : i \in Nat
    OBVIOUS
  <2> QED
    BY <1>7, <1>9, <2>1
<1> QED
  BY <1>8, <1>10, Zenon DEF V

LEMMA FlatParts ==
    ASSUME NEW s \in Seq(Bytes), Len(s) # 0
    PROVE  \E f : /\ FlattenSeq(s) = f[Len(s)]
                  /\ \A i \in 1..Len(s) : f[i] \in Bytes /\ f[i] = IF i = 1 THEN s[i] ELSE f[i - 1] \o s[i]
BY PartsOf DEF Bytes

\* Sequences of one element each are made into the sequence of these elements.
LEMMA FlatSingles ==
    ASSUME NEW S, NEW x \in Seq(S)
    PROVE  FlattenSeq([i \in 1..Len(x) |-> <<x[i]>>]) = x
<1> DEFINE n == Len(x)
           s == [i \in 1..n |-> <<x[i]>>]
<1>0. n \in Nat /\ \A i \in 1..n : x[i] \in S
  OBVIOUS
<1>1. s \in Seq(Seq(S)) /\ Len(s) = n /\ \A i \in 1..n : s[i] = <<x[i]>>
  <2>1. \A i \in 1..n : <<x[i]>> \in Seq(S)
    BY <1>0
  <2> QED
    BY <1>0, <2>1
<1> HIDE DEF s
<1>2. CASE n = 0
  <2>1. x = <<>> /\ s = <<>>
    BY <1>1, <1>2
  <2>2. FlattenSeq(s) = s
    BY <1>1, <1>2 DEF FlattenSeq
  <2> QED
    BY <2>1, <2>2 DEF s
<1>3. CASE n # 0
  <2>1. PICK f : /\ FlattenSeq(s) = f[Len(s)]
                 /\ \A i \in 1..Len(s) : f[i] \in Seq(S) /\ f[i] = IF i = 1 THEN s[i] ELSE f[i - 1] \o s[i]
    BY <1>1, <1>3, PartsOf, SMTT(30)
  <2>2. FlattenSeq(s) = f[n] /\ \A i \in 1..n : f[i] = IF i = 1 THEN <<x[i]>> ELSE f[i - 1] \o <<x[i]>>
    BY <1>1, <2>1
  <2>3. ASSUME NEW i \in 1..n PROVE SubSeq(x, i, i) = <<x[i]>>
    <3> DEFINE u == SubSeq(x, i, i)
               v == <<x[i]>>
    <3>1. u \in Seq(S) /\ Len(u) = 1 /\ u[1] = x[i]
      BY <1>0
    <3>2. v \in Seq(S) /\ Len(v) = 1 /\ v[1] = x[i]
      BY <1>0
    <3> HIDE DEF u, v
    <3>3. \A j \in 1..Len(v) : u[j] = v[j]
      BY <3>1, <3>2
    <3>4. u = v
      BY <3>1, <3>2, <3>3, SeqEqual
    <3> QED
      BY <3>4 DEF u, v
  <2> DEFINE T == {k \in Nat : k + 1 <= n => f[k + 1] = SubSeq(x, 1, k + 1)}
  <2>4. \A k \in Nat : k \in T
    <3>1. 0 \in T
      <4>1. 0 + 1 = 1 /\ 1 \in 1..n
        BY <1>0, <1>3
      <4>2. f[1] = <<x[1]>> /\ SubSeq(x, 1, 1) = <<x[1]>>
        BY <2>2, <2>3, <4>1
      <4> QED
        BY <4>1, <4>2
    <3>2. ASSUME NEW k \in Nat, k \in T PROVE k + 1 \in T
      <4> SUFFICES ASSUME (k + 1) + 1 <= n PROVE f[(k + 1) + 1] = SubSeq(x, 1, (k + 1) + 1)
        OBVIOUS
      <4> DEFINE i == k + 1
      <4>1. i \in Nat /\ i + 1 \in 1..n /\ i + 1 # 1 /\ (i + 1) - 1 = i /\ i <= n /\ i \in 1..n
        BY <1>0
      <4>2. f[i] = SubSeq(x, 1, i)
        BY <3>2, <4>1
      <4> HIDE DEF i, T
      <4>3. f[i + 1] = f[i] \o <<x[i + 1]>>
        BY <2>2, <4>1
      <4>4. SubSeq(x, i + 1, i + 1) = <<x[i + 1]>>
        BY <2>3, <4>1
      <4>5. SubSeq(x, 1, i) \o SubSeq(x, i + 1, i + 1) = SubSeq(x, 1, i + 1)
        <5>1. 1 \in 1..(n + 1) /\ i \in (1 - 1)..n /\ i + 1 \in i..n
          BY <1>0, <4>1
        <5> QED
          BY <5>1, ConcatAdjacentSubSeq
      <4> QED
        BY <4>2, <4>3, <4>4, <4>5 DEF i
    <3> HIDE DEF T
    <3> QED
      BY <3>1, <3>2, Induction
  <2>5. f[n] = SubSeq(x, 1, n)
    <3>1. n - 1 \in Nat /\ (n - 1) + 1 = n
      BY <1>0, <1>3
    <3>2. n - 1 \in T
      BY <2>4, <3>1
    <3> QED
      BY <1>0, <3>1, <3>2
  <2>6. SubSeq(x, 1, n) = x
    OBVIOUS
  <2> QED
    BY <2>2, <2>5, <2>6 DEF s
<1> QED
  BY <1>2, <1>3

LEMMA FlatBytes ==
    ASSUME NEW s \in Seq(Bytes)
    PROVE  FlattenSeq(s) \in Bytes
<1>1. CASE Len(s) = 0
  <2>1. s = <<>>
    BY <1>1
  <2> QED
    BY <2>1 DEF FlattenSeq, Bytes
<1>2. CASE Len(s) # 0
  <2>1. Len(s) \in 1..Len(s)
    BY <1>2
  <2> QED
    BY <1>2, <2>1, FlatParts, Zenon
<1> QED
  BY <1>1, <1>2

\* The number of TL bytes is where the loop of _encode_primitive_tl ends.
LEMMA FewestTLBytes ==
    ASSUME NEW length \in Nat, NEW own \in {0, 1}
    PROVE  TLBytes(length, own) \in Nat \ {0} /\ Holds(TLBytes(length, own), length, own)
<1> DEFINE T == {n \in Nat : n # 0 /\ Holds(n, length, own)}
<1>1. length + 1 \in T
  <2>1. length + 1 < Power(16, length + 1) /\ length < Power(16, length) /\ Power(16, length + 1) = 16 * Power(16, length)
    BY PowerExceeds, PowerEquation
  <2>2. Power(16, length) \in Nat
    BY PowerEquation
  <2>3. length + own * (length + 1) <= 2 * (length + 1)
    OBVIOUS
  <2> QED
    BY <2>1, <2>2, <2>3 DEF Holds
<1>2. PICK n \in T : \A k \in T : n <= k
  <2>1. T \in SUBSET Nat /\ T # {}
    BY <1>1
  <2> HIDE DEF T
  <2> QED
    BY <2>1, LeastNumber
<1>3. n \in 1..(length + 1) /\ Holds(n, length, own) /\ \A k \in 1..(n - 1) : ~Holds(k, length, own)
  BY <1>1, <1>2
<1> QED
  BY <1>3 DEF TLBytes

Types == {TypeOctet, TypeBool, TypeInt, TypeUint, TypeList}

LEMMA TLIsBytes ==
    ASSUME NEW type \in Types, NEW length \in Nat, NEW own \in {0, 1}
    PROVE  TL(type, length, own) \in Bytes
<1> DEFINE n == TLBytes(length, own)
           total == length + own * n
           nibbles == DigitsOf(16, total, n)
<1>1. n \in Nat \ {0}
  BY FewestTLBytes
<1>2. \A i \in 1..n : nibbles[i] \in 0..15
  <2>1. total \in Nat
    BY <1>1
  <2> HIDE DEF n, total
  <2>2. nibbles \in Seq(0..(16 - 1)) /\ Len(nibbles) = n
    <3>1. 16 \in Nat \ {0} /\ n \in Nat
      BY <1>1
    <3>0. total \in Int
      BY <2>1
    <3>2. /\ DigitsOf(16, total, n) \in Seq(0..(16 - 1))
          /\ Len(DigitsOf(16, total, n)) = n
      BY <3>0, <3>1, DigitsType, Zenon
    <3> QED
      BY <3>2
  <2> HIDE DEF nibbles
  <2>3. \A i \in 1..n : nibbles[i] \in 0..(16 - 1)
    BY <2>2
  <2> QED
    BY <2>3
<1>3. type \in {0, 64, 80, 96, 112}
  BY DEF Types, TypeOctet, TypeBool, TypeInt, TypeUint, TypeList
<1>31. TL(type, length, own) =
         [i \in 1..n |-> nibbles[i] + (IF i = 1 THEN type ELSE 0) + (IF i < n THEN 128 ELSE 0)]
  BY DEF TL
<1> HIDE DEF nibbles, n, total
<1>4. \A i \in 1..n : nibbles[i] + (IF i = 1 THEN type ELSE 0) + (IF i < n THEN 128 ELSE 0) \in Byte
  BY <1>2, <1>3 DEF Byte
<1> QED
  BY <1>1, <1>31, <1>4 DEF Bytes

\* Eight bits are a byte.
LEMMA BytesOfBits ==
    ASSUME NEW n \in Nat
    PROVE  Power(2, 8 * n) = Power(256, n)
<1>1. Power(2, 1) = 2 /\ Power(2, 2) = 4 /\ Power(2, 4) = 16 /\ Power(2, 8) = 256
  <2>1. Power(2, 0 + 1) = 2 * Power(2, 0) /\ Power(2, 0) = 1
    BY PowerEquation
  <2>2. Power(2, 1 + 1) = Power(2, 1) * Power(2, 1) /\ Power(2, 2 + 2) = Power(2, 2) * Power(2, 2)
        /\ Power(2, 4 + 4) = Power(2, 4) * Power(2, 4)
    BY PowerSum
  <2> QED
    BY <2>1, <2>2
<1> DEFINE T == {k \in Nat : Power(2, 8 * k) = Power(256, k)}
<1>2. 0 \in T
  BY PowerEquation
<1>3. ASSUME NEW k \in Nat, k \in T PROVE k + 1 \in T
  <2>1. Power(2, 8 * k + 8) = Power(2, 8 * k) * Power(2, 8)
    BY PowerSum
  <2>2. Power(256, k + 1) = 256 * Power(256, k) /\ Power(256, k) \in Nat
    BY PowerEquation
  <2>3. 8 * (k + 1) = 8 * k + 8
    OBVIOUS
  <2> QED
    BY <1>1, <1>3, <2>1, <2>2, <2>3
<1> HIDE DEF T
<1>4. n \in T
  BY <1>2, <1>3, Induction
<1> QED
  BY <1>4 DEF T

\* A number fits as many bits as bit_length says, and as many bytes as are made of it.
LEMMA SizeOfNumber ==
    ASSUME NEW v \in Nat
    PROVE  /\ BitLength(v) \in Nat /\ v < Power(2, BitLength(v))
           /\ UintSize(v) \in Nat /\ v < Power(256, UintSize(v))
<1> DEFINE n == BitLength(v)
<1>1. n \in Nat /\ v < Power(2, n)
  <2> DEFINE T == {k \in Nat : v < Power(2, k)}
  <2>1. v \in T
    BY PowerExceeds
  <2>2. PICK k \in T : \A j \in T : k <= j
    <3>1. T \in SUBSET Nat /\ T # {}
      BY <2>1
    <3> HIDE DEF T
    <3> QED
      BY <3>1, LeastNumber
  <2>3. k \in 0..v /\ v < Power(2, k) /\ \A j \in 0..(k - 1) : v >= Power(2, j)
    <3>0. \A j \in Nat : Power(2, j) \in Nat
      BY PowerIsNat
    <3>1. \A j \in 0..(k - 1) : j \in Nat /\ j \notin T /\ Power(2, j) \in Nat
      BY <2>2, <3>0
    <3> QED
      BY <2>1, <2>2, <3>1
  <2> QED
    BY <2>3 DEF BitLength
<1> HIDE DEF n
<1>2. ASSUME NEW size \in Nat, n <= 8 * size PROVE v < Power(256, size)
  <2>1. Power(2, 8 * size) = Power(256, size)
    BY BytesOfBits
  <2>2. n = 8 * size \/ Power(2, n) < Power(2, 8 * size)
    BY <1>1, <1>2, PowerGrows
  <2>3. Power(2, n) \in Nat /\ Power(2, 8 * size) \in Nat
    <3>1. n \in Nat /\ 8 * size \in Nat
      BY <1>1
    <3> QED
      BY <3>1, PowerIsNat
  <2> QED
    BY <1>1, <2>1, <2>2, <2>3
<1>3. UintSize(v) \in Nat /\ v < Power(256, UintSize(v))
  <2>1. CASE v < 256
    <3>1. Power(256, 0 + 1) = 256 * Power(256, 0) /\ Power(256, 0) = 1
      BY PowerEquation
    <3> QED
      BY <2>1, <3>1 DEF UintSize
  <2>2. CASE ~(v < 256)
    <3> DEFINE size == (n + 7) \div 8
    <3>1. size \in Nat /\ n <= 8 * size
      BY <1>1
    <3>2. UintSize(v) = size
      BY <2>2 DEF UintSize, n
    <3> HIDE DEF size
    <3> QED
      BY <1>2, <3>1, <3>2
  <2> QED
    BY <2>1, <2>2
<1> QED
  BY <1>1, <1>3 DEF n

\* The size encode_int takes leaves the top bit for the sign.
LEMMA SizeOfInt ==
    ASSUME NEW v \in Nat
    PROVE  /\ (BitLength(v) + 8) \div 8 \in Nat \ {0}
           /\ v < 128 * Power(256, (BitLength(v) + 8) \div 8 - 1)
<1> DEFINE n == BitLength(v)
           size == (n + 8) \div 8
<1>1. n \in Nat /\ v < Power(2, n)
  BY SizeOfNumber
<1> HIDE DEF n
<1>2. size \in Nat \ {0} /\ n <= 8 * (size - 1) + 7
  BY <1>1
<1> HIDE DEF size
<1> DEFINE k == 8 * (size - 1)
<1>3. k \in Nat /\ Power(2, k) = Power(256, size - 1) /\ Power(2, k) \in Nat
  <2>1. k \in Nat /\ size - 1 \in Nat
    BY <1>2
  <2> QED
    BY <2>1, BytesOfBits, PowerIsNat
<1>4. Power(2, k + 7) = 128 * Power(2, k)
  <2> HIDE DEF k
  <2>1. Power(2, k + 1) = 2 * Power(2, k) /\ Power(2, (k + 1) + 1) = 2 * Power(2, k + 1)
        /\ Power(2, (k + 2) + 1) = 2 * Power(2, k + 2) /\ Power(2, (k + 3) + 1) = 2 * Power(2, k + 3)
        /\ Power(2, (k + 4) + 1) = 2 * Power(2, k + 4) /\ Power(2, (k + 5) + 1) = 2 * Power(2, k + 5)
        /\ Power(2, (k + 6) + 1) = 2 * Power(2, k + 6)
    <3>1. \A j \in Nat : Power(2, j + 1) = 2 * Power(2, j)
      BY PowerEquation
    <3> QED
      BY <1>3, <3>1
  <2>2. (k + 1) + 1 = k + 2 /\ (k + 2) + 1 = k + 3 /\ (k + 3) + 1 = k + 4 /\ (k + 4) + 1 = k + 5
        /\ (k + 5) + 1 = k + 6 /\ (k + 6) + 1 = k + 7
    BY <1>3
  <2> QED
    BY <1>3, <2>1, <2>2
<1>5. n = k + 7 \/ Power(2, n) < Power(2, k + 7)
  BY <1>1, <1>2, <1>3, PowerGrows
<1>6. Power(2, n) \in Nat /\ Power(2, k + 7) \in Nat
  <2>1. k + 7 \in Nat
    BY <1>3
  <2> QED
    BY <1>1, <2>1, PowerIsNat
<1>7. v < 128 * Power(256, size - 1)
  <2> HIDE DEF k
  <2> QED
    BY <1>1, <1>3, <1>4, <1>5, <1>6
<1> QED
  BY <1>2, <1>7 DEF size, n

\* Shifting by a byte at a time gives the digits in base 256.
LEMMA BigEndianDigits ==
    ASSUME NEW v \in Int, NEW n \in Nat
    PROVE  BigEndian(v, n) = DigitsOf(256, v, n)
<1> DEFINE D == 0..n
           shifted[k \in 0..n] == IF k = 0 THEN v ELSE shifted[k - 1] \div 256
           f == [k \in 0..n |-> v \div Power(256, k)]
<1>1. f = [k \in 0..n |-> IF k = 0 THEN v ELSE f[k - 1] \div 256]
  <2>1. ASSUME NEW k \in 0..n PROVE f[k] = IF k = 0 THEN v ELSE f[k - 1] \div 256
    <3>1. CASE k = 0
      BY <3>1, PowerEquation
    <3>2. CASE k # 0
      <4>1. k - 1 \in Nat /\ k - 1 \in 0..n /\ (k - 1) + 1 = k
        BY <3>2
      <4>2. Power(256, k) = 256 * Power(256, k - 1) /\ Power(256, k - 1) \in Nat \ {0}
        BY <4>1, PowerEquation, PowerPositive
      <4>3. v \div (256 * Power(256, k - 1)) = (v \div Power(256, k - 1)) \div 256
        BY <4>2, DividedTwice
      <4> QED
        BY <3>2, <4>1, <4>2, <4>3
    <3> QED
      BY <3>1, <3>2
  <2> QED
    BY <2>1, ZenonT(60)
<1> HIDE DEF f
<1>2. shifted = [k \in 0..n |-> IF k = 0 THEN v ELSE shifted[k - 1] \div 256]
  BY <1>1, ZenonT(60) DEF shifted
<1>3. BigEndian(v, n) = [i \in 1..n |-> shifted[n - i] % 256]
  BY Zenon DEF BigEndian, shifted
<1> HIDE DEF shifted
<1> DEFINE T == {k \in Nat : k <= n => shifted[k] = v \div Power(256, k)}
<1>4. \A k \in Nat : k \in T
  <2>1. 0 \in T
    BY <1>2, PowerEquation
  <2>2. ASSUME NEW k \in Nat, k \in T PROVE k + 1 \in T
    <3> SUFFICES ASSUME k + 1 <= n PROVE shifted[k + 1] = v \div Power(256, k + 1)
      OBVIOUS
    <3>1. shifted[k + 1] = shifted[k] \div 256 /\ shifted[k] = v \div Power(256, k)
      BY <1>2, <2>2
    <3>2. Power(256, k + 1) = 256 * Power(256, k) /\ Power(256, k) \in Nat \ {0}
      BY PowerEquation, PowerPositive
    <3>3. v \div (256 * Power(256, k)) = (v \div Power(256, k)) \div 256
      BY <3>2, DividedTwice
    <3> QED
      BY <3>1, <3>2, <3>3
  <2> HIDE DEF T
  <2> QED
    BY <2>1, <2>2, Induction
<1>5. \A i \in 1..n : shifted[n - i] = v \div Power(256, n - i)
  BY <1>4
<1> QED
  BY <1>3, <1>5 DEF DigitsOf

LEMMA BigEndianIsBytes ==
    ASSUME NEW v \in Int, NEW n \in Nat
    PROVE  BigEndian(v, n) \in Bytes /\ Len(BigEndian(v, n)) = n
<1> DEFINE b == 256
<1>1. b \in Nat \ {0} /\ 0..(b - 1) = Byte
  BY DEF Byte
<1>2. BigEndian(v, n) = DigitsOf(b, v, n)
  BY BigEndianDigits
<1> HIDE DEF b
<1>3. DigitsOf(b, v, n) \in Seq(0..(b - 1)) /\ Len(DigitsOf(b, v, n)) = n
  BY <1>1, DigitsType, Zenon
<1> QED
  BY <1>1, <1>2, <1>3 DEF Bytes

LEMMA EncodedNumbers ==
    /\ \A v \in Int, size \in Nat : EncodeUint(v, size) \in Bytes
    /\ \A v \in Int : EncodeInt(v) \in Bytes
<1>1. ASSUME NEW v \in Int, NEW size \in Nat, NEW type \in Types
      PROVE  TL(type, size, 1) \o BigEndian(v, size) \in Bytes
  BY TLIsBytes, BigEndianIsBytes DEF Bytes
<1>2. ASSUME NEW v \in Int PROVE EncodeInt(v) \in Bytes
  <2> DEFINE size == (BitLength(IF v < 0 THEN -v ELSE v) + 8) \div 8
  <2>1. size \in Nat
    <3>1. (IF v < 0 THEN -v ELSE v) \in Nat
      OBVIOUS
    <3> QED
      BY <3>1, SizeOfInt
  <2> HIDE DEF size
  <2>2. TL(TypeInt, size, 1) \o BigEndian(v, size) \in Bytes
    BY <1>1, <2>1 DEF Types
  <2> QED
    BY <2>2 DEF EncodeInt, size
<1> QED
  BY <1>1, <1>2 DEF EncodeUint, Types

LEMMA EncodedOctet == \A data \in Bytes : EncodeOctet(data) \in Bytes
<1> SUFFICES ASSUME NEW data \in Bytes PROVE EncodeOctet(data) \in Bytes
  OBVIOUS
<1>1. Len(data) \in Nat
  BY DEF Bytes
<1>2. TL(TypeOctet, Len(data), 1) \in Bytes
  BY <1>1, TLIsBytes DEF Types
<1> QED
  BY <1>2 DEF EncodeOctet, Bytes

LEMMA EncodedList == \A items \in Seq(Bytes) : EncodeList(items) \in Bytes
<1> SUFFICES ASSUME NEW items \in Seq(Bytes) PROVE EncodeList(items) \in Bytes
  OBVIOUS
<1>1. TL(TypeList, Len(items), 0) \in Bytes
  BY TLIsBytes DEF Types
<1> QED
  BY <1>1, FlatBytes DEF EncodeList, Bytes

LEMMA EncodedValue == \A v \in Primitives \cup {Null} : EncodeValue(v) \in Bytes
<1> SUFFICES ASSUME NEW v \in Primitives \cup {Null} PROVE EncodeValue(v) \in Bytes
  OBVIOUS
<1>1. CASE v = Null
  <2>1. EncodeValue(v) = <<0>>
    BY <1>1 DEF EncodeValue, Null
  <2> QED
    BY <2>1 DEF Bytes, Byte
<1>2. ASSUME NEW x \in Nat, v = <<"uint", x>> PROVE EncodeValue(v) \in Bytes
  <2>1. EncodeValue(v) = EncodeUint(x, UintSize(x))
    BY <1>2 DEF EncodeValue, Null
  <2> QED
    BY <2>1, SizeOfNumber, EncodedNumbers
<1>3. ASSUME NEW x \in Int, v = <<"int", x>> PROVE EncodeValue(v) \in Bytes
  <2>1. EncodeValue(v) = EncodeInt(x)
    BY <1>3 DEF EncodeValue, Null
  <2> QED
    BY <2>1, EncodedNumbers
<1>4. ASSUME NEW x \in Bytes, v = <<"octet", x>> PROVE EncodeValue(v) \in Bytes
  <2>1. EncodeValue(v) = EncodeOctet(x)
    BY <1>4 DEF EncodeValue, Null
  <2> QED
    BY <2>1, EncodedOctet
<1>5. ASSUME NEW x \in BOOLEAN, v = <<"bool", x>> PROVE EncodeValue(v) \in Bytes
  <2>1. EncodeValue(v) = TL(TypeBool, 1, 1) \o <<IF x THEN 1 ELSE 0>>
    BY <1>5 DEF EncodeValue, EncodeBool, Null
  <2>2. TL(TypeBool, 1, 1) \in Bytes /\ <<IF x THEN 1 ELSE 0>> \in Bytes
    BY TLIsBytes DEF Types, Bytes, Byte
  <2> QED
    BY <2>1, <2>2 DEF Bytes
<1> QED
  BY <1>1, <1>2, <1>3, <1>4, <1>5 DEF Primitives, Unsigneds, Bytes

LEMMA BuiltList ==
    ASSUME NEW reading \in MeterReadings
    PROVE  BuildGetListRes(reading) \in Bytes
<1>0. <<0>> \in Bytes
  BY DEF Bytes, Byte
<1>1. ASSUME NEW e \in ListEntries PROVE BuildListEntry(e) \in Bytes
  <2>1. /\ e.code \in Bytes /\ e.value \in Primitives /\ e.unit \in Primitives \cup {Null} /\ e.scaler \in Int
        /\ e.status \in Unsigneds \cup {Null} /\ e.time \in Primitives \cup {Null}
    BY DEF ListEntries, Primitives, Bytes
  <2>2. e.status # Null => EncodeUint(e.status[2], 8) \in Bytes
    <3> SUFFICES ASSUME e.status # Null PROVE EncodeUint(e.status[2], 8) \in Bytes
      OBVIOUS
    <3>1. e.status[2] \in Int
      BY <2>1 DEF Unsigneds
    <3> QED
      BY <3>1, EncodedNumbers
  <2>3. EncodeList(<<EncodeUint(1, 1), EncodeValue(e.time)>>) \in Bytes
    <3>1. EncodeUint(1, 1) \in Bytes /\ EncodeValue(e.time) \in Bytes
      BY <2>1, EncodedNumbers, EncodedValue
    <3>2. <<EncodeUint(1, 1), EncodeValue(e.time)>> \in Seq(Bytes)
      BY <3>1
    <3> QED
      BY <3>2, EncodedList
  <2> DEFINE status == IF e.status = Null THEN <<0>> ELSE EncodeUint(e.status[2], 8)
             time == IF e.time = Null THEN <<0>> ELSE EncodeList(<<EncodeUint(1, 1), EncodeValue(e.time)>>)
             scaler == IF e.scaler = 0 /\ e.unit = Null THEN <<0>> ELSE EncodeInt(e.scaler)
             code == EncodeOctet(e.code)
             unit == EncodeValue(e.unit)
             value == EncodeValue(e.value)
  <2>4. {status, time, scaler, code, unit, value} \subseteq Bytes
    BY <1>0, <2>1, <2>2, <2>3, EncodedOctet, EncodedValue, EncodedNumbers
  <2>5. BuildListEntry(e) = EncodeList(<<code, status, time, unit, scaler, value, <<0>> >>)
    BY DEF BuildListEntry
  <2> HIDE DEF status, time, scaler, code, unit, value
  <2>6. <<code, status, time, unit, scaler, value, <<0>> >> \in Seq(Bytes)
    BY <1>0, <2>4
  <2> QED
    BY <2>5, <2>6, EncodedList
<1> DEFINE entries == [i \in DOMAIN reading.entries |-> BuildListEntry(reading.entries[i])]
           server == EncodeOctet(reading.server)
           kind == EncodeUint(1793, 2)
           content == EncodeList(<< <<0>>, server, <<0>>, <<0>>, EncodeList(entries), <<0>>, <<0>> >>)
<1>2. entries \in Seq(Bytes)
  <2>1. reading.entries \in Seq(ListEntries)
    BY DEF MeterReadings
  <2>2. DOMAIN reading.entries = 1..Len(reading.entries) /\ Len(reading.entries) \in Nat
    BY <2>1
  <2>3. \A i \in 1..Len(reading.entries) : BuildListEntry(reading.entries[i]) \in Bytes
    BY <1>1, <2>1
  <2> QED
    BY <2>2, <2>3
<1>3. EncodeList(entries) \in Bytes
  BY <1>2, EncodedList
<1>4. server \in Bytes /\ kind \in Bytes
  <2>1. reading.server \in Bytes
    BY DEF MeterReadings, Bytes
  <2> QED
    BY <2>1, EncodedOctet, EncodedNumbers
<1>5. BuildGetListRes(reading) = EncodeList(<<kind, content>>)
  BY DEF BuildGetListRes
<1> HIDE DEF entries, server, kind
<1>6. content \in Bytes
  <2>1. << <<0>>, server, <<0>>, <<0>>, EncodeList(entries), <<0>>, <<0>> >> \in Seq(Bytes)
    BY <1>0, <1>3, <1>4
  <2> QED
    BY <2>1, EncodedList
<1> HIDE DEF content
<1>7. <<kind, content>> \in Seq(Bytes)
  BY <1>4, <1>6
<1> QED
  BY <1>5, <1>7, EncodedList

\* A message is a list whose last item is a zero.
LEMMA MessageItems ==
    ASSUME NEW reading \in MeterReadings
    PROVE  \E items \in Seq(Bytes) :
             /\ Len(items) = 6 /\ items[6] = <<0>>
             /\ BuildMessage(BuildGetListRes(reading)) = EncodeList(items)
<1> DEFINE body == BuildGetListRes(reading)
           id == EncodeOctet(<<0>>)
           zero == EncodeUint(0, 1)
           items == <<id, zero, zero, body, zero, <<0>> >>
<1>1. <<0>> \in Bytes
  BY DEF Bytes, Byte
<1>2. id \in Bytes /\ zero \in Bytes /\ body \in Bytes
  BY <1>1, EncodedOctet, EncodedNumbers, BuiltList
<1>3. BuildMessage(body) = EncodeList(items)
  BY DEF BuildMessage
<1> HIDE DEF body, id, zero
<1>4. items \in Seq(Bytes) /\ Len(items) = 6 /\ items[6] = <<0>>
  BY <1>1, <1>2
<1> QED
  BY <1>3, <1>4 DEF body

LEMMA BuiltMessage ==
    ASSUME NEW reading \in MeterReadings
    PROVE  BuildMessage(BuildGetListRes(reading)) \in Bytes
BY MessageItems, EncodedList

\* The digits of a number that fits are read as that number.
LEMMA UnsignedBack ==
    ASSUME NEW n \in Nat, NEW v \in Nat, v < Power(256, n)
    PROVE  Unsigned(BigEndian(v, n)) = v
<1>1. ValueOf(256, DigitsOf(256, v, n)) = v % Power(256, n)
  BY DigitsAddUp
<1>2. v % Power(256, n) = v
  <2>1. Power(256, n) \in Nat \ {0}
    BY PowerPositive
  <2> QED
    BY <2>1, SmallRemainder
<1>3. Power(256, n) \in Nat
  BY PowerIsNat
<1> QED
  BY <1>1, <1>2, <1>3, BigEndianDigits DEF Unsigned

\* The complement of a number is what its digits' complements stand for.
LEMMA Complement ==
    ASSUME NEW v \in Int, NEW n \in Nat, NEW i \in 1..n
    PROVE  /\ BigEndian(v, n)[i] \in Byte
           /\ BigEndian(-1 - v, n)[i] = 255 - BigEndian(v, n)[i]
<1> DEFINE k == Power(256, n - i)
           q == v \div k
           u == -1 - v
<1>1. k \in Nat \ {0}
  <2>1. n - i \in Nat
    OBVIOUS
  <2> QED
    BY <2>1, PowerPositive
<1>2. q \in Int /\ k * q <= v /\ v < k * q + k
  <2> HIDE DEF k
  <2> QED
    BY <1>1, DivisionBounds
<1>3. BigEndian(v, n)[i] = q % 256 /\ BigEndian(u, n)[i] = (u \div k) % 256
  BY BigEndianDigits DEF DigitsOf
<1> HIDE DEF k, q
<1>4. u \div k = -1 - q
  <2>1. k * (-1 - q) = -(k * q) - k /\ k * q \in Int
    BY <1>1, <1>2
  <2>2. k * (-1 - q) <= u /\ u < k * (-1 - q) + k
    BY <1>1, <1>2, <2>1
  <2> QED
    BY <1>1, <1>2, <2>2, Quotient
<1>5. (-1 - q) % 256 = 255 - (q % 256) /\ q % 256 \in 0..255
  BY <1>2
<1> QED
  BY <1>3, <1>4, <1>5 DEF Byte

\* Two's complement: the top bit is the sign.
LEMMA SignedBack ==
    ASSUME NEW v \in Int, NEW size \in Nat \ {0},
           (IF v < 0 THEN -v ELSE v) < 128 * Power(256, size - 1)
    PROVE  Signed(BigEndian(v, size)) = v
<1> DEFINE raw == BigEndian(v, size)
           p == Power(256, size - 1)
<1>1. p \in Nat \ {0} /\ Power(256, size) = 256 * p
  <2>1. size - 1 \in Nat /\ (size - 1) + 1 = size
    OBVIOUS
  <2> QED
    BY <2>1, PowerPositive, PowerEquation
<1>2. raw \in Seq(Byte) /\ Len(raw) = size /\ raw # <<>> /\ 1 \in 1..size
  BY BigEndianIsBytes DEF Bytes
<1>21. raw[1] \in Int
  <2> HIDE DEF raw
  <2>1. raw[1] \in Byte
    BY <1>2
  <2> QED
    BY <2>1 DEF Byte
<1>3. ASSUME NEW x \in Nat, x < 128 * p PROVE BigEndian(x, size)[1] < 128 /\ x < Power(256, size)
  <2>1. BigEndian(x, size)[1] = (x \div p) % 256
    BY BigEndianDigits DEF DigitsOf
  <2> DEFINE q == x \div p
  <2>2. q \in Int /\ p * q <= x /\ x < p * q + p
    <3> HIDE DEF p
    <3>1. x \in Int
      OBVIOUS
    <3> QED
      BY <1>1, <3>1, DivisionBounds
  <2> HIDE DEF q, p
  <2>3. 0 <= q /\ q <= 127
    <3>1. p * 0 < p * q + p /\ p * q < p * 127 + p
      BY <1>1, <1>3, <2>2
    <3> QED
      BY <1>1, <2>2, <3>1, MoreMultiples
  <2>4. q % 256 < 128
    BY <2>2, <2>3
  <2> QED
    BY <1>1, <1>3, <2>1, <2>4 DEF q
<1>4. CASE v >= 0
  <2>1. v \in Nat /\ v < 128 * p
    BY <1>4
  <2>2. raw[1] < 128 /\ v < Power(256, size)
    BY <1>3, <2>1
  <2>3. Unsigned(raw) = v
    BY <2>1, <2>2, UnsignedBack
  <2> QED
    BY <1>21, <2>2, <2>3 DEF Signed
<1>5. CASE v < 0
  <2> DEFINE u == -1 - v
             other == BigEndian(u, size)
  <2>1. u \in Nat /\ u < 128 * p /\ -1 - u = v
    BY <1>1, <1>5
  <2>2. other[1] < 128 /\ u < Power(256, size)
    BY <1>3, <2>1
  <2>3. Unsigned(other) = u
    BY <2>1, <2>2, UnsignedBack
  <2>4. \A i \in 1..size : other[i] \in Byte /\ raw[i] = 255 - other[i]
    BY <2>1, Complement
  <2>5. other \in Seq(Byte) /\ Len(other) = size
    BY <2>1, BigEndianIsBytes DEF Bytes
  <2> HIDE DEF raw, other, u, p
  <2>6. [i \in DOMAIN raw |-> 255 - raw[i]] = other
    <3>1. DOMAIN raw = 1..size /\ DOMAIN other = 1..size
      BY <1>2, <2>5
    <3>2. \A i \in 1..size : 255 - raw[i] = other[i]
      BY <2>4, SMTT(30) DEF Byte
    <3>3. other = [i \in 1..size |-> other[i]]
      BY <2>5
    <3> QED
      BY <3>1, <3>2, <3>3
  <2>7. raw[1] >= 128
    <3>1. other[1] \in Byte /\ raw[1] = 255 - other[1]
      BY <1>2, <2>4
    <3> QED
      BY <2>2, <3>1 DEF Byte
  <2>8. Signed(raw) = -1 - Unsigned(other)
    BY <1>2, <2>6, <2>7 DEF Signed
  <2> QED
    BY <2>1, <2>3, <2>8 DEF raw
<1> QED
  BY <1>4, <1>5

\* What stands in data stands there part by part.
LEMMA AtJoined ==
    ASSUME NEW data \in Bytes, NEW p \in Nat \ {0}, NEW x \in Bytes, NEW y \in Bytes, At(data, p, x \o y)
    PROVE  At(data, p, x) /\ At(data, p + Len(x), y) /\ p + Len(x) \in Nat \ {0}
<1> DEFINE z == x \o y
<1>1. /\ x \in Seq(Byte) /\ y \in Seq(Byte) /\ Len(x) \in Nat /\ Len(y) \in Nat /\ Len(data) \in Nat
      /\ z \in Seq(Byte) /\ Len(z) = Len(x) + Len(y)
      /\ \A k \in 1..Len(x) : z[k] = x[k]
      /\ \A k \in 1..Len(y) : z[Len(x) + k] = y[k]
  BY DEF Bytes
<1> HIDE DEF z
<1>2. p + Len(z) - 1 <= Len(data) /\ \A k \in 1..Len(z) : data[p + k - 1] = z[k]
  <2>1. At(data, p, z) /\ DOMAIN z = 1..Len(z)
    BY <1>1 DEF z
  <2> QED
    BY <2>1 DEF At
<1>3. \A k \in 1..Len(y) : data[(p + Len(x)) + k - 1] = y[k]
  <2> SUFFICES ASSUME NEW k \in 1..Len(y) PROVE data[(p + Len(x)) + k - 1] = y[k]
    OBVIOUS
  <2>1. Len(x) + k \in 1..Len(z) /\ (p + Len(x)) + k - 1 = p + (Len(x) + k) - 1
    BY <1>1
  <2> QED
    BY <1>1, <1>2, <2>1
<1>4. \A k \in 1..Len(x) : data[p + k - 1] = x[k]
  <2>1. \A k \in 1..Len(x) : k \in 1..Len(z)
    BY <1>1
  <2> QED
    BY <1>1, <1>2, <2>1
<1>5. DOMAIN x = 1..Len(x) /\ DOMAIN y = 1..Len(y)
  BY <1>1
<1>6. p + Len(x) - 1 <= Len(data) /\ (p + Len(x)) + Len(y) - 1 <= Len(data) /\ p + Len(x) \in Nat \ {0}
  BY <1>1, <1>2
<1> QED
  BY <1>3, <1>4, <1>5, <1>6 DEF At

\* The bytes of a TL field.
LEMMA TLParts ==
    ASSUME NEW type \in Types, NEW length \in Nat, NEW own \in {0, 1}
    PROVE  LET n == TLBytes(length, own) IN
           /\ n \in Nat \ {0}
           /\ \E nibbles \in Seq(0..15) :
                /\ Len(nibbles) = n /\ ValueOf(16, nibbles) = length + own * n
                /\ TL(type, length, own) = [i \in 1..n |->
                     nibbles[i] + (IF i = 1 THEN type ELSE 0) + (IF i < n THEN 128 ELSE 0)]
<1> DEFINE n == TLBytes(length, own)
           total == length + own * n
           nibbles == DigitsOf(16, total, n)
<1>1. n \in Nat \ {0} /\ total < Power(16, n)
  BY FewestTLBytes DEF Holds
<1>2. total \in Nat
  BY <1>1
<1>3. TL(type, length, own)
        = [i \in 1..n |-> nibbles[i] + (IF i = 1 THEN type ELSE 0) + (IF i < n THEN 128 ELSE 0)]
  BY DEF TL
<1> HIDE DEF n, total
<1>4. nibbles \in Seq(0..(16 - 1)) /\ Len(nibbles) = n
  <2>1. total \in Int /\ n \in Nat /\ 16 \in Nat \ {0}
    BY <1>1, <1>2
  <2> QED
    BY <2>1, DigitsType, Zenon
<1>5. ValueOf(16, nibbles) = total
  <2>1. total \in Nat /\ n \in Nat /\ 16 \in Nat \ {0, 1}
    BY <1>1, <1>2
  <2>2. ValueOf(16, nibbles) = total % Power(16, n)
    BY <2>1, DigitsAddUp
  <2>3. Power(16, n) \in Nat \ {0}
    BY <2>1, PowerPositive
  <2> QED
    BY <1>1, <2>1, <2>2, <2>3, SmallRemainder
<1> HIDE DEF nibbles
<1>6. nibbles \in Seq(0..15)
  BY <1>4
<1> QED
  BY <1>1, <1>3, <1>4, <1>5, <1>6 DEF n, total

\* A byte of a TL field can be taken apart.
LEMMA TLByte ==
    ASSUME NEW x \in 0..15, NEW t \in {0, 64, 80, 96, 112}, NEW high \in {0, 128}
    PROVE  /\ (x + t + high) % 16 = x
           /\ (x + t + high < 128 <=> high = 0)
           /\ (((x + t + high) % 128) \div 16) * 16 = t
<1>1. ASSUME NEW k \in {0, 4, 5, 6, 7}, t = 16 * k
      PROVE  (x + t) % 16 = x /\ (x + t + 128) % 16 = x /\ (x + t) % 128 = x + t
             /\ (x + t + 128) % 128 = x + t /\ (x + t) \div 16 = k /\ x + t < 128
  BY <1>1
<1>2. \E k \in {0, 4, 5, 6, 7} : t = 16 * k
  OBVIOUS
<1>3. x + t + 0 = x + t /\ x + t + 128 >= 128
  OBVIOUS
<1> QED
  BY <1>1, <1>2, <1>3

\* A TL field is read as it was written, and does not begin with a zero.
LEMMA TLDecoded ==
    ASSUME NEW data \in Bytes, NEW pos \in Nat \ {0}, NEW type \in Types, NEW length \in Nat, NEW own \in {0, 1},
           type # TypeOctet \/ own = 1, At(data, pos, TL(type, length, own))
    PROVE  LET n == Len(TL(type, length, own)) IN
           /\ n \in Nat \ {0} /\ pos + n - 1 <= Len(data) /\ data[pos] # 0
           /\ DecodeTL(data, pos) = [ok |-> TRUE, type |-> type, cursor |-> pos + n,
                                      length |-> IF own = 1 THEN length + n ELSE length]
<1> DEFINE n == TLBytes(length, own)
           tl == TL(type, length, own)
<1>1. n \in Nat \ {0}
  BY TLParts
<1>2. PICK nibbles \in Seq(0..15) :
        /\ Len(nibbles) = n /\ ValueOf(16, nibbles) = length + own * n
        /\ tl = [i \in 1..n |-> nibbles[i] + (IF i = 1 THEN type ELSE 0) + (IF i < n THEN 128 ELSE 0)]
  BY TLParts, ZenonT(60)
<1>3. type \in {0, 64, 80, 96, 112} /\ (type # 0 \/ own = 1)
  BY DEF Types, TypeOctet, TypeBool, TypeInt, TypeUint, TypeList
<1>4. Len(data) \in Nat /\ data \in Seq(0..255)
  BY DEF Bytes, Byte
<1>5. Len(tl) = n /\ pos + n - 1 <= Len(data) /\ \A i \in 1..n : data[pos + i - 1] = tl[i]
  <2>1. Len(tl) = n /\ DOMAIN tl = 1..n
    BY <1>1, <1>2
  <2> HIDE DEF tl, n
  <2> QED
    BY <2>1 DEF At, tl
<1> HIDE DEF n, tl
<1>21. nibbles \in Seq(0..15) /\ Len(nibbles) = n
  BY <1>2
<1>6. \A i \in 1..n : nibbles[i] \in 0..15
  BY <1>21, SMTT(30)
<1>7. ASSUME NEW i \in 1..n
      PROVE  data[pos + i - 1] % 16 = nibbles[i] /\ (data[pos + i - 1] < 128 <=> i = n)
  <2>1. data[pos + i - 1] = nibbles[i] + (IF i = 1 THEN type ELSE 0) + (IF i < n THEN 128 ELSE 0)
    BY <1>2, <1>5
  <2>2. (i < n \/ i = n) /\ i \in Int /\ n \in Int /\ nibbles[i] \in 0..15
    BY <1>1, <1>6
  <2> DEFINE t == IF i = 1 THEN type ELSE 0
             high == IF i < n THEN 128 ELSE 0
  <2>3. t \in {0, 64, 80, 96, 112} /\ high \in {0, 128} /\ (high = 0 <=> i = n)
    BY <1>3, <2>2
  <2>4. data[pos + i - 1] = nibbles[i] + t + high
    BY <2>1
  <2> HIDE DEF t, high
  <2>5. data[pos + i - 1] % 16 = nibbles[i] /\ (data[pos + i - 1] < 128 <=> high = 0)
    <3>1. nibbles[i] \in 0..15
      BY <2>2
    <3>2. (nibbles[i] + t + high) % 16 = nibbles[i] /\ (nibbles[i] + t + high < 128 <=> high = 0)
      <4> DEFINE x == nibbles[i]
      <4>1. x \in 0..15 /\ t \in {0, 64, 80, 96, 112} /\ high \in {0, 128}
        BY <2>3, <3>1
      <4> HIDE DEF x
      <4>2. (x + t + high) % 16 = x /\ (x + t + high < 128 <=> high = 0)
        BY <4>1, TLByte
      <4> QED
        BY <4>2 DEF x
    <3> QED
      BY <2>4, <3>2
  <2> QED
    BY <2>3, <2>5
<1>8. data[pos] # 0 /\ ((data[pos] % 128) \div 16) * 16 = type
  <2>1. data[pos] = nibbles[1] + type + (IF 1 < n THEN 128 ELSE 0) /\ nibbles[1] \in 0..15
    <3>1. 1 \in 1..n /\ pos + 1 - 1 = pos
      BY <1>1
    <3> QED
      BY <1>2, <1>5, <1>6, <3>1
  <2>2. n = 1 => nibbles[1] = length + own
    <3> SUFFICES ASSUME n = 1 PROVE nibbles[1] = length + own
      OBVIOUS
    <3>1. nibbles \in Seq(Nat) /\ Len(nibbles) = 1 /\ nibbles[1] \in Nat
      BY <1>21, <2>1, SMTT(30)
    <3>2. PICK v : Reads(v, 16, nibbles)
      BY <3>1, ValueEquation
    <3>3. v[0] = 0 /\ v[1] = 16 * v[0] + nibbles[1] /\ ValueOf(16, nibbles) = v[1]
      <4>1. 1 \in 1..Len(nibbles) /\ 1 - 1 = 0
        BY <3>1
      <4> QED
        BY <3>1, <3>2, <4>1 DEF Reads
    <3> QED
      BY <1>2, <3>1, <3>3
  <2> DEFINE high == IF 1 < n THEN 128 ELSE 0
             x == nibbles[1]
  <2>3. /\ high \in {0, 128} /\ (high = 0 => n = 1) /\ data[pos] = x + type + high
        /\ x \in 0..15 /\ (n = 1 => x = length + own)
    BY <1>1, <2>1, <2>2
  <2> HIDE DEF high, x
  <2>4. ((data[pos] % 128) \div 16) * 16 = type
    <3>0. x \in 0..15 /\ type \in {0, 64, 80, 96, 112} /\ high \in {0, 128}
      BY <1>3, <2>3
    <3>1. (((x + type + high) % 128) \div 16) * 16 = type
      BY <3>0, TLByte, SMTT(30)
    <3> QED
      BY <2>3, <3>1
  <2>5. data[pos] # 0
    <3> SUFFICES ASSUME data[pos] = 0 PROVE FALSE
      OBVIOUS
    <3>1. high = 0 /\ x = 0 /\ type = 0
      BY <1>3, <2>3
    <3>2. length + own = 0 /\ own = 1
      BY <1>3, <2>3, <3>1
    <3> QED
      BY <3>2
  <2> QED
    BY <2>4, <2>5
<1> DEFINE ends == {i \in pos..Len(data) : data[i] < 128}
           last == pos + n - 1
           field == SubSeq(data, pos, last)
<1>9. Min(ends) = last
  <2>1. last \in ends
    <3>1. n \in 1..n /\ last \in pos..Len(data)
      BY <1>1, <1>4, <1>5
    <3> QED
      BY <1>7, <3>1
  <2>2. \A i \in ends : last <= i
    <3> SUFFICES ASSUME NEW i \in ends, i < last PROVE FALSE
      BY <1>1, <1>4
    <3>0. i \in pos..Len(data) /\ data[i] < 128
      OBVIOUS
    <3>1. i - pos + 1 \in 1..n /\ pos + (i - pos + 1) - 1 = i /\ i - pos + 1 # n
      BY <1>1, <1>4, <3>0
    <3> QED
      BY <1>7, <3>0, <3>1
  <2>3. ends \in SUBSET Nat /\ ends # {}
    BY <1>4, <2>1
  <2> HIDE DEF ends, last
  <2>4. Min(ends) \in ends /\ \A i \in ends : Min(ends) <= i
    BY <2>3, SmallestOf
  <2>5. Min(ends) \in Int /\ last \in Int
    <3>1. Min(ends) \in Nat /\ last \in Nat
      BY <2>1, <2>3, <2>4
    <3> QED
      BY <3>1
  <2>6. Min(ends) <= last /\ last <= Min(ends)
    BY <2>1, <2>2, <2>4
  <2> QED
    BY <2>5, <2>6
<1>10. ends # {}
  <2>1. n \in 1..n /\ last \in pos..Len(data)
    BY <1>1, <1>4, <1>5
  <2>2. last \in ends
    BY <1>7, <2>1
  <2> QED
    BY <2>2
<1>11. [i \in DOMAIN field |-> field[i] % 16] = nibbles
  <2>1. DOMAIN field = 1..n /\ \A i \in 1..n : field[i] = data[pos + i - 1]
    BY <1>1, <1>4, <1>5
  <2>2. nibbles = [i \in 1..n |-> nibbles[i]]
    BY <1>2
  <2> HIDE DEF field
  <2> QED
    BY <1>7, <2>1, <2>2
<1>12. DecodeTL(data, pos)
         = [ok |-> TRUE, type |-> ((data[pos] % 128) \div 16) * 16,
            length |-> ValueOf(16, [i \in DOMAIN field |-> field[i] % 16]), cursor |-> last + 1]
  <2> HIDE DEF last
  <2> QED
    BY <1>9, <1>10, Zenon DEF DecodeTL, ends
<1>13. last + 1 = pos + n
  BY <1>1
<1>14. ValueOf(16, nibbles) = (IF own = 1 THEN length + n ELSE length) /\ Len(tl) = n
  <2>1. own = 0 \/ own = 1
    OBVIOUS
  <2>2. own * n = IF own = 1 THEN n ELSE 0
    BY <1>1, <2>1
  <2>3. ValueOf(16, nibbles) = length + own * n /\ Len(tl) = n
    BY <1>2, <1>5
  <2> QED
    BY <2>2, <2>3
<1> HIDE DEF field, last, ends
<1> QED
  BY <1>1, <1>5, <1>8, <1>11, <1>12, <1>13, <1>14, ZenonT(60) DEF tl

-----------------------------------------------------------------------------
(* The decoder's recursions.                                               *)

\* Decoding from p on fails or goes on, to q >= p.
Forward(d, p) == d = Failed \/ \E v, q : q \in Nat /\ q >= p /\ d = Decoded(v, q)

\* Whatever can be read as a TL field ends behind where it begins.
LEMMA TLForward ==
    ASSUME NEW data \in Bytes, NEW pos \in 1..Len(data), DecodeTL(data, pos).ok
    PROVE  /\ DecodeTL(data, pos).cursor \in Nat /\ DecodeTL(data, pos).cursor > pos
           /\ DecodeTL(data, pos).length \in Nat
<1> DEFINE ends == {i \in pos..Len(data) : data[i] < 128}
           last == Min(ends)
           field == SubSeq(data, pos, last)
           nibbles == [i \in DOMAIN field |-> field[i] % 16]
           value == ValueOf(16, nibbles)
<1>1. Len(data) \in Nat /\ data \in Seq(Byte)
  BY DEF Bytes
<1>2. ends # {}
  BY DEF DecodeTL, Failed
<1>3. last \in pos..Len(data)
  <2>1. ends \in SUBSET Nat
    BY <1>1
  <2>2. ends \in SUBSET (pos..Len(data))
    OBVIOUS
  <2> HIDE DEF ends
  <2>3. last \in ends
    BY <1>2, <2>1, SmallestOf
  <2> QED
    BY <2>2, <2>3
<1>4. DecodeTL(data, pos)
        = [ok |-> TRUE, type |-> ((data[pos] % 128) \div 16) * 16, length |-> value, cursor |-> last + 1]
  BY <1>2, Zenon DEF DecodeTL
<1> HIDE DEF last
<1>5. value \in Nat
  <2>0. pos \in 1..Len(data) /\ last \in 1..Len(data) /\ last >= pos
    BY <1>1, <1>3
  <2>1. field \in Seq(Byte) /\ Len(field) \in Nat
    BY <1>1, <2>0
  <2>2. DOMAIN field = 1..Len(field)
    BY <2>1
  <2> HIDE DEF field
  <2>3. \A i \in 1..Len(field) : field[i] % 16 \in Nat
    <3> SUFFICES ASSUME NEW i \in 1..Len(field) PROVE field[i] % 16 \in Nat
      OBVIOUS
    <3>1. field[i] \in Byte
      BY <2>1
    <3>2. \A x \in Byte : x % 16 \in Nat
      BY DEF Byte
    <3> QED
      BY <3>1, <3>2
  <2>4. nibbles \in Seq(Nat)
    BY <2>1, <2>2, <2>3
  <2> HIDE DEF nibbles
  <2>5. PICK v : Reads(v, 16, nibbles)
    BY <2>4, ValueEquation
  <2>6. Len(nibbles) \in 0..Len(nibbles)
    BY <2>4
  <2> QED
    BY <2>5, <2>6 DEF Reads
<1> HIDE DEF value
<1> QED
  BY <1>1, <1>3, <1>4, <1>5

\* What is decoded at pos lies behind it, if that is so of the lists behind it ...
LEMMA ValueForward ==
    ASSUME NEW data \in Bytes, NEW pos \in Nat \ {0}, NEW items,
           \A p \in Nat : p > pos => \A n \in Nat : Forward(items[p][n], p)
    PROVE  Forward(DecodeValue(data, pos, DecodeTL(data, pos), items), pos + 1)
<1> DEFINE tl == DecodeTL(data, pos)
           next == pos + tl.length
<1>1. CASE pos > Len(data)
  BY <1>1 DEF DecodeValue, Forward
<1>2. CASE ~(pos > Len(data)) /\ data[pos] = 0
  <2>1. DecodeValue(data, pos, tl, items) = Decoded(Null, pos + 1)
    BY <1>2 DEF DecodeValue
  <2> QED
    BY <2>1 DEF Forward
<1>3. CASE ~(pos > Len(data)) /\ data[pos] # 0 /\ ~tl.ok
  BY <1>3 DEF DecodeValue, Forward
<1>4. CASE ~(pos > Len(data)) /\ data[pos] # 0 /\ tl.ok
  <2>0. pos \in 1..Len(data)
    BY <1>4 DEF Bytes
  <2>1. tl.cursor \in Nat /\ tl.cursor > pos /\ tl.length \in Nat
    BY <1>4, <2>0, TLForward
  <2> HIDE DEF tl
  <2>2. CASE tl.type = TypeList
    <3>1. DecodeValue(data, pos, tl, items) = items[tl.cursor][tl.length]
      BY <1>4, <2>2 DEF DecodeValue
    <3>2. Forward(items[tl.cursor][tl.length], tl.cursor)
      BY <2>1
    <3>3. Forward(items[tl.cursor][tl.length], pos + 1)
      BY <2>1, <3>2 DEF Forward
    <3> QED
      BY <3>1, <3>3 DEF tl
  <2>3. CASE tl.type # TypeList
    <3>1. DecodeValue(data, pos, tl, items) = DecodePrimitive(data, pos, tl)
      BY <1>4, <2>3 DEF DecodeValue
    <3>2. next < tl.cursor => DecodePrimitive(data, pos, tl) = Failed
      BY DEF DecodePrimitive
    <3>3. DecodePrimitive(data, pos, tl) = Failed \/ \E v : DecodePrimitive(data, pos, tl) = Decoded(v, next)
      BY Zenon DEF DecodePrimitive
    <3>4. next \in Nat /\ (next >= tl.cursor => next >= pos + 1)
      BY <2>1
    <3>5. Forward(DecodePrimitive(data, pos, tl), pos + 1)
      <4>1. CASE DecodePrimitive(data, pos, tl) = Failed
        BY <4>1 DEF Forward
      <4>2. CASE DecodePrimitive(data, pos, tl) # Failed
        <5>1. next >= pos + 1
          BY <2>1, <3>2, <3>4, <4>2
        <5> HIDE DEF next
        <5> QED
          BY <3>3, <3>4, <4>2, <5>1 DEF Forward
      <4> QED
        BY <4>1, <4>2
    <3> QED
      BY <3>1, <3>5 DEF tl
  <2> QED
    BY <2>2, <2>3
<1> QED
  BY <1>1, <1>2, <1>3, <1>4

\* ... and depends on nothing else.
LEMMA ValueSame ==
    ASSUME NEW data \in Bytes, NEW pos \in Nat \ {0}, NEW items, NEW other,
           \A p \in Nat : p > pos => items[p] = other[p]
    PROVE  DecodeValue(data, pos, DecodeTL(data, pos), items) = DecodeValue(data, pos, DecodeTL(data, pos), other)
<1> DEFINE tl == DecodeTL(data, pos)
<1>1. CASE pos > Len(data) \/ data[pos] = 0 \/ ~tl.ok
  BY <1>1 DEF DecodeValue
<1>2. CASE ~(pos > Len(data)) /\ data[pos] # 0 /\ tl.ok
  <2>0. pos \in 1..Len(data)
    BY <1>2 DEF Bytes
  <2>1. tl.cursor \in Nat /\ tl.cursor > pos
    BY <1>2, <2>0, TLForward
  <2> HIDE DEF tl
  <2>2. items[tl.cursor] = other[tl.cursor]
    BY <2>1
  <2> QED
    BY <2>2 DEF DecodeValue, tl
<1> QED
  BY <1>1, <1>2

\* The lists that begin at pos, by their number of values.
ItemsAt(data, pos, items) ==
    [n \in Nat |->
       IF n = 0 THEN Decoded(<<"list", <<>> >>, pos)
       ELSE Joined(DecodeValue(data, pos, DecodeTL(data, pos), items),
                   items[DecodeValue(data, pos, DecodeTL(data, pos), items).pos][n - 1])]

LEMMA ItemsSame ==
    ASSUME NEW data \in Bytes, NEW pos \in Nat \ {0}, NEW items, NEW other,
           \A p \in Nat : p > pos => items[p] = other[p] /\ \A n \in Nat : Forward(items[p][n], p)
    PROVE  /\ ItemsAt(data, pos, items) = ItemsAt(data, pos, other)
           /\ \A n \in Nat : Forward(ItemsAt(data, pos, items)[n], pos)
<1> DEFINE first == DecodeValue(data, pos, DecodeTL(data, pos), items)
<1>1. Forward(first, pos + 1)
  BY ValueForward
<1>2. first = DecodeValue(data, pos, DecodeTL(data, pos), other)
  BY ValueSame
<1>3. /\ \A n \in Nat : ItemsAt(data, pos, items)[n] = IF n = 0 THEN Decoded(<<"list", <<>> >>, pos)
                                                      ELSE Joined(first, items[first.pos][n - 1])
      /\ ItemsAt(data, pos, items) = [n \in Nat |-> IF n = 0 THEN Decoded(<<"list", <<>> >>, pos)
                                                    ELSE Joined(first, items[first.pos][n - 1])]
  BY DEF ItemsAt
<1>4. ItemsAt(data, pos, other) = [n \in Nat |-> IF n = 0 THEN Decoded(<<"list", <<>> >>, pos)
                                                 ELSE Joined(first, other[first.pos][n - 1])]
  BY <1>2 DEF ItemsAt
<1> HIDE DEF first
<1>5. ASSUME NEW n \in Nat, n # 0
      PROVE  /\ Joined(first, items[first.pos][n - 1]) = Joined(first, other[first.pos][n - 1])
             /\ Forward(Joined(first, items[first.pos][n - 1]), pos)
  <2>1. CASE first = Failed
    <3>1. ~first.ok
      BY <2>1 DEF Failed
    <3> QED
      BY <3>1 DEF Joined, Forward
  <2>2. CASE first # Failed
    <3>1. PICK v, q : q \in Nat /\ q >= pos + 1 /\ first = Decoded(v, q)
      BY <1>1, <2>2 DEF Forward
    <3>2. first.pos = q
      BY <3>1 DEF Decoded
    <3>3. items[q] = other[q] /\ Forward(items[q][n - 1], q)
      <4>1. q > pos /\ n - 1 \in Nat
        BY <1>5, <3>1
      <4> QED
        BY <3>1, <4>1
    <3> DEFINE rest == items[q][n - 1]
    <3>4. Forward(Joined(first, rest), pos)
      <4> HIDE DEF rest
      <4>1. CASE rest = Failed
        <5>1. ~rest.ok
          BY <4>1 DEF Failed
        <5> QED
          BY <5>1 DEF Joined, Forward
      <4>2. CASE rest # Failed
        <5>1. PICK w, r : r \in Nat /\ r >= q /\ rest = Decoded(w, r)
          BY <3>3, <4>2 DEF Forward, rest
        <5>2. rest.pos = r /\ rest.ok /\ first.ok
          BY <3>1, <5>1 DEF Decoded
        <5>3. Joined(first, rest) = Decoded(<<"list", <<first.value>> \o rest.value[2]>>, r)
          BY <5>2 DEF Joined
        <5>4. r >= pos
          BY <3>1, <5>1
        <5> QED
          BY <5>1, <5>3, <5>4 DEF Forward
      <4> QED
        BY <4>1, <4>2
    <3> QED
      BY <3>2, <3>3, <3>4
  <2> QED
    BY <2>1, <2>2
<1>6. Forward(Decoded(<<"list", <<>> >>, pos), pos)
  BY DEF Forward
<1> QED
  BY <1>3, <1>4, <1>5, <1>6

LEMMA ItemsEquation ==
    ASSUME NEW data \in Bytes, NEW pos \in Nat \ {0}
    PROVE  DecodeItems(data)[pos] = ItemsAt(data, pos, DecodeItems(data))
<1> DEFINE items[p \in Nat \ {0}] == [n \in Nat |->
              LET first == DecodeValue(data, p, DecodeTL(data, p), items)
              IN IF n = 0 THEN Decoded(<<"list", <<>> >>, p)
                 ELSE Joined(first, items[first.pos][n - 1])]
           Good(g, m) == \A p \in Nat \ {0} : p >= m => g[p] = ItemsAt(data, p, g) /\ \A n \in Nat : Forward(g[p][n], p)
           T == {k \in Nat : k <= Len(data) => \E g : Good(g, Len(data) + 1 - k)}
<1>1. Len(data) \in Nat
  BY DEF Bytes
<1>2. \A k \in Nat : k \in T
  <2>1. 0 \in T
    <3> DEFINE g == [p \in Nat \ {0} |-> [n \in Nat |-> IF n = 0 THEN Decoded(<<"list", <<>> >>, p) ELSE Failed]]
    <3>1. ASSUME NEW p \in Nat \ {0}, p >= Len(data) + 1
          PROVE  g[p] = ItemsAt(data, p, g) /\ \A n \in Nat : Forward(g[p][n], p)
      <4>1. DecodeValue(data, p, DecodeTL(data, p), g) = Failed
        BY <1>1, <3>1 DEF DecodeValue
      <4>2. \A rest : Joined(Failed, rest) = Failed
        BY DEF Joined, Failed
      <4>3. ItemsAt(data, p, g) = [n \in Nat |-> IF n = 0 THEN Decoded(<<"list", <<>> >>, p) ELSE Failed]
        <5> HIDE DEF g
        <5> QED
          BY <4>1, <4>2 DEF ItemsAt
      <4>4. g[p] = [n \in Nat |-> IF n = 0 THEN Decoded(<<"list", <<>> >>, p) ELSE Failed]
        OBVIOUS
      <4>5. \A n \in Nat : Forward(g[p][n], p)
        BY <4>4 DEF Forward
      <4> QED
        BY <4>3, <4>4, <4>5
    <3> HIDE DEF g
    <3>2. Good(g, Len(data) + 1 - 0)
      BY <1>1, <3>1
    <3> QED
      BY <3>2
  <2>2. ASSUME NEW k \in Nat, k \in T PROVE k + 1 \in T
    <3> SUFFICES ASSUME k + 1 <= Len(data) PROVE \E g : Good(g, Len(data) + 1 - (k + 1))
      OBVIOUS
    <3> DEFINE m == Len(data) + 1 - (k + 1)
    <3>1. m \in Nat \ {0} /\ m + 1 = Len(data) + 1 - k /\ k <= Len(data)
      BY <1>1
    <3>2. PICK g : Good(g, m + 1)
      BY <2>2, <3>1
    <3> HIDE DEF m
    <3> DEFINE h == [p \in Nat \ {0} |-> IF p = m THEN ItemsAt(data, m, g) ELSE g[p]]
    <3>3. \A p \in Nat : p > m => g[p] = h[p] /\ \A n \in Nat : Forward(g[p][n], p)
      BY <3>1, <3>2
    <3>4. h[m] = ItemsAt(data, m, g)
      BY <3>1
    <3> HIDE DEF h
    <3>5. ASSUME NEW p \in Nat \ {0}, p >= m PROVE h[p] = ItemsAt(data, p, h) /\ \A n \in Nat : Forward(h[p][n], p)
      <4>1. \A q \in Nat : q > p => g[q] = h[q] /\ \A n \in Nat : Forward(g[q][n], q)
        BY <3>1, <3>3, <3>5
      <4>2. ItemsAt(data, p, g) = ItemsAt(data, p, h) /\ \A n \in Nat : Forward(ItemsAt(data, p, g)[n], p)
        BY <4>1, ItemsSame
      <4>3. h[p] = ItemsAt(data, p, g)
        <5>1. CASE p = m
          BY <3>4, <5>1
        <5>2. CASE p # m
          <6>1. p > m /\ p >= m + 1
            BY <3>1, <3>5, <5>2
          <6> QED
            BY <3>2, <3>3, <6>1
        <5> QED
          BY <5>1, <5>2
      <4> QED
        BY <4>2, <4>3
    <3>6. Good(h, m)
      BY <3>5
    <3> QED
      BY <3>6 DEF m
  <2> HIDE DEF T
  <2> QED
    BY <2>1, <2>2, Induction
<1>3. PICK g : Good(g, 1)
  <2>1. Len(data) \in T
    BY <1>1, <1>2
  <2>2. Len(data) + 1 - Len(data) = 1
    BY <1>1
  <2> QED
    BY <1>1, <2>1, <2>2
<1> DEFINE f == [p \in Nat \ {0} |-> g[p]]
<1>4. ASSUME NEW p \in Nat \ {0} PROVE f[p] = ItemsAt(data, p, f)
  <2>1. \A q \in Nat : q > p => g[q] = f[q] /\ \A n \in Nat : Forward(g[q][n], q)
    BY <1>3
  <2>2. f[p] = g[p] /\ g[p] = ItemsAt(data, p, g)
    BY <1>3
  <2> HIDE DEF f
  <2>3. ItemsAt(data, p, g) = ItemsAt(data, p, f)
    BY <2>1, ItemsSame
  <2> QED
    BY <2>2, <2>3
<1>5. f = [p \in Nat \ {0} |-> ItemsAt(data, p, f)]
  <2>1. f = [p \in Nat \ {0} |-> f[p]]
    OBVIOUS
  <2> HIDE DEF f
  <2> QED
    BY <1>4, <2>1
<1> HIDE DEF f, Good, T
<1>6. items = [p \in Nat \ {0} |-> ItemsAt(data, p, items)]
  BY <1>5, ZenonT(60) DEF items, ItemsAt
<1>7. DecodeItems(data) = items
  BY Zenon DEF DecodeItems, items
<1> HIDE DEF items
<1> QED
  BY <1>6, <1>7

-----------------------------------------------------------------------------
(* What is encoded is decoded to what it was.                              *)

ValueAt(data, p) == DecodeValue(data, p, DecodeTL(data, p), DecodeItems(data))

\* Wherever enc stands, value is decoded, and decoding goes on behind it.
Yields(enc, value) ==
    /\ enc \in Bytes /\ Len(enc) # 0
    /\ \A data \in Bytes : \A p \in Nat \ {0} : At(data, p, enc) => ValueAt(data, p) = Decoded(value, p + Len(enc))

LEMMA YieldsNull == Yields(<<0>>, Null)
<1> DEFINE zero == <<0>>
<1>1. zero \in Bytes /\ Len(zero) = 1 /\ zero[1] = 0 /\ DOMAIN zero = 1..1
  BY DEF Bytes, Byte
<1> HIDE DEF zero
<1>2. ASSUME NEW data \in Bytes, NEW p \in Nat \ {0}, At(data, p, zero)
      PROVE  ValueAt(data, p) = Decoded(Null, p + Len(zero))
  <2>1. p + 1 - 1 <= Len(data) /\ \A k \in 1..1 : data[p + k - 1] = zero[k]
    BY <1>1, <1>2 DEF At
  <2>2. p + 1 - 1 = p /\ 1 \in 1..1 /\ Len(data) \in Nat
    BY DEF Bytes
  <2>3. data[p] = 0 /\ ~(p > Len(data))
    BY <1>1, <2>1, <2>2
  <2> QED
    BY <1>1, <2>3 DEF ValueAt, DecodeValue
<1> QED
  BY <1>1, <1>2 DEF Yields, zero

LEMMA YieldsPrimitive ==
    ASSUME NEW type \in {TypeOctet, TypeInt, TypeUint, TypeBool}, NEW raw \in Bytes
    PROVE  Yields(TL(type, Len(raw), 1) \o raw, PrimitiveOf(type, raw))
<1> DEFINE tl == TL(type, Len(raw), 1)
           n == Len(tl)
           enc == tl \o raw
<1>1. type \in Types /\ type # TypeList /\ Len(raw) \in Nat
  BY DEF Types, TypeOctet, TypeInt, TypeUint, TypeBool, TypeList, Bytes
<1>2. tl \in Bytes
  BY <1>1, TLIsBytes
<1>3. n \in Nat \ {0}
  <2>1. TLBytes(Len(raw), 1) \in Nat \ {0}
    BY <1>1, FewestTLBytes
  <2>2. Len(tl) = TLBytes(Len(raw), 1)
    BY <2>1 DEF TL
  <2> QED
    BY <2>1, <2>2
<1>4. enc \in Bytes /\ Len(enc) = n + Len(raw)
  <2> HIDE DEF tl
  <2> QED
    BY <1>2 DEF Bytes
<1>5. ASSUME NEW data \in Bytes, NEW p \in Nat \ {0}, At(data, p, enc)
      PROVE  ValueAt(data, p) = Decoded(PrimitiveOf(type, raw), p + Len(enc))
  <2>1. At(data, p, tl) /\ At(data, p + n, raw)
    <3> HIDE DEF tl
    <3> QED
      BY <1>2, <1>5, AtJoined
  <2>2. /\ p + n - 1 <= Len(data) /\ data[p] # 0
        /\ DecodeTL(data, p) = [ok |-> TRUE, type |-> type, cursor |-> p + n, length |-> Len(raw) + n]
    BY <1>1, <2>1, TLDecoded
  <2> HIDE DEF tl, n, enc
  <2>3. /\ Len(data) \in Nat /\ data \in Seq(Byte) /\ raw \in Seq(Byte) /\ DOMAIN raw = 1..Len(raw)
        /\ (p + n) + Len(raw) - 1 <= Len(data)
        /\ \A k \in 1..Len(raw) : data[(p + n) + k - 1] = raw[k]
    BY <2>1 DEF At, Bytes
  <2> DEFINE field == DecodeTL(data, p)
             next == p + field.length
             part == SubSeq(data, field.cursor, next - 1)
  <2>4. /\ field.ok /\ field.type = type /\ field.cursor = p + n
        /\ field.length = Len(raw) + n /\ next = p + Len(enc)
    BY <1>1, <1>3, <1>4, <2>2
  <2>5. ~(p > Len(data)) /\ ~(next < field.cursor) /\ ~(next - 1 > Len(data))
    BY <1>1, <1>3, <1>4, <2>2, <2>3, <2>4
  <2>6. part = raw
    <3>1. p + n \in 1..(Len(data) + 1) /\ next - 1 \in Nat /\ next - 1 <= Len(data) /\ next - 1 = (p + n) + Len(raw) - 1
      BY <1>1, <1>3, <1>4, <2>2, <2>3, <2>4
    <3>2. part = SubSeq(data, p + n, (p + n) + Len(raw) - 1)
      BY <2>4, <3>1
    <3> HIDE DEF part, next, field
    <3> DEFINE c == p + n
    <3>3. c \in 1..(Len(data) + 1) /\ c + Len(raw) - 1 <= Len(data) /\ c \in Nat
      BY <2>3, <3>1
    <3> HIDE DEF c
    <3>4. /\ SubSeq(data, c, c + Len(raw) - 1) \in Seq(Byte)
          /\ Len(SubSeq(data, c, c + Len(raw) - 1)) = Len(raw)
          /\ \A k \in 1..Len(raw) : SubSeq(data, c, c + Len(raw) - 1)[k] = data[c + k - 1]
      BY <1>1, <2>3, <3>3, SMTT(30)
    <3>5. SubSeq(data, c, c + Len(raw) - 1) = raw
      <4> DEFINE u == SubSeq(data, c, c + Len(raw) - 1)
      <4>1. u \in Seq(Byte) /\ Len(u) = Len(raw) /\ \A k \in 1..Len(raw) : u[k] = raw[k]
        BY <2>3, <3>4 DEF c
      <4> HIDE DEF u
      <4>2. u = raw
        BY <2>3, <4>1, SeqEqual
      <4> QED
        BY <4>2 DEF u
    <3> QED
      BY <3>2, <3>5 DEF c
  <2>7. DecodePrimitive(data, p, field) = Decoded(PrimitiveOf(type, raw), p + Len(enc))
    <3> HIDE DEF part, field
    <3>1. DecodePrimitive(data, p, field) = Decoded(PrimitiveOf(field.type, part), next)
      <4>1. field.type \in {TypeOctet, TypeInt, TypeUint, TypeBool}
        BY <2>4
      <4> QED
        BY <2>5, <4>1 DEF DecodePrimitive, part
    <3> QED
      BY <2>4, <2>6, <3>1
  <2>8. ValueAt(data, p) = DecodePrimitive(data, p, field)
    BY <1>1, <2>2, <2>4, <2>5 DEF ValueAt, DecodeValue
  <2> QED
    BY <2>7, <2>8
<1>6. Len(enc) # 0
  BY <1>1, <1>3, <1>4
<1> HIDE DEF enc
<1> QED
  BY <1>4, <1>5, <1>6 DEF Yields, enc

LEMMA PrimitiveIs ==
    ASSUME NEW raw
    PROVE  /\ PrimitiveOf(TypeOctet, raw) = <<"octet", raw>>
           /\ PrimitiveOf(TypeInt, raw) = <<"int", Signed(raw)>>
           /\ PrimitiveOf(TypeUint, raw) = <<"uint", Unsigned(raw)>>
           /\ PrimitiveOf(TypeBool, raw) = <<"bool", \E i \in DOMAIN raw : raw[i] # 0>>
<1>1. /\ TypeInt # TypeOctet /\ TypeUint # TypeOctet /\ TypeUint # TypeInt
      /\ TypeBool # TypeOctet /\ TypeBool # TypeInt /\ TypeBool # TypeUint
  BY DEF TypeOctet, TypeInt, TypeUint, TypeBool
<1> QED
  BY <1>1, Zenon DEF PrimitiveOf

\* An unsigned integer that fits its bytes; a number that is not negative fits UintSize of them.
LEMMA YieldsUint ==
    ASSUME NEW v \in Nat, NEW size \in Nat, v < Power(256, size)
    PROVE  Yields(EncodeUint(v, size), <<"uint", v>>)
<1> DEFINE raw == BigEndian(v, size)
<1>1. raw \in Bytes /\ Len(raw) = size
  BY BigEndianIsBytes
<1>2. Unsigned(raw) = v
  BY UnsignedBack
<1>3. EncodeUint(v, size) = TL(TypeUint, Len(raw), 1) \o raw
  BY <1>1 DEF EncodeUint
<1> HIDE DEF raw
<1>4. Yields(TL(TypeUint, Len(raw), 1) \o raw, PrimitiveOf(TypeUint, raw))
  BY <1>1, YieldsPrimitive
<1>5. PrimitiveOf(TypeUint, raw) = <<"uint", v>>
  BY <1>2, PrimitiveIs, Zenon
<1> QED
  BY <1>3, <1>4, <1>5

LEMMA YieldsInt ==
    ASSUME NEW v \in Int
    PROVE  Yields(EncodeInt(v), <<"int", v>>)
<1> DEFINE abs == IF v < 0 THEN -v ELSE v
           size == (BitLength(abs) + 8) \div 8
           raw == BigEndian(v, size)
<1>1. abs \in Nat
  OBVIOUS
<1>2. size \in Nat \ {0} /\ abs < 128 * Power(256, size - 1)
  <2> HIDE DEF abs
  <2> QED
    BY <1>1, SizeOfInt
<1>3. EncodeInt(v) = TL(TypeInt, size, 1) \o raw
  BY DEF EncodeInt
<1> HIDE DEF size
<1>4. raw \in Bytes /\ Len(raw) = size
  BY <1>2, BigEndianIsBytes
<1>5. Signed(raw) = v
  BY <1>2, SignedBack
<1> HIDE DEF raw, abs
<1>6. Yields(TL(TypeInt, Len(raw), 1) \o raw, PrimitiveOf(TypeInt, raw))
  BY <1>4, YieldsPrimitive
<1>7. PrimitiveOf(TypeInt, raw) = <<"int", v>>
  BY <1>5, PrimitiveIs, Zenon
<1> QED
  BY <1>3, <1>4, <1>6, <1>7

LEMMA YieldsOctet ==
    ASSUME NEW data \in Bytes
    PROVE  Yields(EncodeOctet(data), <<"octet", data>>)
<1>1. Yields(TL(TypeOctet, Len(data), 1) \o data, PrimitiveOf(TypeOctet, data))
  BY YieldsPrimitive
<1>2. PrimitiveOf(TypeOctet, data) = <<"octet", data>>
  BY PrimitiveIs, Zenon
<1> QED
  BY <1>1, <1>2 DEF EncodeOctet

LEMMA YieldsBool ==
    ASSUME NEW b \in BOOLEAN
    PROVE  Yields(EncodeBool(b), <<"bool", b>>)
<1> DEFINE raw == <<IF b THEN 1 ELSE 0>>
           flag == \E i \in DOMAIN raw : raw[i] # 0
<1>1. raw \in Bytes /\ Len(raw) = 1
  BY DEF Bytes, Byte
<1>2. EncodeBool(b) = TL(TypeBool, Len(raw), 1) \o raw
  BY <1>1 DEF EncodeBool
<1>3. flag = b
  <2>1. DOMAIN raw = {1} /\ (raw[1] # 0 <=> b)
    OBVIOUS
  <2>2. flag <=> b
    BY <2>1
  <2> QED
    BY <2>2
<1> HIDE DEF raw
<1>4. Yields(TL(TypeBool, Len(raw), 1) \o raw, PrimitiveOf(TypeBool, raw))
  BY <1>1, YieldsPrimitive
<1>5. PrimitiveOf(TypeBool, raw) = <<"bool", flag>>
  BY PrimitiveIs, Zenon
<1> HIDE DEF flag
<1> QED
  BY <1>2, <1>3, <1>4, <1>5, Zenon

LEMMA YieldsValue ==
    ASSUME NEW v \in Primitives \cup {Null}
    PROVE  Yields(EncodeValue(v), v)
<1>1. CASE v = Null
  <2>1. EncodeValue(v) = <<0>>
    BY <1>1 DEF EncodeValue, Null
  <2> QED
    BY <1>1, <2>1, YieldsNull, Zenon
<1>2. ASSUME NEW x \in Nat, v = <<"uint", x>> PROVE Yields(EncodeValue(v), v)
  <2>1. EncodeValue(v) = EncodeUint(x, UintSize(x))
    BY <1>2 DEF EncodeValue, Null
  <2> QED
    BY <1>2, <2>1, SizeOfNumber, YieldsUint
<1>3. ASSUME NEW x \in Int, v = <<"int", x>> PROVE Yields(EncodeValue(v), v)
  <2>1. EncodeValue(v) = EncodeInt(x)
    BY <1>3 DEF EncodeValue, Null
  <2> QED
    BY <1>3, <2>1, YieldsInt
<1>4. ASSUME NEW x \in Bytes, v = <<"octet", x>> PROVE Yields(EncodeValue(v), v)
  <2>1. EncodeValue(v) = EncodeOctet(x)
    BY <1>4 DEF EncodeValue, Null
  <2> QED
    BY <1>4, <2>1, YieldsOctet
<1>5. ASSUME NEW x \in BOOLEAN, v = <<"bool", x>> PROVE Yields(EncodeValue(v), v)
  <2>1. EncodeValue(v) = EncodeBool(x)
    BY <1>5 DEF EncodeValue, Null
  <2> QED
    BY <1>5, <2>1, YieldsBool, Zenon
<1> QED
  BY <1>1, <1>2, <1>3, <1>4, <1>5 DEF Primitives, Unsigneds, Bytes

LEMMA TailFirst ==
    ASSUME NEW S, NEW s \in Seq(S), NEW i \in 1..Len(s)
    PROVE  <<s[i]>> \o SubSeq(s, i + 1, Len(s)) = SubSeq(s, i, Len(s))
<1> DEFINE n == Len(s)
           one == <<s[i]>>
           rest == SubSeq(s, i + 1, n)
           all == SubSeq(s, i, n)
           u == one \o rest
<1>0. n \in Nat /\ i \in Nat
  OBVIOUS
<1>1. all \in Seq(S) /\ Len(all) = n - i + 1 /\ \A j \in 1..(n - i + 1) : all[j] = s[i + j - 1]
  OBVIOUS
<1>2. rest \in Seq(S) /\ Len(rest) = n - i /\ \A j \in 1..(n - i) : rest[j] = s[(i + 1) + j - 1]
  OBVIOUS
<1>3. one \in Seq(S) /\ Len(one) = 1 /\ one[1] = s[i]
  OBVIOUS
<1> HIDE DEF one, rest, all
<1>4. u \in Seq(S) /\ Len(u) = n - i + 1 /\ u[1] = s[i] /\ \A j \in 1..(n - i) : u[1 + j] = rest[j]
  <2>1. /\ u \in Seq(S) /\ Len(u) = Len(one) + Len(rest) /\ Len(rest) \in Nat
        /\ \A j \in 1..Len(one) : u[j] = one[j]
        /\ \A j \in 1..Len(rest) : u[Len(one) + j] = rest[j]
    <3>1. one \in Seq(S) /\ rest \in Seq(S)
      BY <1>2, <1>3
    <3>2. u \in Seq(S) /\ Len(u) = Len(one) + Len(rest)
      BY <3>1
    <3>3. Len(one) \in Nat /\ Len(rest) \in Nat
      BY <3>1
    <3>4. \A j \in 1..(Len(one) + Len(rest)) : u[j] = IF j <= Len(one) THEN one[j] ELSE rest[j - Len(one)]
      BY <3>1
    <3> HIDE DEF u
    <3>5. \A j \in 1..Len(rest) : Len(one) + j \in 1..(Len(one) + Len(rest)) /\ ~(Len(one) + j <= Len(one))
                                  /\ (Len(one) + j) - Len(one) = j
      BY <3>3
    <3>6. \A j \in 1..Len(one) : j \in 1..(Len(one) + Len(rest)) /\ j <= Len(one)
      BY <3>3
    <3> QED
      BY <3>2, <3>3, <3>4, <3>5, <3>6
  <2>2. Len(one) = 1 /\ 1 \in 1..Len(one) /\ Len(rest) = n - i
    BY <1>2, <1>3
  <2> HIDE DEF u
  <2> QED
    BY <1>0, <1>3, <2>1, <2>2
<1> HIDE DEF u
<1>5. ASSUME NEW j \in 1..(n - i + 1) PROVE u[j] = all[j]
  <2>1. CASE j = 1
    <3>1. i + 1 - 1 = i
      BY <1>0
    <3> QED
      BY <1>1, <1>4, <2>1, <3>1
  <2>2. CASE j # 1
    <3>1. j - 1 \in 1..(n - i) /\ 1 + (j - 1) = j /\ (i + 1) + (j - 1) - 1 = i + j - 1
      BY <1>0, <2>2
    <3> QED
      BY <1>1, <1>2, <1>4, <3>1
  <2> QED
    BY <2>1, <2>2
<1>6. u = all
  BY <1>1, <1>4, <1>5, SeqEqual
<1> QED
  BY <1>6 DEF u, one, rest, all

\* The items of a list, one after the other.
LEMMA ItemsYield ==
    ASSUME NEW S, NEW encs \in Seq(Bytes), NEW vals \in Seq(S), Len(encs) = Len(vals), Len(encs) # 0,
           \A i \in 1..Len(encs) : Yields(encs[i], vals[i]),
           NEW data \in Bytes, NEW c \in Nat \ {0}, At(data, c, FlattenSeq(encs))
    PROVE  DecodeItems(data)[c][Len(encs)] = Decoded(<<"list", vals>>, c + Len(FlattenSeq(encs)))
<1> DEFINE n == Len(encs)
           items == DecodeItems(data)
<1>0. n \in Nat \ {0} /\ \A i \in 1..n : encs[i] \in Bytes /\ Len(encs[i]) \in Nat
  BY DEF Bytes
<1>1. PICK f : /\ FlattenSeq(encs) = f[n]
               /\ \A i \in 1..n : f[i] \in Bytes /\ f[i] = IF i = 1 THEN encs[i] ELSE f[i - 1] \o encs[i]
  BY <1>0, FlatParts
<1> HIDE DEF n
<1>2. \A i \in 1..n : i # 1 => i - 1 \in 1..n
  BY <1>0
<1>3. \A i \in 1..n : f[i] \in Bytes /\ f[i] \in Seq(Byte) /\ Len(f[i]) \in Nat
  BY <1>1 DEF Bytes
<1> DEFINE P == {k \in Nat : k < n => At(data, c, f[n - k])}
<1>4. \A k \in Nat : k \in P
  <2>1. 0 \in P
    BY <1>0, <1>1
  <2>2. ASSUME NEW k \in Nat, k \in P PROVE k + 1 \in P
    <3> SUFFICES ASSUME k + 1 < n PROVE At(data, c, f[n - (k + 1)])
      OBVIOUS
    <3> DEFINE i == n - k
    <3>1. i \in 1..n /\ i # 1 /\ i - 1 \in 1..n /\ n - (k + 1) = i - 1 /\ k < n
      BY <1>0
    <3>2. At(data, c, f[i])
      BY <2>2, <3>1
    <3> HIDE DEF i
    <3>3. f[i] = f[i - 1] \o encs[i] /\ f[i - 1] \in Bytes /\ encs[i] \in Bytes
      BY <1>0, <1>1, <3>1
    <3>4. At(data, c, f[i - 1])
      <4> DEFINE before == f[i - 1]
      <4> HIDE DEF before
      <4>1. At(data, c, before \o encs[i])
        BY <3>2, <3>3 DEF before
      <4>2. before \in Bytes /\ encs[i] \in Bytes
        BY <3>3 DEF before
      <4>3. At(data, c, before)
        BY <4>1, <4>2, AtJoined
      <4> QED
        BY <4>3 DEF before
    <3> QED
      BY <3>1, <3>4
  <2> HIDE DEF P
  <2> QED
    BY <2>1, <2>2, Induction
<1>5. \A i \in 1..n : At(data, c, f[i])
  <2> SUFFICES ASSUME NEW i \in 1..n PROVE At(data, c, f[i])
    OBVIOUS
  <2>1. n - i \in Nat /\ n - i < n /\ n - (n - i) = i
    BY <1>0
  <2>2. n - i \in P
    BY <1>4, <2>1
  <2> QED
    BY <2>1, <2>2
<1> HIDE DEF P
<1> DEFINE start == [i \in 1..(n + 1) |-> IF i = 1 THEN c ELSE c + Len(f[i - 1])]
<1>6. /\ start[1] = c /\ start[n + 1] = c + Len(f[n])
      /\ \A i \in 1..(n + 1) : start[i] \in Nat \ {0}
      /\ \A i \in 1..n : At(data, start[i], encs[i]) /\ start[i + 1] = start[i] + Len(encs[i])
  <2>1. \A i \in 1..(n + 1) : i = 1 \/ i - 1 \in 1..n
    BY <1>0
  <2>2. \A i \in 1..(n + 1) : start[i] \in Nat \ {0}
    BY <1>3, <2>1
  <2>3. start[1] = c /\ start[n + 1] = c + Len(f[n])
    BY <1>0
  <2>4. ASSUME NEW i \in 1..n PROVE At(data, start[i], encs[i]) /\ start[i + 1] = start[i] + Len(encs[i])
    <3>1. i \in 1..(n + 1) /\ i + 1 \in 1..(n + 1) /\ i + 1 # 1 /\ (i + 1) - 1 = i
      BY <1>0
    <3>2. start[i + 1] = c + Len(f[i])
      BY <3>1
    <3>3. CASE i = 1
      <4>1. f[i] = encs[i] /\ start[i] = c
        BY <1>1, <3>1, <3>3
      <4> HIDE DEF start
      <4> QED
        BY <1>5, <3>2, <4>1
    <3>4. CASE i # 1
      <4>1. f[i] = f[i - 1] \o encs[i] /\ start[i] = c + Len(f[i - 1]) /\ i - 1 \in 1..n
        BY <1>1, <1>2, <3>1, <3>4
      <4> HIDE DEF start
      <4> DEFINE before == f[i - 1]
                 enc == encs[i]
      <4>2. f[i] = before \o enc /\ start[i] = c + Len(before) /\ before \in Bytes /\ enc \in Bytes
        BY <1>0, <1>3, <4>1
      <4> HIDE DEF before
      <4> HIDE DEF enc
      <4>3. At(data, c, before \o enc)
        BY <1>5, <4>2
      <4>4. At(data, c + Len(before), enc)
        BY <4>2, <4>3, AtJoined
      <4>5. Len(before \o enc) = Len(before) + Len(enc) /\ Len(before) \in Nat /\ Len(enc) \in Nat
        BY <4>2 DEF Bytes
      <4>6. At(data, start[i], enc) /\ start[i + 1] = start[i] + Len(enc)
        BY <3>2, <4>2, <4>4, <4>5
      <4> QED
        BY <4>6 DEF enc
    <3> QED
      BY <3>3, <3>4
  <2> QED
    BY <2>2, <2>3, <2>4
<1> HIDE DEF start
<1>7. vals \in Seq(S) /\ Len(vals) = n
  BY DEF n
<1> DEFINE end == start[n + 1]
           Rest(i) == SubSeq(vals, i, n)
           T == {k \in Nat : k <= n => items[start[n + 1 - k]][k] = Decoded(<<"list", Rest(n + 1 - k)>>, end)}
<1>8. \A k \in Nat : k \in T
  <2>1. 0 \in T
    <3>1. n + 1 - 0 = n + 1 /\ n + 1 \in 1..(n + 1)
      BY <1>0
    <3>2. Rest(n + 1) = <<>>
      BY <1>0, <1>7
    <3>3. items[end] = ItemsAt(data, end, items)
      BY <1>6, <3>1, ItemsEquation
    <3>4. ItemsAt(data, end, items)[0] = Decoded(<<"list", <<>> >>, end)
      BY DEF ItemsAt
    <3> HIDE DEF Rest, items, end
    <3>5. items[start[n + 1 - 0]][0] = Decoded(<<"list", Rest(n + 1 - 0)>>, end)
      BY <3>1, <3>2, <3>3, <3>4 DEF end
    <3> QED
      BY <3>5
  <2>2. ASSUME NEW k \in Nat, k \in T PROVE k + 1 \in T
    <3> SUFFICES ASSUME k + 1 <= n
                 PROVE  items[start[n + 1 - (k + 1)]][k + 1] = Decoded(<<"list", Rest(n + 1 - (k + 1))>>, end)
      OBVIOUS
    <3> DEFINE i == n + 1 - (k + 1)
    <3>1. i \in 1..n /\ n + 1 - k = i + 1 /\ k <= n /\ i \in 1..(n + 1)
      BY <1>0
    <3>2. items[start[i + 1]][k] = Decoded(<<"list", Rest(i + 1)>>, end)
      BY <2>2, <3>1
    <3> HIDE DEF i, T
    <3>3. ValueAt(data, start[i]) = Decoded(vals[i], start[i + 1])
      <4>1. Yields(encs[i], vals[i]) /\ At(data, start[i], encs[i]) /\ start[i] \in Nat \ {0}
            /\ start[i + 1] = start[i] + Len(encs[i])
        BY <1>6, <3>1 DEF n
      <4>2. ValueAt(data, start[i]) = Decoded(vals[i], start[i] + Len(encs[i]))
        BY <4>1 DEF Yields
      <4> QED
        BY <4>1, <4>2
    <3>4. items[start[i]] = ItemsAt(data, start[i], items)
      BY <1>6, <3>1, ItemsEquation
    <3>5. ItemsAt(data, start[i], items)[k + 1]
            = Joined(ValueAt(data, start[i]), items[ValueAt(data, start[i]).pos][k])
      <4>1. k + 1 \in Nat /\ k + 1 # 0 /\ (k + 1) - 1 = k
        OBVIOUS
      <4> QED
        BY <4>1 DEF ItemsAt, ValueAt
    <3>6. Decoded(vals[i], start[i + 1]).pos = start[i + 1]
      BY DEF Decoded
    <3>7. Joined(Decoded(vals[i], start[i + 1]), Decoded(<<"list", Rest(i + 1)>>, end))
            = Decoded(<<"list", <<vals[i]>> \o Rest(i + 1)>>, end)
      <4> HIDE DEF Rest, end
      <4>1. <<"list", Rest(i + 1)>>[2] = Rest(i + 1)
        OBVIOUS
      <4> QED
        BY <4>1 DEF Joined, Decoded
    <3>8. <<vals[i]>> \o Rest(i + 1) = Rest(i)
      BY <1>7, <3>1, TailFirst
    <3> HIDE DEF items, Rest, end
    <3>9. items[start[i]][k + 1] = Decoded(<<"list", Rest(i)>>, end)
      BY <3>2, <3>3, <3>4, <3>5, <3>6, <3>7, <3>8
    <3> QED
      BY <3>9 DEF i
  <2> HIDE DEF T
  <2> QED
    BY <2>1, <2>2, Induction
<1>9. items[start[1]][n] = Decoded(<<"list", Rest(1)>>, end)
  <2>1. n \in T /\ n + 1 - n = 1 /\ n \in Nat
    BY <1>0, <1>8
  <2> HIDE DEF items, Rest, end
  <2> QED
    BY <2>1
<1>10. Rest(1) = vals
  BY <1>0, <1>7
<1> HIDE DEF items, Rest
<1> QED
  BY <1>1, <1>6, <1>9, <1>10 DEF items, n

LEMMA YieldsList ==
    ASSUME NEW S, NEW encs \in Seq(Bytes), NEW vals \in Seq(S), Len(encs) = Len(vals),
           \A i \in 1..Len(encs) : Yields(encs[i], vals[i])
    PROVE  Yields(EncodeList(encs), <<"list", vals>>)
<1> DEFINE n == Len(encs)
           tl == TL(TypeList, n, 0)
           flat == FlattenSeq(encs)
           enc == tl \o flat
<1>1. n \in Nat /\ TypeList \in Types /\ TypeList # TypeOctet
  BY DEF Types, TypeList, TypeOctet
<1>2. EncodeList(encs) = enc
  BY DEF EncodeList
<1>3. flat \in Bytes /\ tl \in Bytes
  BY <1>1, FlatBytes, TLIsBytes
<1>4. Len(tl) \in Nat \ {0}
  <2>1. TLBytes(n, 0) \in Nat \ {0}
    BY <1>1, FewestTLBytes
  <2>2. Len(tl) = TLBytes(n, 0)
    BY <2>1 DEF TL
  <2> QED
    BY <2>1, <2>2
<1>5. enc \in Bytes /\ Len(enc) = Len(tl) + Len(flat) /\ Len(flat) \in Nat
  <2> HIDE DEF tl, flat
  <2> QED
    BY <1>3 DEF Bytes
<1>6. ASSUME NEW data \in Bytes, NEW p \in Nat \ {0}, At(data, p, enc)
      PROVE  ValueAt(data, p) = Decoded(<<"list", vals>>, p + Len(enc))
  <2> DEFINE c == p + Len(tl)
             items == DecodeItems(data)
  <2>1. At(data, p, tl) /\ At(data, c, flat)
    <3> HIDE DEF tl, flat
    <3> QED
      BY <1>3, <1>6, AtJoined
  <2>2. /\ p + Len(tl) - 1 <= Len(data) /\ data[p] # 0
        /\ DecodeTL(data, p) = [ok |-> TRUE, type |-> TypeList, cursor |-> c, length |-> n]
    <3>1. ~(0 = 1)
      OBVIOUS
    <3> HIDE DEF n
    <3> QED
      BY <1>1, <2>1, <3>1, TLDecoded
  <2> HIDE DEF tl
  <2>3. ValueAt(data, p) = items[c][n]
    <3> DEFINE field == DecodeTL(data, p)
    <3>1. field.ok /\ field.type = TypeList /\ field.cursor = c /\ field.length = n
      BY <1>1, <1>4, <2>2
    <3>2. ~(p > Len(data))
      BY <1>4, <2>2 DEF Bytes
    <3> HIDE DEF c
    <3> QED
      BY <2>2, <3>1, <3>2 DEF ValueAt, DecodeValue
  <2>4. c \in Nat \ {0} /\ c + Len(flat) = p + Len(enc)
    BY <1>4, <1>5
  <2> HIDE DEF c
  <2>5. CASE n = 0
    <3>1. encs = <<>> /\ vals = <<>>
      <4>1. Len(encs) = 0 /\ Len(vals) = 0
        BY <2>5
      <4>2. encs = <<>>
        BY <4>1
      <4>3. vals = <<>>
        BY <4>1
      <4> QED
        BY <4>2, <4>3
    <3>2. flat = <<>> /\ Len(flat) = 0
      BY <3>1 DEF FlattenSeq
    <3>3. items[c] = ItemsAt(data, c, items)
      BY <2>4, ItemsEquation
    <3>4. ItemsAt(data, c, items)[0] = Decoded(<<"list", <<>> >>, c)
      BY DEF ItemsAt
    <3>5. c = p + Len(enc)
      BY <2>4, <3>2
    <3> HIDE DEF items, flat, enc
    <3> QED
      BY <2>3, <2>5, <3>1, <3>3, <3>4, <3>5
  <2>6. CASE n # 0
    <3>1. items[c][n] = Decoded(<<"list", vals>>, c + Len(flat))
      BY <2>1, <2>4, <2>6, ItemsYield
    <3> QED
      BY <2>3, <2>4, <3>1
  <2> QED
    BY <2>5, <2>6
<1>7. Len(enc) # 0
  BY <1>4, <1>5
<1> HIDE DEF enc
<1> QED
  BY <1>2, <1>5, <1>6, <1>7 DEF Yields

-----------------------------------------------------------------------------
(* Messages.                                                               *)

\* One value by itself, and a list of one.
LEMMA FieldIs ==
    ASSUME NEW data \in Bytes, NEW pos \in Nat \ {0}
    PROVE  DecodeField(data, pos) = ValueAt(data, pos) /\ Forward(ValueAt(data, pos), pos + 1)
<1> DEFINE items == DecodeItems(data)
           first == ValueAt(data, pos)
<1>1. \A p \in Nat \ {0} : items[p] = ItemsAt(data, p, items)
  BY ItemsEquation
<1>2. \A p \in Nat : p > pos => \A n \in Nat : Forward(items[p][n], p)
  <2> DEFINE T == {k \in Nat : \A p \in Nat \ {0} : p + k > Len(data) => \A n \in Nat : Forward(items[p][n], p)}
  <2>1. Len(data) \in Nat
    BY DEF Bytes
  <2>2. 0 \in T
    <3> SUFFICES ASSUME NEW p \in Nat \ {0}, p > Len(data), NEW n \in Nat PROVE Forward(items[p][n], p)
      OBVIOUS
    <3>1. DecodeValue(data, p, DecodeTL(data, p), items) = Failed
      BY DEF DecodeValue
    <3>2. \A rest : Joined(Failed, rest) = Failed
      BY DEF Joined, Failed
    <3> HIDE DEF items
    <3>3. ItemsAt(data, p, items)[n] = IF n = 0 THEN Decoded(<<"list", <<>> >>, p) ELSE Failed
      BY <3>1, <3>2 DEF ItemsAt
    <3>4. Forward(ItemsAt(data, p, items)[n], p)
      BY <3>3 DEF Forward
    <3> QED
      BY <1>1, <3>4
  <2>3. ASSUME NEW k \in Nat, k \in T PROVE k + 1 \in T
    <3> SUFFICES ASSUME NEW p \in Nat \ {0}, p + (k + 1) > Len(data), NEW n \in Nat PROVE Forward(items[p][n], p)
      OBVIOUS
    <3>1. ASSUME NEW q \in Nat, q > p PROVE \A l \in Nat : Forward(items[q][l], q)
      <4>1. q \in Nat \ {0} /\ q + k > Len(data)
        BY <2>1, <3>1
      <4> QED
        BY <2>3, <4>1
    <3> HIDE DEF items, T
    <3>2. \A l \in Nat : Forward(ItemsAt(data, p, items)[l], p)
      BY <3>1, ItemsSame
    <3> QED
      BY <1>1, <3>2
  <2> HIDE DEF T, items
  <2>4. \A k \in Nat : k \in T
    BY <2>2, <2>3, Induction
  <2>5. Len(data) \in T
    BY <2>1, <2>4
  <2> SUFFICES ASSUME NEW p \in Nat, p > pos PROVE \A n \in Nat : Forward(items[p][n], p)
    OBVIOUS
  <2>6. p \in Nat \ {0} /\ p + Len(data) > Len(data)
    BY <2>1
  <2> QED
    BY <2>5, <2>6 DEF T
<1>3. Forward(first, pos + 1)
  <2> HIDE DEF items
  <2>1. Forward(DecodeValue(data, pos, DecodeTL(data, pos), items), pos + 1)
    BY <1>2, ValueForward
  <2> QED
    BY <2>1 DEF ValueAt, items
<1>4. items[pos][1] = Joined(first, items[first.pos][0])
  <2>1. ItemsAt(data, pos, items)[1] = Joined(first, items[first.pos][1 - 1])
    BY DEF ItemsAt, ValueAt
  <2>2. items[pos] = ItemsAt(data, pos, items)
    BY <1>1
  <2> HIDE DEF items, first
  <2> QED
    BY <2>1, <2>2
<1>5. DecodeField(data, pos) = IF items[pos][1].ok THEN Decoded(items[pos][1].value[2][1], items[pos][1].pos) ELSE Failed
  BY DEF DecodeField
<1> HIDE DEF items, first
<1>6. CASE first = Failed
  <2>1. items[pos][1] = Failed
    BY <1>4, <1>6 DEF Joined, Failed
  <2>2. ~Failed.ok
    BY DEF Failed
  <2> QED
    BY <1>3, <1>5, <1>6, <2>1, <2>2 DEF first
<1>7. CASE first # Failed
  <2>1. PICK v, q : q \in Nat /\ q >= pos + 1 /\ first = Decoded(v, q)
    BY <1>3, <1>7 DEF Forward
  <2>2. first.ok /\ first.pos = q /\ first.value = v
    BY <2>1 DEF Decoded
  <2>3. items[q][0] = Decoded(<<"list", <<>> >>, q)
    <3>1. q \in Nat \ {0}
      BY <2>1
    <3>2. ItemsAt(data, q, items)[0] = Decoded(<<"list", <<>> >>, q)
      BY DEF ItemsAt
    <3> QED
      BY <1>1, <3>1, <3>2
  <2>4. <<v>> \o <<>> = <<v>>
    <3>1. <<v>> \in Seq({v})
      OBVIOUS
    <3> QED
      BY <3>1, ConcatEmptySeq
  <2>5. Joined(first, Decoded(<<"list", <<>> >>, q)) = Decoded(<<"list", <<v>> >>, q)
    <3> DEFINE none == <<"list", <<>> >>
    <3>1. none[2] = <<>>
      OBVIOUS
    <3> HIDE DEF none
    <3>2. Joined(first, Decoded(none, q)) = Decoded(<<"list", <<first.value>> \o none[2]>>, q)
      BY <2>2 DEF Joined, Decoded
    <3> QED
      BY <2>2, <2>4, <3>1, <3>2 DEF none
  <2>6. items[pos][1] = Decoded(<<"list", <<v>> >>, q)
    BY <1>4, <2>2, <2>3, <2>5
  <2>7. /\ Decoded(<<"list", <<v>> >>, q).ok /\ Decoded(<<"list", <<v>> >>, q).value[2][1] = v
        /\ Decoded(<<"list", <<v>> >>, q).pos = q
    BY DEF Decoded
  <2>8. DecodeField(data, pos) = Decoded(v, q)
    BY <1>5, <2>6, <2>7
  <2> QED
    BY <1>3, <2>1, <2>8 DEF first
<1> QED
  BY <1>6, <1>7

\* The messages from pos on.
MessagesAt(payload, pos, from) ==
    IF pos > Len(payload) THEN Decoded(<<"list", <<>> >>, pos)
    ELSE IF payload[pos] = 0 THEN from[pos + 1]
    ELSE Joined(DecodeField(payload, pos), from[DecodeField(payload, pos).pos])

LEMMA MessagesSame ==
    ASSUME NEW payload \in Bytes, NEW pos \in Nat \ {0}, NEW from, NEW other,
           \A p \in Nat : p > pos => from[p] = other[p]
    PROVE  MessagesAt(payload, pos, from) = MessagesAt(payload, pos, other)
<1> DEFINE first == DecodeField(payload, pos)
<1>1. Forward(first, pos + 1)
  BY FieldIs
<1>2. Joined(first, from[first.pos]) = Joined(first, other[first.pos])
  <2> HIDE DEF first
  <2>1. CASE first = Failed
    BY <2>1 DEF Joined, Failed
  <2>2. CASE first # Failed
    <3>1. PICK v, q : q \in Nat /\ q >= pos + 1 /\ first = Decoded(v, q)
      BY <1>1, <2>2 DEF Forward
    <3>2. first.pos = q /\ q > pos
      BY <3>1 DEF Decoded
    <3> QED
      BY <3>1, <3>2
  <2> QED
    BY <2>1, <2>2
<1>3. from[pos + 1] = other[pos + 1]
  OBVIOUS
<1> QED
  BY <1>2, <1>3 DEF MessagesAt

LEMMA MessagesEquation ==
    ASSUME NEW payload \in Bytes
    PROVE  \E from : /\ DecodeMessages(payload) = from[1]
                     /\ \A pos \in Nat \ {0} : from[pos] = MessagesAt(payload, pos, from)
<1> DEFINE from[pos \in Nat \ {0}] ==
              LET first == DecodeField(payload, pos)
              IN IF pos > Len(payload) THEN Decoded(<<"list", <<>> >>, pos)
                 ELSE IF payload[pos] = 0 THEN from[pos + 1]
                 ELSE Joined(first, from[first.pos])
           Good(g, m) == \A p \in Nat \ {0} : p >= m => g[p] = MessagesAt(payload, p, g)
           T == {k \in Nat : k <= Len(payload) => \E g : Good(g, Len(payload) + 1 - k)}
<1>1. Len(payload) \in Nat
  BY DEF Bytes
<1>2. \A k \in Nat : k \in T
  <2>1. 0 \in T
    <3> DEFINE g == [p \in Nat \ {0} |-> Decoded(<<"list", <<>> >>, p)]
    <3>1. Good(g, Len(payload) + 1 - 0)
      BY <1>1 DEF MessagesAt
    <3> QED
      BY <3>1
  <2>2. ASSUME NEW k \in Nat, k \in T PROVE k + 1 \in T
    <3> SUFFICES ASSUME k + 1 <= Len(payload) PROVE \E g : Good(g, Len(payload) + 1 - (k + 1))
      OBVIOUS
    <3> DEFINE m == Len(payload) + 1 - (k + 1)
    <3>1. m \in Nat \ {0} /\ m + 1 = Len(payload) + 1 - k /\ k <= Len(payload)
      BY <1>1
    <3>2. PICK g : Good(g, m + 1)
      BY <2>2, <3>1
    <3> HIDE DEF m
    <3> DEFINE h == [p \in Nat \ {0} |-> IF p = m THEN MessagesAt(payload, m, g) ELSE g[p]]
    <3>3. \A p \in Nat : p > m => g[p] = h[p]
      BY <3>1
    <3>4. h[m] = MessagesAt(payload, m, g)
      BY <3>1
    <3> HIDE DEF h
    <3>5. ASSUME NEW p \in Nat \ {0}, p >= m PROVE h[p] = MessagesAt(payload, p, h)
      <4>1. \A q \in Nat : q > p => g[q] = h[q]
        BY <3>1, <3>3, <3>5
      <4>2. MessagesAt(payload, p, g) = MessagesAt(payload, p, h)
        BY <4>1, MessagesSame
      <4>3. h[p] = MessagesAt(payload, p, g)
        <5>1. CASE p = m
          BY <3>4, <5>1
        <5>2. CASE p # m
          <6>1. p > m /\ p >= m + 1
            BY <3>1, <3>5, <5>2
          <6> QED
            BY <3>2, <3>3, <6>1
        <5> QED
          BY <5>1, <5>2
      <4> QED
        BY <4>2, <4>3
    <3>6. Good(h, m)
      BY <3>5
    <3> QED
      BY <3>6 DEF m
  <2> HIDE DEF T
  <2> QED
    BY <2>1, <2>2, Induction
<1>3. PICK g : Good(g, 1)
  <2>1. Len(payload) \in T
    BY <1>1, <1>2
  <2>2. Len(payload) + 1 - Len(payload) = 1
    BY <1>1
  <2> QED
    BY <1>1, <2>1, <2>2
<1> DEFINE f == [p \in Nat \ {0} |-> g[p]]
<1>4. ASSUME NEW p \in Nat \ {0} PROVE f[p] = MessagesAt(payload, p, f)
  <2>1. \A q \in Nat : q > p => g[q] = f[q]
    OBVIOUS
  <2>2. f[p] = g[p] /\ g[p] = MessagesAt(payload, p, g)
    BY <1>3
  <2> HIDE DEF f
  <2>3. MessagesAt(payload, p, g) = MessagesAt(payload, p, f)
    BY <2>1, MessagesSame
  <2> QED
    BY <2>2, <2>3
<1>5. f = [p \in Nat \ {0} |-> MessagesAt(payload, p, f)]
  <2>1. f = [p \in Nat \ {0} |-> f[p]]
    OBVIOUS
  <2> HIDE DEF f
  <2> QED
    BY <1>4, <2>1
<1> HIDE DEF f, Good, T
<1>6. from = [p \in Nat \ {0} |-> MessagesAt(payload, p, from)]
  BY <1>5, ZenonT(60) DEF from, MessagesAt
<1>7. DecodeMessages(payload) = from[1]
  BY Zenon DEF DecodeMessages, from
<1> HIDE DEF from
<1>8. \A pos \in Nat \ {0} : from[pos] = MessagesAt(payload, pos, from)
  BY <1>6
<1> QED
  BY <1>7, <1>8

\* A payload of one message.
LEMMA OneMessage ==
    ASSUME NEW payload, NEW value, Yields(payload, value), payload[1] # 0
    PROVE  DecodeMessages(payload) = Decoded(<<"list", <<value>> >>, Len(payload) + 1)
<1>0. payload \in Bytes /\ Len(payload) \in Nat \ {0} /\ DOMAIN payload = 1..Len(payload)
  BY DEF Yields, Bytes
<1>1. PICK from : /\ DecodeMessages(payload) = from[1]
                  /\ \A pos \in Nat \ {0} : from[pos] = MessagesAt(payload, pos, from)
  BY <1>0, MessagesEquation
<1> DEFINE end == Len(payload) + 1
<1>2. DecodeField(payload, 1) = Decoded(value, end)
  <2>1. At(payload, 1, payload)
    BY <1>0 DEF At
  <2>2. ValueAt(payload, 1) = Decoded(value, 1 + Len(payload))
    BY <1>0, <2>1 DEF Yields
  <2>3. 1 + Len(payload) = end
    BY <1>0
  <2> QED
    BY <1>0, <2>2, <2>3, FieldIs
<1>3. from[end] = Decoded(<<"list", <<>> >>, end)
  <2>1. end \in Nat \ {0} /\ end > Len(payload)
    BY <1>0
  <2> HIDE DEF end
  <2> QED
    BY <1>1, <2>1 DEF MessagesAt
<1>4. Decoded(value, end).pos = end
  BY DEF Decoded
<1>5. from[1] = Joined(Decoded(value, end), Decoded(<<"list", <<>> >>, end))
  <2>1. ~(1 > Len(payload)) /\ 1 \in Nat \ {0}
    BY <1>0
  <2> HIDE DEF end
  <2> QED
    BY <1>1, <1>2, <1>3, <1>4, <2>1 DEF MessagesAt
<1>6. Joined(Decoded(value, end), Decoded(<<"list", <<>> >>, end)) = Decoded(<<"list", <<value>> >>, end)
  <2> DEFINE none == <<"list", <<>> >>
  <2>1. none[2] = <<>>
    OBVIOUS
  <2>2. <<value>> \o <<>> = <<value>>
    <3>1. <<value>> \in Seq({value})
      OBVIOUS
    <3> QED
      BY <3>1, ConcatEmptySeq
  <2> HIDE DEF none, end
  <2>3. Joined(Decoded(value, end), Decoded(none, end)) = Decoded(<<"list", <<value>> \o none[2]>>, end)
    BY DEF Joined, Decoded
  <2> QED
    BY <2>1, <2>2, <2>3 DEF none
<1> QED
  BY <1>1, <1>5, <1>6

\* Lists of so many items.
LEMMA ListOfTwo ==
    ASSUME NEW e1, NEW v1, Yields(e1, v1),
           NEW e2, NEW v2, Yields(e2, v2)
    PROVE  Yields(EncodeList(<<e1, e2>>), <<"list", <<v1, v2>> >>)
<1> DEFINE S == {v1, v2}
           encs == <<e1, e2>>
           vals == <<v1, v2>>
<1>1. e1 \in Bytes /\ e2 \in Bytes
  BY DEF Yields
<1>2. encs \in Seq(Bytes) /\ Len(encs) = 2
  BY <1>1
<1>3. vals \in Seq(S) /\ Len(vals) = 2
  OBVIOUS
<1>4. \A i \in 1..2 : Yields(encs[i], vals[i])
  <2>1. /\ Yields(encs[1], vals[1])
        /\ Yields(encs[2], vals[2])
    OBVIOUS
  <2>2. \A i \in 1..2 : i = 1 \/ i = 2
    OBVIOUS
  <2> HIDE DEF encs, vals
  <2> QED
    BY <2>1, <2>2
<1> HIDE DEF encs, vals, S
<1>5. Yields(EncodeList(encs), <<"list", vals>>)
  BY <1>2, <1>3, <1>4, YieldsList
<1> QED
  BY <1>5 DEF encs, vals

LEMMA ListOfSix ==
    ASSUME NEW e1, NEW v1, Yields(e1, v1),
           NEW e2, NEW v2, Yields(e2, v2),
           NEW e3, NEW v3, Yields(e3, v3),
           NEW e4, NEW v4, Yields(e4, v4),
           NEW e5, NEW v5, Yields(e5, v5),
           NEW e6, NEW v6, Yields(e6, v6)
    PROVE  Yields(EncodeList(<<e1, e2, e3, e4, e5, e6>>), <<"list", <<v1, v2, v3, v4, v5, v6>> >>)
<1> DEFINE S == {v1, v2, v3, v4, v5, v6}
           encs == <<e1, e2, e3, e4, e5, e6>>
           vals == <<v1, v2, v3, v4, v5, v6>>
<1>1. e1 \in Bytes /\ e2 \in Bytes /\ e3 \in Bytes /\ e4 \in Bytes /\ e5 \in Bytes /\ e6 \in Bytes
  BY DEF Yields
<1>2. encs \in Seq(Bytes) /\ Len(encs) = 6
  BY <1>1
<1>3. vals \in Seq(S) /\ Len(vals) = 6
  OBVIOUS
<1>4. \A i \in 1..6 : Yields(encs[i], vals[i])
  <2>1. /\ Yields(encs[1], vals[1])
        /\ Yields(encs[2], vals[2])
        /\ Yields(encs[3], vals[3])
        /\ Yields(encs[4], vals[4])
        /\ Yields(encs[5], vals[5])
        /\ Yields(encs[6], vals[6])
    OBVIOUS
  <2>2. \A i \in 1..6 : i = 1 \/ i = 2 \/ i = 3 \/ i = 4 \/ i = 5 \/ i = 6
    OBVIOUS
  <2> HIDE DEF encs, vals
  <2> QED
    BY <2>1, <2>2
<1> HIDE DEF encs, vals, S
<1>5. Yields(EncodeList(encs), <<"list", vals>>)
  BY <1>2, <1>3, <1>4, YieldsList
<1> QED
  BY <1>5 DEF encs, vals

LEMMA ListOfSeven ==
    ASSUME NEW e1, NEW v1, Yields(e1, v1),
           NEW e2, NEW v2, Yields(e2, v2),
           NEW e3, NEW v3, Yields(e3, v3),
           NEW e4, NEW v4, Yields(e4, v4),
           NEW e5, NEW v5, Yields(e5, v5),
           NEW e6, NEW v6, Yields(e6, v6),
           NEW e7, NEW v7, Yields(e7, v7)
    PROVE  Yields(EncodeList(<<e1, e2, e3, e4, e5, e6, e7>>), <<"list", <<v1, v2, v3, v4, v5, v6, v7>> >>)
<1> DEFINE S == {v1, v2, v3, v4, v5, v6, v7}
           encs == <<e1, e2, e3, e4, e5, e6, e7>>
           vals == <<v1, v2, v3, v4, v5, v6, v7>>
<1>1. e1 \in Bytes /\ e2 \in Bytes /\ e3 \in Bytes /\ e4 \in Bytes /\ e5 \in Bytes /\ e6 \in Bytes /\ e7 \in Bytes
  BY DEF Yields
<1>2. encs \in Seq(Bytes) /\ Len(encs) = 7
  BY <1>1
<1>3. vals \in Seq(S) /\ Len(vals) = 7
  OBVIOUS
<1>4. \A i \in 1..7 : Yields(encs[i], vals[i])
  <2>1. /\ Yields(encs[1], vals[1])
        /\ Yields(encs[2], vals[2])
        /\ Yields(encs[3], vals[3])
        /\ Yields(encs[4], vals[4])
        /\ Yields(encs[5], vals[5])
        /\ Yields(encs[6], vals[6])
        /\ Yields(encs[7], vals[7])
    OBVIOUS
  <2>2. \A i \in 1..7 : i = 1 \/ i = 2 \/ i = 3 \/ i = 4 \/ i = 5 \/ i = 6 \/ i = 7
    OBVIOUS
  <2> HIDE DEF encs, vals
  <2> QED
    BY <2>1, <2>2
<1> HIDE DEF encs, vals, S
<1>5. Yields(EncodeList(encs), <<"list", vals>>)
  BY <1>2, <1>3, <1>4, YieldsList
<1> QED
  BY <1>5 DEF encs, vals

\* What a list entry is decoded to.
EntryValue(e) ==
    <<"list", << <<"octet", e.code>>, e.status,
                 IF e.time = Null THEN Null ELSE <<"list", << <<"uint", 1>>, e.time>> >>,
                 e.unit, IF e.scaler = 0 /\ e.unit = Null THEN Null ELSE <<"int", e.scaler>>,
                 e.value, Null>> >>

LEMMA EntryParts ==
    ASSUME NEW e \in ListEntries
    PROVE  /\ e.code \in Bytes /\ e.value \in Primitives /\ e.scaler \in Int
           /\ e.unit \in Unsigneds \cup {Null} /\ e.status \in Unsigneds \cup {Null} /\ e.time \in Unsigneds \cup {Null}
           /\ \A v \in Unsigneds : v \in Primitives /\ v = <<"uint", v[2]>> /\ v[2] \in Nat /\ v # Null
BY DEF ListEntries, Primitives, Unsigneds, Bytes, Null

LEMMA YieldsEntry ==
    ASSUME NEW e \in ListEntries, e.status # Null => UintSize(e.status[2]) <= 8
    PROVE  Yields(BuildListEntry(e), EntryValue(e))
<1> DEFINE status == IF e.status = Null THEN <<0>> ELSE EncodeUint(e.status[2], 8)
           time == IF e.time = Null THEN <<0>> ELSE EncodeList(<<EncodeUint(1, 1), EncodeValue(e.time)>>)
           timeValue == IF e.time = Null THEN Null ELSE <<"list", << <<"uint", 1>>, e.time>> >>
           scaler == IF e.scaler = 0 /\ e.unit = Null THEN <<0>> ELSE EncodeInt(e.scaler)
           scalerValue == IF e.scaler = 0 /\ e.unit = Null THEN Null ELSE <<"int", e.scaler>>
           code == EncodeOctet(e.code)
           codeValue == <<"octet", e.code>>
           zero == <<0>>
<1>1. /\ e.code \in Bytes /\ e.value \in Primitives /\ e.scaler \in Int
      /\ e.unit \in Unsigneds \cup {Null} /\ e.status \in Unsigneds \cup {Null} /\ e.time \in Unsigneds \cup {Null}
      /\ \A v \in Unsigneds : v \in Primitives /\ v = <<"uint", v[2]>> /\ v[2] \in Nat
  BY EntryParts
<1>2. Yields(code, codeValue)
  BY <1>1, YieldsOctet
<1>3. Yields(status, e.status)
  <2>1. CASE e.status = Null
    BY <2>1, YieldsNull
  <2>2. CASE e.status # Null
    <3>1. e.status[2] \in Nat /\ e.status = <<"uint", e.status[2]>> /\ UintSize(e.status[2]) <= 8
      BY <1>1, <2>2
    <3> DEFINE v == e.status[2]
    <3>2. v \in Nat /\ UintSize(v) <= 8
      BY <3>1
    <3> HIDE DEF v
    <3>3. UintSize(v) \in Nat /\ v < Power(256, UintSize(v))
      BY <3>2, SizeOfNumber
    <3>4. UintSize(v) = 8 \/ Power(256, UintSize(v)) < Power(256, 8)
      BY <3>2, <3>3, PowerGrows
    <3>5. Power(256, UintSize(v)) \in Nat /\ Power(256, 8) \in Nat
      <4> DEFINE b == 256
                 s == UintSize(v)
      <4>1. b \in Nat /\ s \in Nat /\ 8 \in Nat
        BY <3>3
      <4> HIDE DEF b, s
      <4>2. Power(b, s) \in Nat /\ Power(b, 8) \in Nat
        BY <4>1, PowerIsNat
      <4> QED
        BY <4>2 DEF b, s
    <3>6. v < Power(256, 8)
      BY <3>2, <3>3, <3>4, <3>5
    <3>7. Yields(EncodeUint(v, 8), <<"uint", v>>)
      BY <3>2, <3>6, YieldsUint
    <3> QED
      BY <2>2, <3>1, <3>7 DEF v
  <2> QED
    BY <2>1, <2>2
<1>4. Yields(time, timeValue)
  <2>1. CASE e.time = Null
    BY <2>1, YieldsNull
  <2>2. CASE e.time # Null
    <3>1. e.time \in Primitives \cup {Null}
      BY <1>1, <2>2
    <3>2. Yields(EncodeValue(e.time), e.time)
      BY <3>1, YieldsValue
    <3>3. Yields(EncodeUint(1, 1), <<"uint", 1>>)
      <4>1. 1 < Power(256, 1)
        BY PowerExceeds
      <4> QED
        BY <4>1, YieldsUint
    <3>4. Yields(EncodeList(<<EncodeUint(1, 1), EncodeValue(e.time)>>), <<"list", << <<"uint", 1>>, e.time>> >>)
      BY <3>2, <3>3, ListOfTwo
    <3> QED
      BY <2>2, <3>4
  <2> QED
    BY <2>1, <2>2
<1>5. Yields(EncodeValue(e.unit), e.unit)
  <2>1. e.unit \in Primitives \cup {Null}
    BY <1>1
  <2> QED
    BY <2>1, YieldsValue
<1>6. Yields(scaler, scalerValue)
  BY <1>1, YieldsNull, YieldsInt
<1>7. Yields(EncodeValue(e.value), e.value)
  <2>1. e.value \in Primitives \cup {Null}
    BY <1>1
  <2> QED
    BY <2>1, YieldsValue
<1>8. Yields(zero, Null)
  BY YieldsNull
<1>9. BuildListEntry(e) = EncodeList(<<code, status, time, EncodeValue(e.unit), scaler, EncodeValue(e.value), zero>>)
  BY DEF BuildListEntry
<1>10. EntryValue(e) = <<"list", <<codeValue, e.status, timeValue, e.unit, scalerValue, e.value, Null>> >>
  BY DEF EntryValue
<1> HIDE DEF code, codeValue, status, time, timeValue, scaler, scalerValue, zero
<1>11. Yields(EncodeList(<<code, status, time, EncodeValue(e.unit), scaler, EncodeValue(e.value), zero>>),
              <<"list", <<codeValue, e.status, timeValue, e.unit, scalerValue, e.value, Null>> >>)
  BY <1>2, <1>3, <1>4, <1>5, <1>6, <1>7, <1>8, ListOfSeven
<1> QED
  BY <1>9, <1>10, <1>11

\* What Expected says of an entry.
ExpectedOf(e) ==
    [code |-> IF Len(e.code) = 5 THEN Append(e.code, 255) ELSE e.code,
     status |-> IF e.status = Null THEN <<>> ELSE <<e.status[2]>>,
     time |-> IF e.time = Null THEN <<>> ELSE <<e.time[2]>>,
     unit |-> IF e.unit = Null THEN 255 ELSE e.unit[2], scaler |-> e.scaler, value |-> e.value]

LEMMA EntryRead ==
    ASSUME NEW e \in ListEntries, Len(e.code) \in {5, 6}
    PROVE  IsReading(EntryValue(e)) /\ EntryToObis(EntryValue(e)) = ExpectedOf(e)
<1> DEFINE timeValue == IF e.time = Null THEN Null ELSE <<"list", << <<"uint", 1>>, e.time>> >>
           scalerValue == IF e.scaler = 0 /\ e.unit = Null THEN Null ELSE <<"int", e.scaler>>
           codeValue == <<"octet", e.code>>
           f == <<codeValue, e.status, timeValue, e.unit, scalerValue, e.value, Null>>
           v == EntryValue(e)
<1>1. /\ e.value \in Primitives /\ e.scaler \in Int
      /\ e.unit \in Unsigneds \cup {Null} /\ e.status \in Unsigneds \cup {Null} /\ e.time \in Unsigneds \cup {Null}
  BY EntryParts
<1>2. \A x \in Unsigneds : x[1] = "uint" /\ IsNumber(x) /\ ~IsList(x) /\ x # Null
  BY DEF Unsigneds, IsNumber, IsList, Null
<1>3. ~IsNumber(Null) /\ ~IsList(Null) /\ Null[1] = "null"
  BY DEF IsNumber, IsList, Null
<1>4. e.value # Null /\ ~IsList(e.value)
  <2>1. e.value[1] \in {"uint", "int", "octet", "bool"}
    BY <1>1 DEF Primitives, Unsigneds
  <2> QED
    BY <1>3, <2>1 DEF IsList
<1>5. IsOctet(codeValue) /\ codeValue[2] = e.code
  BY DEF IsOctet
<1>6. IF IsNumber(scalerValue) THEN scalerValue[2] = e.scaler ELSE e.scaler = 0
  BY <1>3 DEF IsNumber
<1>7. (IF IsList(timeValue) /\ Len(timeValue[2]) = 2 THEN AsInt(timeValue[2][2]) ELSE <<>>)
        = IF e.time = Null THEN <<>> ELSE <<e.time[2]>>
  <2>1. CASE e.time = Null
    BY <1>3, <2>1
  <2>2. CASE e.time # Null
    <3>1. timeValue[1] = "list" /\ timeValue[2] = << <<"uint", 1>>, e.time>>
      BY <2>2
    <3>2. IsList(timeValue) /\ Len(timeValue[2]) = 2 /\ timeValue[2][2] = e.time
      BY <3>1 DEF IsList
    <3>3. AsInt(e.time) = <<e.time[2]>>
      BY <1>1, <1>2, <2>2 DEF AsInt
    <3> HIDE DEF timeValue
    <3> QED
      BY <2>2, <3>2, <3>3
  <2> QED
    BY <2>1, <2>2
<1>8. AsInt(e.status) = IF e.status = Null THEN <<>> ELSE <<e.status[2]>>
  BY <1>1, <1>2, <1>3 DEF AsInt
<1>9. (IF IsNumber(e.unit) THEN e.unit[2] ELSE 255) = IF e.unit = Null THEN 255 ELSE e.unit[2]
  BY <1>1, <1>2, <1>3
<1>10. v = <<"list", f>>
  BY DEF EntryValue
<1> HIDE DEF timeValue, scalerValue, codeValue, v
<1>11. /\ Len(f) = 7 /\ f[1] = codeValue /\ f[2] = e.status /\ f[3] = timeValue /\ f[4] = e.unit
       /\ f[5] = scalerValue /\ f[6] = e.value
  OBVIOUS
<1> HIDE DEF f
<1>12. v[1] = "list" /\ v[2] = f
  BY <1>10
<1>13. IsReading(v)
  <2>1. Len(codeValue[2]) \in {5, 6}
    BY <1>5
  <2>2. IsList(v) /\ Len(v[2]) >= 6
    <3>1. IsList(v) /\ Len(v[2]) = 7
      BY <1>11, <1>12, Zenon DEF IsList
    <3>2. 7 >= 6
      OBVIOUS
    <3> QED
      BY <3>1, <3>2, Zenon
  <2>3. v[2][1] = codeValue /\ v[2][6] = e.value
    BY <1>11, <1>12
  <2> QED
    BY <1>4, <1>5, <2>1, <2>2, <2>3, Zenon DEF IsReading
<1> DEFINE code == IF Len(e.code) = 5 THEN Append(e.code, 255) ELSE e.code
           status == IF e.status = Null THEN <<>> ELSE <<e.status[2]>>
           time == IF e.time = Null THEN <<>> ELSE <<e.time[2]>>
           unit == IF e.unit = Null THEN 255 ELSE e.unit[2]
<1>14. /\ (IF Len(v[2][1][2]) = 5 THEN Append(v[2][1][2], 255) ELSE v[2][1][2]) = code
       /\ AsInt(v[2][2]) = status
       /\ (IF IsNumber(v[2][4]) THEN v[2][4][2] ELSE 255) = unit
       /\ v[2][6] = e.value
  <2>1. /\ v[2][1][2] = e.code /\ v[2][2] = e.status /\ v[2][4] = e.unit /\ v[2][6] = e.value
    BY <1>5, <1>11, <1>12, Zenon
  <2>2. (IF IsNumber(v[2][4]) THEN v[2][4][2] ELSE 255) = unit
    BY <1>9, <2>1
  <2>3. (IF Len(v[2][1][2]) = 5 THEN Append(v[2][1][2], 255) ELSE v[2][1][2]) = code
    BY <2>1
  <2> HIDE DEF code, status, unit
  <2>4. AsInt(v[2][2]) = status
    BY <1>8, <2>1 DEF status
  <2> QED
    BY <2>1, <2>2, <2>3, <2>4, Zenon
<1>15. (IF IsList(v[2][3]) /\ Len(v[2][3][2]) = 2 THEN AsInt(v[2][3][2][2]) ELSE <<>>) = time
  BY <1>7, <1>11, <1>12, Zenon DEF timeValue
<1>16. (IF IsNumber(v[2][5]) THEN v[2][5][2] ELSE 0) = e.scaler
  BY <1>6, <1>11, <1>12
<1>17. ExpectedOf(e) = [code |-> code, status |-> status, time |-> time, unit |-> unit,
                        scaler |-> e.scaler, value |-> e.value]
  BY Zenon DEF ExpectedOf
<1> HIDE DEF code, status, time, unit
<1>18. EntryToObis(v) = [code |-> code, status |-> status, time |-> time, unit |-> unit,
                         scaler |-> e.scaler, value |-> e.value]
  BY <1>14, <1>15, <1>16, Zenon DEF EntryToObis
<1> QED
  BY <1>13, <1>17, <1>18, Zenon DEF v

\* What a message is decoded to.
ContentValue(r) ==
    <<Null, <<"octet", r.server>>, Null, Null, <<"list", [i \in 1..Len(r.entries) |-> EntryValue(r.entries[i])]>>,
      Null, Null>>
BodyValue(r) == <<"list", << <<"uint", 1793>>, <<"list", ContentValue(r)>> >> >>
MessageValue(r) ==
    <<"list", << <<"octet", <<0>> >>, <<"uint", 0>>, <<"uint", 0>>, BodyValue(r), <<"uint", 0>>, Null>> >>

LEMMA ReadingParts ==
    ASSUME NEW r \in MeterReadings
    PROVE  /\ r.server \in Bytes /\ r.entries \in Seq(ListEntries) /\ Len(r.entries) \in Nat
           /\ DOMAIN r.entries = 1..Len(r.entries)
           /\ \A i \in 1..Len(r.entries) : r.entries[i] \in ListEntries
<1>1. r.server \in Bytes /\ r.entries \in Seq(ListEntries)
  BY DEF MeterReadings, Bytes
<1> QED
  BY <1>1

LEMMA YieldsBody ==
    ASSUME NEW r \in MeterReadings, Readable(r)
    PROVE  Yields(BuildGetListRes(r), BodyValue(r))
<1> DEFINE n == Len(r.entries)
           encs == [i \in 1..n |-> BuildListEntry(r.entries[i])]
           vals == [i \in 1..n |-> EntryValue(r.entries[i])]
           S == {EntryValue(r.entries[i]) : i \in 1..n}
           entries == EncodeList(encs)
           server == EncodeOctet(r.server)
           zero == <<0>>
           code == EncodeUint(1793, 2)
           list == <<"list", vals>>
           name == <<"octet", r.server>>
           num == <<"uint", 1793>>
<1>1. n \in Nat /\ DOMAIN r.entries = 1..n /\ r.server \in Bytes /\ \A i \in 1..n : r.entries[i] \in ListEntries
  BY ReadingParts
<1>2. \A i \in 1..n : Yields(BuildListEntry(r.entries[i]), EntryValue(r.entries[i]))
  <2> SUFFICES ASSUME NEW i \in 1..n PROVE Yields(BuildListEntry(r.entries[i]), EntryValue(r.entries[i]))
    OBVIOUS
  <2> DEFINE e == r.entries[i]
  <2>1. e \in ListEntries /\ (e.status # Null => UintSize(e.status[2]) <= 8)
    BY <1>1 DEF Readable
  <2> HIDE DEF e
  <2>2. Yields(BuildListEntry(e), EntryValue(e))
    BY <2>1, YieldsEntry
  <2> QED
    BY <2>2 DEF e
<1>3. encs \in Seq(Bytes) /\ Len(encs) = n /\ vals \in Seq(S) /\ Len(vals) = n
  <2>1. \A i \in 1..n : BuildListEntry(r.entries[i]) \in Bytes
    BY <1>2 DEF Yields
  <2> QED
    BY <1>1, <2>1
<1>4. \A i \in 1..Len(encs) : Yields(encs[i], vals[i])
  BY <1>2, <1>3
<1>5. Yields(entries, list)
  <2> HIDE DEF encs, vals, S, n
  <2> QED
    BY <1>3, <1>4, YieldsList
<1>6. Yields(server, name)
  BY <1>1, YieldsOctet
<1>7. Yields(zero, Null)
  BY YieldsNull
<1>8. Yields(code, num)
  <2> DEFINE v == 1793
  <2>1. Power(256, 2) = 65536
    <3> DEFINE b == 256
    <3>1. b \in Nat /\ b * (b * 1) = 65536
      OBVIOUS
    <3> HIDE DEF b
    <3>2. Power(b, 0) = 1 /\ Power(b, 0 + 1) = b * Power(b, 0) /\ Power(b, 1 + 1) = b * Power(b, 1)
      BY <3>1, PowerEquation
    <3>3. 0 + 1 = 1 /\ 1 + 1 = 2
      OBVIOUS
    <3>4. Power(b, 2) = b * (b * 1)
      BY <3>2, <3>3
    <3> QED
      BY <3>1, <3>4 DEF b
  <2>2. v \in Nat /\ v < Power(256, 2) /\ 2 \in Nat
    BY <2>1
  <2> HIDE DEF v
  <2>3. Yields(EncodeUint(v, 2), <<"uint", v>>)
    BY <2>2, YieldsUint
  <2> QED
    BY <2>3 DEF v
<1>9. BuildGetListRes(r) = EncodeList(<<code, EncodeList(<<zero, server, zero, zero, entries, zero, zero>>)>>)
  BY <1>1 DEF BuildGetListRes
<1>10. ContentValue(r) = <<Null, name, Null, Null, list, Null, Null>>
  BY DEF ContentValue
<1>11. BodyValue(r) = <<"list", <<num, <<"list", <<Null, name, Null, Null, list, Null, Null>> >> >> >>
  BY <1>10 DEF BodyValue
<1> HIDE DEF server, entries, zero, code, list, name, num
<1>12. Yields(EncodeList(<<zero, server, zero, zero, entries, zero, zero>>),
              <<"list", <<Null, name, Null, Null, list, Null, Null>> >>)
  BY <1>5, <1>6, <1>7, ListOfSeven
<1> DEFINE content == EncodeList(<<zero, server, zero, zero, entries, zero, zero>>)
           value == <<"list", <<Null, name, Null, Null, list, Null, Null>> >>
<1> HIDE DEF content, value
<1>13. Yields(EncodeList(<<code, content>>), <<"list", <<num, value>> >>)
  <2>1. Yields(content, value)
    BY <1>12 DEF content, value
  <2> QED
    BY <1>8, <2>1, ListOfTwo
<1> QED
  BY <1>9, <1>11, <1>13 DEF content, value

LEMMA YieldsMessage ==
    ASSUME NEW r \in MeterReadings, Readable(r)
    PROVE  /\ Yields(BuildMessage(BuildGetListRes(r)), MessageValue(r))
           /\ BuildMessage(BuildGetListRes(r))[1] # 0
<1> DEFINE one == EncodeOctet(<<0>>)
           oneValue == <<"octet", <<0>> >>
           number == EncodeUint(0, 1)
           numberValue == <<"uint", 0>>
           zero == <<0>>
           body == BuildGetListRes(r)
           bodyValue == BodyValue(r)
           items == <<one, number, number, body, number, zero>>
           message == EncodeList(items)
<1>1. Yields(one, oneValue)
  <2>1. <<0>> \in Bytes
    BY DEF Bytes, Byte
  <2> QED
    BY <2>1, YieldsOctet
<1>2. Yields(number, numberValue)
  <2>1. 0 < Power(256, 1)
    BY PowerIsNat, PowerExceeds
  <2> QED
    BY <2>1, YieldsUint
<1>3. Yields(zero, Null)
  BY YieldsNull
<1>4. Yields(body, bodyValue)
  BY YieldsBody
<1>5. BuildMessage(body) = message
  BY DEF BuildMessage
<1>6. MessageValue(r) = <<"list", <<oneValue, numberValue, numberValue, bodyValue, numberValue, Null>> >>
  BY DEF MessageValue
<1>7. items \in Seq(Bytes) /\ Len(items) = 6
  <2>1. one \in Bytes /\ number \in Bytes /\ body \in Bytes /\ zero \in Bytes
    BY <1>1, <1>2, <1>3, <1>4 DEF Yields
  <2> HIDE DEF one, number, body, zero
  <2> QED
    BY <2>1
<1> HIDE DEF one, oneValue, number, numberValue, zero, body, bodyValue
<1>8. Yields(message, <<"list", <<oneValue, numberValue, numberValue, bodyValue, numberValue, Null>> >>)
  BY <1>1, <1>2, <1>3, <1>4, ListOfSix
<1> HIDE DEF items
<1>9. message[1] # 0
  <2> DEFINE tl == TL(TypeList, 6, 0)
             flat == FlattenSeq(items)
  <2>1. message = tl \o flat
    BY <1>7 DEF EncodeList
  <2>2. 6 \in Nat /\ TypeList \in Types /\ TypeList # TypeOctet /\ 0 \in {0, 1} /\ 1 \in Nat \ {0}
    BY DEF Types, TypeList, TypeOctet
  <2>3. message \in Bytes /\ tl \in Bytes /\ flat \in Bytes
    BY <1>7, <1>8, <2>2, FlatBytes, TLIsBytes DEF Yields
  <2> HIDE DEF tl, flat, message
  <2>4. At(message, 1, tl \o flat)
    BY <2>1, <2>3 DEF At, Bytes
  <2>5. At(message, 1, tl)
    BY <2>2, <2>3, <2>4, AtJoined
  <2>6. message[1] # 0
    BY <2>2, <2>3, <2>5, TLDecoded DEF tl
  <2> QED
    BY <2>6
<1> HIDE DEF message
<1>10. BuildMessage(BuildGetListRes(r)) = message
  BY <1>5 DEF body
<1> QED
  BY <1>6, <1>8, <1>9, <1>10

\* What a meter measures is what the decoder of the message built of it gives:
\* extract_results undoes build_get_list_res and build_message for every
\* reading, whatever its values and however many its entries are
\* (sml/builder.py:23-161, sml/parser.py:37-184).
THEOREM ReadingDecoded ==
    ASSUME NEW r \in MeterReadings, Readable(r)
    PROVE  ExtractResults(BuildMessage(BuildGetListRes(r))) = <<Expected(r)>>
<1> DEFINE payload == BuildMessage(BuildGetListRes(r))
           message == MessageValue(r)
           n == Len(r.entries)
           vals == [i \in 1..n |-> EntryValue(r.entries[i])]
           all == [i \in 1..n |-> ExpectedOf(r.entries[i])]
           content == ContentValue(r)
           shown(entry) == IF IsReading(entry) THEN <<EntryToObis(entry)>> ELSE <<>>
<1>1. n \in Nat /\ DOMAIN r.entries = 1..n /\ r.server \in Bytes /\ \A i \in 1..n : r.entries[i] \in ListEntries
  BY ReadingParts
<1>2. DecodeMessages(payload) = Decoded(<<"list", <<message>> >>, Len(payload) + 1)
  <2> HIDE DEF payload, message
  <2>1. Yields(payload, message) /\ payload[1] # 0
    BY YieldsMessage DEF payload, message
  <2> QED
    BY <2>1, OneMessage
<1>3. IsList(message) /\ Len(message[2]) = 6 /\ message[2][4] = BodyValue(r)
  BY DEF MessageValue, IsList
<1>4. IsList(BodyValue(r)) /\ Len(BodyValue(r)[2]) = 2 /\ BodyValue(r)[2][1] = <<"uint", 1793>>
      /\ BodyValue(r)[2][2] = <<"list", content>>
  BY DEF BodyValue, IsList
<1>5. IsList(<<"list", content>>) /\ <<"list", content>>[2] = content /\ Len(content) = 7
      /\ content[2] = <<"octet", r.server>> /\ content[5] = <<"list", vals>>
  BY DEF ContentValue, IsList
<1>6. IsNumber(<<"uint", 1793>>) /\ <<"uint", 1793>>[2] = 1793
      /\ IsOctet(<<"octet", r.server>>) /\ <<"octet", r.server>>[2] = r.server
      /\ IsList(<<"list", vals>>) /\ <<"list", vals>>[2] = vals
  BY DEF IsNumber, IsOctet, IsList
<1>7. DOMAIN vals = 1..n /\ \A i \in 1..n : shown(vals[i]) = <<all[i]>>
  <2> SUFFICES ASSUME NEW i \in 1..n PROVE shown(vals[i]) = <<all[i]>>
    OBVIOUS
  <2> DEFINE e == r.entries[i]
  <2>1. e \in ListEntries /\ Len(e.code) \in {5, 6}
    BY <1>1 DEF Readable
  <2> HIDE DEF e
  <2>2. IsReading(EntryValue(e)) /\ EntryToObis(EntryValue(e)) = ExpectedOf(e)
    BY <2>1, EntryRead
  <2>3. vals[i] = EntryValue(e) /\ all[i] = ExpectedOf(e)
    BY DEF e
  <2> HIDE DEF vals, all
  <2> QED
    BY <2>2, <2>3
<1>8. IsGetListRes(message)
  <2>1. 6 >= 4 /\ 7 >= 5
    OBVIOUS
  <2> HIDE DEF message, content
  <2> QED
    <3> DEFINE body == message[2][4][2]
    <3>1. IsList(message) /\ Len(message[2]) >= 4 /\ IsList(message[2][4]) /\ Len(body) = 2
      BY <1>3, <1>4, <2>1
    <3>2. IsNumber(body[1]) /\ body[1][2] = 1793
      BY <1>3, <1>4, <1>6
    <3>3. IsList(body[2]) /\ Len(body[2][2]) >= 5
      <4> DEFINE pair == <<"list", content>>
      <4>1. IsList(pair) /\ Len(pair[2]) = 7
        BY <1>5
      <4>2. body[2] = pair
        BY <1>3, <1>4
      <4> HIDE DEF pair, body
      <4> QED
        BY <2>1, <4>1, <4>2
    <3> QED
      BY <3>1, <3>2, <3>3 DEF IsGetListRes
<1>9. FlattenSeq([i \in 1..n |-> shown(vals[i])]) = all
  <2> DEFINE S == {all[i] : i \in 1..n}
  <2>1. all \in Seq(S) /\ Len(all) = n
    BY <1>1
  <2>2. [i \in 1..n |-> shown(vals[i])] = [i \in 1..n |-> <<all[i]>>]
    <3> HIDE DEF shown, vals, all
    <3> QED
      BY <1>7
  <2> HIDE DEF shown, vals, all, S
  <2>3. FlattenSeq([i \in 1..Len(all) |-> <<all[i]>>]) = all
    BY <2>1, FlatSingles
  <2> QED
    BY <2>1, <2>2, <2>3
<1>10. Extract(message) = [server |-> r.server, values |-> all]
  <2>1. message[2][4][2][2][2] = content
    BY <1>3, <1>4, <1>5
  <2>2. (IF IsOctet(content[2]) THEN content[2][2] ELSE <<>>) = r.server
    BY <1>5, <1>6
  <2>3. (IF IsList(content[5]) THEN content[5][2] ELSE <<>>) = vals
    BY <1>5, <1>6
  <2> HIDE DEF content, message, vals, all
  <2> DEFINE entries == IF IsList(content[5]) THEN content[5][2] ELSE <<>>
  <2>4. Extract(message) = [server |-> IF IsOctet(content[2]) THEN content[2][2] ELSE <<>>,
                            values |-> FlattenSeq([i \in DOMAIN entries |-> shown(entries[i])])]
    BY <2>1 DEF Extract
  <2>5. entries = vals
    BY <2>3
  <2> HIDE DEF entries, shown
  <2>6. [i \in DOMAIN entries |-> shown(entries[i])] = [i \in 1..n |-> shown(vals[i])]
    BY <1>7, <2>5
  <2> QED
    BY <1>9, <2>2, <2>4, <2>6
<1>11. Expected(r) = [server |-> r.server, values |-> all]
  <2>1. \A i \in 1..n : all[i] = ExpectedOf(r.entries[i])
    OBVIOUS
  <2> QED
    BY <1>1 DEF Expected, ExpectedOf
<1>12. ExtractResults(payload) = <<Extract(message)>>
  <2> DEFINE list == Decoded(<<"list", <<message>> >>, Len(payload) + 1)
             extracted(m) == IF IsGetListRes(m) THEN <<Extract(m)>> ELSE <<>>
             one == <<Extract(message)>>
  <2>1. list.ok /\ list.value[2] = <<message>>
    BY DEF Decoded
  <2>2. DOMAIN list.value[2] = 1..1 /\ list.value[2][1] = message
    BY <2>1
  <2>3. [i \in DOMAIN list.value[2] |-> extracted(list.value[2][i])] = [i \in 1..1 |-> <<one[i]>>]
    <3>1. extracted(message) = <<Extract(message)>> /\ one[1] = Extract(message)
      BY <1>8
    <3>2. \A i \in 1..1 : i = 1
      OBVIOUS
    <3> HIDE DEF list, one, extracted, message
    <3>3. \A i \in 1..1 : extracted(list.value[2][i]) = <<one[i]>>
      BY <2>2, <3>1, <3>2
    <3> QED
      BY <2>2, <3>3
  <2>4. one \in Seq({Extract(message)}) /\ Len(one) = 1
    OBVIOUS
  <2>5. FlattenSeq([i \in 1..Len(one) |-> <<one[i]>>]) = one
    <3> DEFINE S == {Extract(message)}
    <3> HIDE DEF one, S
    <3>1. one \in Seq(S)
      BY <2>4 DEF S
    <3> QED
      BY <3>1, FlatSingles
  <2>6. ExtractResults(payload)
          = IF list.ok THEN FlattenSeq([i \in DOMAIN list.value[2] |-> extracted(list.value[2][i])]) ELSE <<>>
    <3> HIDE DEF payload, message
    <3> QED
      BY <1>2 DEF ExtractResults
  <2> HIDE DEF list, one, extracted, payload, message
  <2>7. ExtractResults(payload) = FlattenSeq([i \in 1..Len(one) |-> <<one[i]>>])
    BY <2>1, <2>3, <2>4, <2>6
  <2> QED
    BY <2>5, <2>7 DEF one
<1> HIDE DEF payload, all, message
<1> QED
  BY <1>10, <1>11, <1>12 DEF payload

-----------------------------------------------------------------------------
(* The frame around the messages.                                          *)

\* f[i] is what becomes of s from i on.
Replaces(f, s, old, new) ==
    /\ f \in [1..(Len(s) + Len(old)) -> Bytes]
    /\ \A i \in 1..(Len(s) + Len(old)) :
          f[i] = IF i > Len(s) THEN <<>> ELSE IF At(s, i, old) THEN new \o f[i + Len(old)] ELSE <<s[i]>> \o f[i + 1]
    /\ Replace(s, old, new) = f[1]

LEMMA ReplaceEquation ==
    ASSUME NEW s \in Bytes, NEW old \in Bytes, NEW new \in Bytes, old # <<>>
    PROVE  \E f : Replaces(f, s, old, new)
<1> DEFINE n == Len(s)
           k == Len(old)
           D == 1..(Len(s) + Len(old))
           from[i \in 1..(Len(s) + Len(old))] ==
             IF i > Len(s) THEN <<>>
             ELSE IF At(s, i, old) THEN new \o from[i + Len(old)]
             ELSE <<s[i]>> \o from[i + 1]
           Stop == {i \in D : i > n}
           m == [i \in D |-> IF i > n THEN 0 ELSE n + 1 - i]
           next == [i \in D |-> IF i > n THEN i ELSE IF At(s, i, old) THEN i + k ELSE i + 1]
           base == [i \in D |-> <<>>]
           comb == [i \in D |-> [v \in Bytes |->
                      IF i > n THEN v ELSE IF At(s, i, old) THEN new \o v ELSE <<s[i]>> \o v]]
<1>0. n \in Nat /\ k \in Nat \ {0} /\ \A i \in 1..n : s[i] \in Byte
  BY DEF Bytes
<1>1. Recursive(D, Bytes, Stop, m, next, base, comb)
  <2>1. m \in [D -> Nat] /\ next \in [D -> D]
    BY <1>0
  <2>11. ASSUME NEW i \in D, i \notin Stop PROVE m[next[i]] < m[i]
    <3>1. i <= n /\ next[i] \in {i + k, i + 1} /\ next[i] \in D
      BY <1>0, <2>1, <2>11
    <3> HIDE DEF next, n, k
    <3>2. next[i] > i /\ m[i] = n + 1 - i /\ next[i] \in Int
      BY <1>0, <3>1
    <3> QED
      BY <1>0, <3>1, <3>2
  <2>2. base \in [D -> Bytes]
    BY DEF Bytes
  <2>3. comb \in [D -> [Bytes -> Bytes]]
    <3>1. \A i \in D, v \in Bytes : ~(i > n) => new \o v \in Bytes /\ <<s[i]>> \o v \in Bytes
      BY <1>0 DEF Bytes
    <3> QED
      BY <3>1
  <2> HIDE DEF m, next, base, comb, Stop, D
  <2> QED
    BY <2>1, <2>11, <2>2, <2>3 DEF Recursive
<1>2. \A i \in D : /\ base[i] = <<>> /\ (i \in Stop <=> i > n)
                   /\ ~(i > n) => next[i] \in D /\ next[i] = IF At(s, i, old) THEN i + k ELSE i + 1
                   /\ ~(i > n) => \A v \in Bytes : comb[i][v] = IF At(s, i, old) THEN new \o v ELSE <<s[i]>> \o v
  BY <1>0
<1> HIDE DEF m, next, base, comb, Stop
<1>3. PICK f : Solves(f, D, Bytes, Stop, next, base, comb)
  BY <1>1, RecursiveFunction
<1>4. f \in [D -> Bytes]
  BY <1>3 DEF Solves
<1>5. ASSUME NEW i \in D
      PROVE  f[i] = IF i > n THEN <<>> ELSE IF At(s, i, old) THEN new \o f[i + k] ELSE <<s[i]>> \o f[i + 1]
  <2>1. f[i] = IF i \in Stop THEN base[i] ELSE comb[i][f[next[i]]]
    BY <1>3 DEF Solves
  <2>2. CASE i > n
    BY <1>2, <2>1, <2>2
  <2>3. CASE ~(i > n)
    <3>1. f[next[i]] \in Bytes
      BY <1>2, <1>4, <2>3
    <3>2. f[i] = IF At(s, i, old) THEN new \o f[next[i]] ELSE <<s[i]>> \o f[next[i]]
      BY <1>2, <2>1, <2>3, <3>1
    <3> QED
      BY <1>2, <2>3, <3>2
  <2> QED
    BY <2>2, <2>3
<1>6. f = [i \in 1..(Len(s) + Len(old)) |->
             IF i > Len(s) THEN <<>>
             ELSE IF At(s, i, old) THEN new \o f[i + Len(old)]
             ELSE <<s[i]>> \o f[i + 1]]
  BY <1>4, <1>5
<1>7. from = [i \in 1..(Len(s) + Len(old)) |->
             IF i > Len(s) THEN <<>>
             ELSE IF At(s, i, old) THEN new \o from[i + Len(old)]
             ELSE <<s[i]>> \o from[i + 1]]
  BY <1>6, Zenon DEF from
<1>8. Replace(s, old, new) = from[1]
  BY DEF Replace, from
<1> HIDE DEF from
<1> DEFINE T == {d \in Nat : \A i \in D : n + k - i <= d => from[i] \in Bytes}
<1>9. \A d \in Nat : d \in T
  <2>1. 0 \in T
    <3> SUFFICES ASSUME NEW i \in D, n + k - i <= 0 PROVE from[i] \in Bytes
      OBVIOUS
    <3>1. from[i] = <<>>
      BY <1>0, <1>7
    <3>2. <<>> \in Bytes
      BY DEF Bytes
    <3> QED
      BY <3>1, <3>2, Zenon
  <2>2. ASSUME NEW d \in Nat, d \in T PROVE d + 1 \in T
    <3> SUFFICES ASSUME NEW i \in D, n + k - i <= d + 1 PROVE from[i] \in Bytes
      OBVIOUS
    <3>1. from[i] = IF i > n THEN <<>> ELSE IF At(s, i, old) THEN new \o from[i + k] ELSE <<s[i]>> \o from[i + 1]
      BY <1>7
    <3>2. ~(i > n) => from[i + k] \in Bytes /\ from[i + 1] \in Bytes /\ s[i] \in Byte
      BY <1>0, <2>2
    <3>3. ~(i > n) => new \o from[i + k] \in Bytes /\ <<s[i]>> \o from[i + 1] \in Bytes
      <4> HIDE DEF n, k, D
      <4> QED
        BY <3>2 DEF Bytes
    <3>4. <<>> \in Bytes
      BY DEF Bytes
    <3> QED
      BY <3>1, <3>3, <3>4, Zenon
  <2> HIDE DEF T
  <2> QED
    BY <2>1, <2>2, Induction
<1>10. from \in [D -> Bytes]
  <2>1. \A i \in D : from[i] \in Bytes
    <3> SUFFICES ASSUME NEW i \in D PROVE from[i] \in Bytes
      OBVIOUS
    <3> DEFINE d == n + k - i
    <3>1. d \in Nat /\ n + k - i <= d
      BY <1>0
    <3> HIDE DEF d
    <3>2. d \in T
      BY <1>9, <3>1
    <3> QED
      BY <3>1, <3>2
  <2> QED
    BY <1>7, <2>1
<1> QED
  BY <1>7, <1>8, <1>10 DEF Replaces

LEMMA ReplacedBytes ==
    ASSUME NEW s \in Bytes, NEW old \in Bytes, NEW new \in Bytes, old # <<>>
    PROVE  Replace(s, old, new) \in Bytes
<1>1. PICK f : Replaces(f, s, old, new)
  BY ReplaceEquation
<1>2. 1 \in 1..(Len(s) + Len(old))
  BY DEF Bytes
<1> QED
  BY <1>1, <1>2 DEF Replaces

LEMMA WordIs == \A c : c \in Word <=> c \in Int /\ 0 <= c /\ c <= 65535
<1> DEFINE n == 65535
<1>1. n \in Int /\ \A c \in Int : c <= 65535 <=> c <= n
  OBVIOUS
<1> HIDE DEF n
<1>2. \A c : c \in 0..n <=> c \in Int /\ 0 <= c /\ c <= n
  BY <1>1
<1>3. \A c : c \in 0..n <=> c \in Int /\ 0 <= c /\ c <= 65535
  BY <1>1, <1>2
<1>4. Word = 0..n
  BY DEF Word, n
<1> QED
  BY <1>3, <1>4

LEMMA XorOfWords == \A a, b \in Word : Xor(a, b) \in Word
<1>1. \A x, y \in 0..15 : XorNibble[x][y] \in 0..15
  <2> SUFFICES ASSUME NEW x \in 0..15, NEW y \in 0..15 PROVE XorNibble[x][y] \in 0..15
    OBVIOUS
  <2> DEFINE bit(w) == ((x \div w) + (y \div w)) % 2
  <2>1. XorNibble[x][y] = bit(1) * 1 + bit(2) * 2 + bit(4) * 4 + bit(8) * 8
    BY DEF XorNibble
  <2>2. \A z \in Int : z % 2 \in 0..1
    OBVIOUS
  <2>3. \A w \in {1, 2, 4, 8} : (x \div w) + (y \div w) \in Int
    OBVIOUS
  <2>4. bit(1) \in 0..1 /\ bit(2) \in 0..1 /\ bit(4) \in 0..1 /\ bit(8) \in 0..1
    BY <2>2, <2>3
  <2> HIDE DEF bit
  <2> QED
    BY <2>1, <2>4, SMTT(30)
<1> SUFFICES ASSUME NEW a \in Word, NEW b \in Word PROVE Xor(a, b) \in Word
  OBVIOUS
<1> DEFINE nibble(w) == XorNibble[(a \div w) % 16][(b \div w) % 16]
<1>2. Xor(a, b) = nibble(1) * 1 + nibble(16) * 16 + nibble(256) * 256 + nibble(4096) * 4096
  BY DEF Xor
<1>3. \A z \in Int : z % 16 \in 0..15
  OBVIOUS
<1>4. \A w \in {1, 16, 256, 4096} : a \div w \in Int /\ b \div w \in Int
  <2>1. a \in Int /\ b \in Int
    BY WordIs, SMTT(30)
  <2> QED
    BY <2>1
<1>5. \A w \in {1, 16, 256, 4096} : nibble(w) \in 0..15
  <2> SUFFICES ASSUME NEW w \in {1, 16, 256, 4096} PROVE nibble(w) \in 0..15
    OBVIOUS
  <2>1. (a \div w) % 16 \in 0..15 /\ (b \div w) % 16 \in 0..15
    BY <1>3, <1>4
  <2> QED
    BY <1>1, <2>1
<1>6. nibble(1) \in 0..15 /\ nibble(16) \in 0..15 /\ nibble(256) \in 0..15 /\ nibble(4096) \in 0..15
  BY <1>5
<1> HIDE DEF nibble
<1> DEFINE n1 == nibble(1)
           n2 == nibble(16)
           n3 == nibble(256)
           n4 == nibble(4096)
<1>8. Xor(a, b) = n1 * 1 + n2 * 16 + n3 * 256 + n4 * 4096
  BY <1>2
<1>9. n1 \in 0..15 /\ n2 \in 0..15 /\ n3 \in 0..15 /\ n4 \in 0..15
  BY <1>6
<1> HIDE DEF n1, n2, n3, n4
<1> DEFINE sum == n1 * 1 + n2 * 16 + n3 * 256 + n4 * 4096
<1>10. sum \in Int /\ 0 <= sum /\ sum <= 65535
  BY <1>9
<1> HIDE DEF sum
<1>11. sum \in Word
  BY <1>10, WordIs
<1> QED
  BY <1>8, <1>11 DEF sum

LEMMA HalvesOfWord ==
    ASSUME NEW c \in Word
    PROVE  c \div 2 \in Word /\ c \div 256 \in Word /\ c \div 256 \in Byte /\ c % 256 \in Byte
<1> DEFINE p == c \div 2
           q == c \div 256
<1>1. c \in Int /\ 0 <= c /\ c <= 65535
  BY WordIs
<1>2. p \in Int /\ 0 <= p /\ p <= 65535 /\ q \in Int /\ 0 <= q /\ q <= 255
  BY <1>1
<1>3. c % 256 \in Byte
  BY <1>1 DEF Byte
<1> HIDE DEF p, q
<1>4. p \in Word /\ q \in Word
  BY <1>2, WordIs
<1>5. q \in Byte
  BY <1>2 DEF Byte
<1> QED
  BY <1>3, <1>4, <1>5 DEF p, q

LEMMA CrcIsBytes == \A data \in Bytes : Crc16Sml(data) \in Bytes
<1> SUFFICES ASSUME NEW data \in Bytes PROVE Crc16Sml(data) \in Bytes
  OBVIOUS
<1>0. Len(data) \in Nat /\ \A i \in 1..Len(data) : data[i] \in Byte
  BY DEF Bytes
<1>1. \A c \in Word : Shift(c) \in Word
  <2>1. 33800 \in Word
    BY WordIs
  <2> QED
    BY <2>1, XorOfWords, HalvesOfWord DEF Shift
<1>2. \A b \in Byte : Table[b] \in Word
  <2> SUFFICES ASSUME NEW b \in Byte PROVE Table[b] \in Word
    OBVIOUS
  <2>1. b \in Word
    BY WordIs DEF Byte
  <2>2. Shift(Shift(Shift(Shift(Shift(Shift(Shift(Shift(b)))))))) \in Word
    BY <1>1, <2>1
  <2> QED
    BY <2>2 DEF Table, Byte
<1> DEFINE absorb == [crc \in Word |-> [byte \in Byte |-> Xor(crc \div 256, Table[Xor(crc, byte) % 256])]]
<1>3. ASSUME NEW crc \in Word, NEW byte \in Byte PROVE absorb[crc][byte] \in Word
  <2>1. byte \in Word
    BY WordIs DEF Byte
  <2>2. Xor(crc \div 256, Table[Xor(crc, byte) % 256]) \in Word
    BY <1>2, <2>1, HalvesOfWord, XorOfWords
  <2> QED
    BY <2>2
<1> DEFINE D == 0..Len(data)
           full == 65535
           register[n \in 0..Len(data)] == IF n = 0 THEN full ELSE absorb[register[n - 1]][data[n]]
           comb == [i \in D |-> [v \in Word |-> IF i = 0 THEN v ELSE absorb[v][data[i]]]]
<1>4. Crc16X25(data) = 65535 - register[Len(data)]
  BY DEF Crc16X25
<1>5. full \in Word
  BY WordIs
<1>6. comb \in [D -> [Word -> Word]] /\ \A i \in D, v \in Word : i # 0 => comb[i][v] = absorb[v][data[i]]
  <2> HIDE DEF absorb
  <2> QED
    BY <1>0, <1>3
<1> HIDE DEF comb, full
<1>7. Counted(D, Word, full, comb)
  BY <1>0, <1>5, <1>6 DEF Counted
<1>8. PICK f : SolvesCounted(f, D, Word, full, comb)
  BY <1>7, CountedRecursion
<1>9. f = [n \in 0..Len(data) |-> IF n = 0 THEN full ELSE absorb[f[n - 1]][data[n]]]
  <2> HIDE DEF absorb
  <2>1. f \in [D -> Word] /\ \A n \in D : f[n] = IF n = 0 THEN full ELSE comb[n][f[n - 1]]
    BY <1>8 DEF SolvesCounted
  <2>2. \A n \in D : n # 0 => f[n - 1] \in Word
    BY <1>0, <2>1, SMTT(30)
  <2>3. f = [n \in D |-> IF n = 0 THEN full ELSE absorb[f[n - 1]][data[n]]]
    BY <1>6, <2>1, <2>2
  <2> QED
    BY <2>3
<1>10. register = [n \in 0..Len(data) |-> IF n = 0 THEN full ELSE absorb[register[n - 1]][data[n]]]
  BY <1>9, ZenonT(60) DEF register
<1> HIDE DEF register
<1>11. register[0] = full /\ \A n \in 1..Len(data) : register[n] = absorb[register[n - 1]][data[n]]
  <2> HIDE DEF absorb
  <2> QED
    BY <1>0, <1>10
<1> HIDE DEF absorb
<1> DEFINE T == {i \in Nat : i <= Len(data) => register[i] \in Word}
<1>12. \A i \in Nat : i \in T
  <2>1. 0 \in T
    BY <1>5, <1>11
  <2>2. ASSUME NEW i \in Nat, i \in T PROVE i + 1 \in T
    <3> SUFFICES ASSUME i + 1 <= Len(data) PROVE register[i + 1] \in Word
      OBVIOUS
    <3>1. register[i + 1] = absorb[register[i]][data[i + 1]] /\ register[i] \in Word /\ data[i + 1] \in Byte
      BY <1>0, <1>11, <2>2
    <3> QED
      BY <1>3, <3>1
  <2> HIDE DEF T
  <2> QED
    BY <2>1, <2>2, Induction
<1> DEFINE crc == Crc16X25(data)
           last == register[Len(data)]
<1>13. last \in Int /\ 0 <= last /\ last <= 65535
  BY <1>0, <1>12, WordIs
<1> HIDE DEF last
<1>14. crc = 65535 - last
  BY <1>4 DEF last
<1> HIDE DEF crc
<1>15. crc \in Word
  BY <1>13, <1>14, WordIs
<1>16. Crc16Sml(data) = <<crc % 256, crc \div 256>>
  BY DEF Crc16Sml, crc
<1> QED
  BY <1>15, <1>16, HalvesOfWord DEF Bytes

\* Every frame is a string of bytes.
LEMMA BuiltFrame == \A message \in Bytes : BuildFrame(message) \in Bytes
<1> SUFFICES ASSUME NEW message \in Bytes PROVE BuildFrame(message) \in Bytes
  OBVIOUS
<1> DEFINE payload == DoubleEscapes(message)
           pad == (-Len(payload)) % 4
           zeros == [i \in 1..pad |-> 0]
           frame == Start \o payload \o zeros \o Escape \o <<EndMarker, pad>>
<1>1. /\ Start \in Bytes /\ Escape \in Bytes /\ Escape \o Escape \in Bytes /\ Escape # <<>>
  BY DEF Start, Escape, Bytes, Byte
<1>2. payload \in Bytes
  BY <1>1, ReplacedBytes DEF DoubleEscapes
<1>3. pad \in 0..3
  BY <1>2 DEF Bytes
<1>4. BuildFrame(message) = frame \o Crc16Sml(frame)
  BY DEF BuildFrame
<1> HIDE DEF payload, pad
<1>5. zeros \in Bytes /\ <<EndMarker, pad>> \in Bytes
  BY <1>3 DEF Bytes, Byte, EndMarker
<1> HIDE DEF zeros
<1>6. frame \in Bytes
  BY <1>1, <1>2, <1>5 DEF Bytes
<1> HIDE DEF frame
<1>7. Crc16Sml(frame) \in Bytes
  BY <1>6, CrcIsBytes
<1> QED
  BY <1>4, <1>6, <1>7 DEF Bytes

LEMMA FramesAreBytes == \A r \in Readings : FrameOf[r] \in Bytes
<1> SUFFICES ASSUME NEW r \in Readings PROVE FrameOf[r] \in Bytes
  OBVIOUS
<1>1. r \in MeterReadings
  BY StreamAssumption
<1> QED
  BY <1>1, BuiltMessage, BuiltFrame DEF FrameOf, BuildMeterFrame

-----------------------------------------------------------------------------
(* The specification.                                                      *)

LEMMA FindLastIs ==
    ASSUME NEW buf \in Bytes
    PROVE  \/ FindLast(buf, Escape) = 0 /\ \A p \in 1..Len(buf) : ~At(buf, p, Escape)
           \/ /\ FindLast(buf, Escape) \in 1..Len(buf) /\ At(buf, FindLast(buf, Escape), Escape)
              /\ \A p \in 1..Len(buf) : At(buf, p, Escape) => p <= FindLast(buf, Escape)
<1> DEFINE S == Places(buf, Escape, 1)
           n == Len(buf)
<1>0. n \in Nat
  BY DEF Bytes
<1>1. \A p : p \in S <=> p \in 1..n /\ At(buf, p, Escape)
  BY DEF Places
<1>2. FindLast(buf, Escape) = IF S = {} THEN 0 ELSE Max(S)
  BY DEF FindLast
<1> HIDE DEF S, n
<1>3. CASE S = {}
  BY <1>1, <1>2, <1>3 DEF n
<1>4. CASE S # {}
  <2>1. S \in SUBSET (0..n)
    BY <1>0, <1>1
  <2>2. Max(S) \in S /\ \A p \in S : Max(S) >= p
    BY <1>0, <1>4, <2>1, LargestOf
  <2>3. \A p \in S : p \in Int
    BY <1>0, <1>1
  <2> QED
    BY <1>1, <1>2, <1>4, <2>2, <2>3 DEF n
<1> QED
  BY <1>3, <1>4

\* What feed keeps is the end of the buffer from its last escape on, or nothing.
LEMMA TrimLeaves ==
    ASSUME NEW buf \in Bytes
    PROVE  \/ Trim(buf) = buf /\ Len(buf) <= MaxBuffer
           \/ Trim(buf) = <<>>
           \/ \E keep \in 2..Len(buf) :
                 /\ Trim(buf) = From(buf, keep) /\ At(buf, keep, Escape)
                 /\ \A p \in 1..Len(buf) : At(buf, p, Escape) => p <= keep
<1> DEFINE keep == FindLast(buf, Escape)
<1>1. Trim(buf) = IF Len(buf) <= MaxBuffer THEN buf ELSE IF keep > 1 THEN From(buf, keep) ELSE <<>>
  BY DEF Trim
<1>2. \/ keep = 0
      \/ /\ keep \in 1..Len(buf) /\ At(buf, keep, Escape)
         /\ \A p \in 1..Len(buf) : At(buf, p, Escape) => p <= keep
  BY FindLastIs
<1> HIDE DEF keep
<1>3. Len(buf) \in Nat
  BY DEF Bytes
<1>4. keep > 1 => keep \in 2..Len(buf)
  BY <1>2, <1>3
<1> QED
  BY <1>1, <1>2, <1>4

LEMMA TrimType ==
    ASSUME NEW buf \in Bytes
    PROVE  Trim(buf) \in Bytes
<1>1. <<>> \in Bytes
  BY DEF Bytes
<1>2. ASSUME NEW keep \in 2..Len(buf) PROVE From(buf, keep) \in Bytes
  <2>1. keep \in 1..(Len(buf) + 1)
    BY DEF Bytes
  <2> QED
    BY <2>1, FromType
<1> QED
  BY <1>1, <1>2, TrimLeaves

\* The next bytes of the line, and the others.
LEMMA ChunkOf ==
    ASSUME NEW s \in Bytes, NEW n \in Nat \ {0}, s # <<>>
    PROVE  LET size == IF n <= Len(s) THEN n ELSE Len(s)
           IN  /\ size \in 1..Len(s) /\ size <= n
               /\ SubSeq(s, 1, size) \in Bytes /\ Len(SubSeq(s, 1, size)) = size
               /\ From(s, size + 1) \in Bytes
<1> DEFINE size == IF n <= Len(s) THEN n ELSE Len(s)
<1>0. Len(s) \in Nat \ {0}
  BY DEF Bytes
<1>1. size \in 1..Len(s) /\ size <= n
  BY <1>0
<1> HIDE DEF size
<1>2. SubSeq(s, 1, size) \in Bytes /\ Len(SubSeq(s, 1, size)) = size
  BY <1>0, <1>1 DEF Bytes
<1>3. size + 1 \in 1..(Len(s) + 1)
  BY <1>0, <1>1
<1>4. From(s, size + 1) \in Bytes
  BY <1>3, FromType
<1> QED
  BY <1>1, <1>2, <1>4 DEF size

LEMMA TakeType ==
    ASSUME NEW buf \in Bytes, NEW check
    PROVE  TakeFrames(buf, check).buffer \in Bytes
BY TakeTurns

\* Every variable keeps its type (sml/parser.py:191-240).
THEOREM StreamTyping == Spec => []StreamTypeOK
<1> USE DEF StreamTypeOK, Bytes
<1>1. Init => StreamTypeOK
  <2>1. 0 \in 0..MaxSegments
    BY StreamAssumption
  <2>2. \A S : <<>> \in Seq(S)
    OBVIOUS
  <2> QED
    BY <2>1, <2>2, Zenon DEF Init
<1>2. ASSUME StreamTypeOK, [Next]_vars PROVE StreamTypeOK'
  <2>1. ASSUME NEW bytes \in Bytes, Send(bytes)
        PROVE  /\ verify' \in BOOLEAN /\ {line', read', buffer'} \subseteq Bytes
               /\ segments' \in 0..MaxSegments /\ trimmed' \in BOOLEAN
    BY <1>2, <2>1, StreamAssumption DEF Send, Sending
  <2>2. ASSUME NEW r \in Readings, SendWhole(r) PROVE StreamTypeOK'
    <3>1. FrameOf[r] \in Bytes /\ Send(FrameOf[r])
      BY <2>2, FramesAreBytes DEF SendWhole
    <3>2. /\ sent' = Append(sent, [result |-> Expected(r), clear |-> ~hidden])
          /\ open' = FALSE /\ hidden' = FALSE
      BY <2>2 DEF SendWhole
    <3>3. Expected(r) \in Results
      BY DEF Results
    <3>4. sent' \in Seq([result : Results, clear : BOOLEAN])
      <4>1. [result |-> Expected(r), clear |-> ~hidden] \in [result : Results, clear : BOOLEAN]
        BY <1>2, <3>3
      <4> QED
        BY <1>2, <3>2, <4>1
    <3> QED
      BY <2>1, <3>1, <3>2, <3>4
  <2>3. ASSUME NEW r \in CutReadings, NEW n \in CutLengths, SendCut(r, n) PROVE StreamTypeOK'
    <3> DEFINE frame == FrameOf[r]
               inEndBlock == n >= Len(frame) - 3
    <3>1. /\ n \in 1..(Len(frame) - 1) /\ Send(SubSeq(frame, 1, n))
          /\ open' = (open \/ n >= Len(Start))
          /\ hidden' = (hidden \/ inEndBlock \/ (open' /\ frame[n] = Escape[1]))
          /\ sent' = IF inEndBlock THEN Append(sent, [result |-> Expected(r), clear |-> FALSE]) ELSE sent
      BY <2>3 DEF SendCut
    <3>2. r \in Readings /\ frame \in Bytes
      BY StreamAssumption, FramesAreBytes
    <3>3. Expected(r) \in Results
      BY <3>2 DEF Results
    <3> HIDE DEF frame, inEndBlock
    <3>4. SubSeq(frame, 1, n) \in Bytes
      BY <3>1, <3>2
    <3>5. sent' \in Seq([result : Results, clear : BOOLEAN])
      <4>1. [result |-> Expected(r), clear |-> FALSE] \in [result : Results, clear : BOOLEAN]
        BY <3>3
      <4>2. sent \in Seq([result : Results, clear : BOOLEAN])
        BY <1>2
      <4>3. Append(sent, [result |-> Expected(r), clear |-> FALSE]) \in Seq([result : Results, clear : BOOLEAN])
        BY <4>1, <4>2
      <4> QED
        BY <3>1, <4>2, <4>3, Zenon
    <3>6. open' \in BOOLEAN /\ hidden' \in BOOLEAN
      BY <1>2, <3>1 DEF inEndBlock
    <3> QED
      BY <2>1, <3>1, <3>4, <3>5, <3>6
  <2>4. ASSUME NEW noise \in Noises \cup {Flood}, SendNoise(noise) PROVE StreamTypeOK'
    <3>1. noise \in Bytes
      BY StreamAssumption
    <3> QED
      BY <1>2, <2>1, <2>4, <3>1 DEF SendNoise
  <2>5. ASSUME NEW n \in ChunkSizes, Feed(n) PROVE StreamTypeOK'
    <3> DEFINE size == IF n <= Len(line) THEN n ELSE Len(line)
               chunk == SubSeq(line, 1, size)
               taken == TakeFrames(buffer \o chunk, verify)
    <3>1. n \in Nat \ {0} /\ line \in Bytes /\ line # <<>>
      BY <1>2, <2>5, StreamAssumption DEF Feed
    <3>2. chunk \in Bytes /\ From(line, size + 1) \in Bytes
      BY <3>1, ChunkOf
    <3>3. /\ line' = From(line, size + 1) /\ read' = read \o chunk /\ buffer' = Trim(taken.buffer)
          /\ trimmed' = (trimmed \/ buffer' # taken.buffer)
          /\ UNCHANGED <<verify, segments, sent, open, hidden>>
      BY <2>5 DEF Feed, Keep
    <3> HIDE DEF chunk, size
    <3>4. buffer \o chunk \in Bytes /\ read \o chunk \in Bytes
      BY <1>2, <3>2
    <3>5. Trim(taken.buffer) \in Bytes
      BY <3>4, TakeType, TrimType
    <3> HIDE DEF taken
    <3> QED
      BY <1>2, <3>2, <3>3, <3>4, <3>5
  <2>6. CASE UNCHANGED vars
    BY <1>2, <2>6 DEF vars, sending
  <2> QED
    BY <1>2, <2>2, <2>3, <2>4, <2>5, <2>6 DEF Next
<1> QED
  BY <1>1, <1>2, PTL DEF Spec

-----------------------------------------------------------------------------
(* Chunks.                                                                 *)

\* As long as nothing was cut off, the buffer and the results are those of one
\* chunk with all bytes read so far.
ChunkInv ==
    ~trimmed => /\ buffer = TakeFrames(read, verify).buffer
                /\ results = TakeFrames(read, verify).results

\* The parser reports the same whatever chunks the bytes come in, for every
\* content of the line (sml/parser.py:211-240).
THEOREM ChunksDoNotShow == Spec => []ChunkingInvisible
<1>1. Init => ChunkInv
  <2>1. <<>> \in Bytes /\ Len(<<>>) = 0
    BY DEF Bytes
  <2>2. \A check : Find(<<>>, Start, 1) = 0
    BY <2>1, FindFirst
  <2>3. \A check : ScanOne(<<>>, check) = Wait(<<>>)
    BY <2>2 DEF ScanOne
  <2>4. ASSUME NEW check
        PROVE  TakeFrames(<<>>, check).buffer = <<>> /\ TakeFrames(<<>>, check).results = <<>>
    <3>1. TakeFrames(<<>>, check) = TakeTurn(<<>>, check)
      BY <2>1, TakeTurns
    <3> QED
      BY <2>3, <3>1 DEF TakeTurn, Taken, Wait
  <2> QED
    BY <2>4 DEF Init, ChunkInv
<1>2. ASSUME StreamTypeOK, ChunkInv, [Next]_vars PROVE ChunkInv'
  <2>1. CASE UNCHANGED <<verify, read, buffer, results, trimmed>>
    BY <1>2, <2>1 DEF ChunkInv
  <2>2. ASSUME NEW n \in ChunkSizes, Feed(n) PROVE ChunkInv'
    <3> DEFINE size == IF n <= Len(line) THEN n ELSE Len(line)
               chunk == SubSeq(line, 1, size)
               taken == TakeFrames(buffer \o chunk, verify)
    <3> SUFFICES ASSUME ~trimmed'
                 PROVE  /\ buffer' = TakeFrames(read', verify').buffer
                        /\ results' = TakeFrames(read', verify').results
      BY DEF ChunkInv
    <3>1. n \in Nat \ {0} /\ line \in Bytes /\ line # <<>> /\ read \in Bytes
      BY <1>2, <2>2, StreamAssumption DEF Feed, StreamTypeOK, Bytes
    <3>2. chunk \in Bytes
      BY <3>1, ChunkOf
    <3>3. /\ read' = read \o chunk /\ results' = results \o taken.results
          /\ trimmed' = (trimmed \/ buffer' # taken.buffer) /\ verify' = verify
      BY <2>2 DEF Feed, Keep
    <3> HIDE DEF chunk, size
    <3>4. ~trimmed /\ buffer' = taken.buffer
      BY <3>3
    <3>5. buffer = TakeFrames(read, verify).buffer /\ results = TakeFrames(read, verify).results
      BY <1>2, <3>4 DEF ChunkInv
    <3>6. /\ TakeFrames(read \o chunk, verify).buffer = taken.buffer
          /\ TakeFrames(read \o chunk, verify).results = TakeFrames(read, verify).results \o taken.results
      <4> DEFINE first == TakeFrames(read, verify)
                 all == TakeFrames(read \o chunk, verify)
                 second == TakeFrames(first.buffer \o chunk, verify)
      <4>1. all.buffer = second.buffer /\ all.results = first.results \o second.results
        BY <3>1, <3>2, TakeLonger, ZenonT(60)
      <4>2. taken = second
        BY <3>5 DEF taken
      <4> QED
        BY <4>1, <4>2
    <3> QED
      BY <3>3, <3>4, <3>5, <3>6
  <2>3. ASSUME NEW bytes, Send(bytes) PROVE UNCHANGED <<verify, read, buffer, results, trimmed>>
    BY <2>3 DEF Send
  <2> QED
    BY <1>2, <2>1, <2>2, <2>3 DEF Next, SendWhole, SendCut, SendNoise, vars
<1>3. ChunkInv => ChunkingInvisible
  BY DEF ChunkInv, ChunkingInvisible, AllRead
<1> QED
  BY <1>1, <1>2, <1>3, StreamTyping, PTL DEF Spec

-----------------------------------------------------------------------------
(* The limit of the buffer.                                                *)

\* No escape begins after the first byte.
NoEscapeWithin(buf) == \A p \in 2..Len(buf) : ~At(buf, p, Escape)

\* A buffer that was cut back and is still too long holds one escape, at its
\* beginning: bytes that only follow it cannot make it grow beyond the next feed.
BoundInv ==
    \A n \in ChunkSizes : (\A k \in ChunkSizes : k <= n) =>
        \/ Len(buffer) <= MaxBuffer
        \/ Len(buffer) <= MaxBuffer + n /\ NoEscapeWithin(buffer)

\* An escape that ends behind buf begins at most three bytes before that end.
LEMMA NewEscape ==
    ASSUME NEW buf \in Bytes, NEW chunk \in Bytes, NoEscapeWithin(buf),
           NEW p \in 2..Len(buf \o chunk), At(buf \o chunk, p, Escape)
    PROVE  p >= Len(buf) - 2
<1> SUFFICES ASSUME p + 3 <= Len(buf) PROVE FALSE
  BY Longer
<1>1. At(buf, p, Escape)
  <2>1. p \in Nat \ {0} /\ p + Len(Escape) - 1 <= Len(buf)
    BY Patterns, Longer
  <2> QED
    BY <2>1, AtLonger, Patterns
<1>2. p \in 2..Len(buf)
  BY Longer
<1> QED
  BY <1>1, <1>2 DEF NoEscapeWithin

LEMMA FeedBound ==
    ASSUME NEW buf \in Bytes, NEW chunk \in Bytes, NEW n \in Nat, NEW check, MaxBuffer >= 3,
           Len(chunk) <= n,
           Len(buf) <= MaxBuffer \/ (Len(buf) <= MaxBuffer + n /\ NoEscapeWithin(buf))
    PROVE  LET left == Trim(TakeFrames(buf \o chunk, check).buffer) IN
           \/ Len(left) <= MaxBuffer
           \/ Len(left) <= MaxBuffer + n /\ NoEscapeWithin(left)
<1> DEFINE all == buf \o chunk
           t == TakeFrames(all, check).buffer
           left == Trim(t)
<1>0. MaxBuffer \in Nat
  BY StreamAssumption
<1>1. all \in Bytes /\ Len(all) = Len(buf) + Len(chunk) /\ Len(buf) \in Nat /\ Len(chunk) \in Nat
  BY Longer
<1>2. PICK k \in 1..(Len(all) + 1) : t = From(all, k)
  BY <1>1, TakeLeaves
<1> HIDE DEF all, t
<1>3. t \in Bytes /\ Len(t) = Len(all) - k + 1
  BY <1>1, <1>2, FromType
<1>4. left = t /\ Len(t) <= MaxBuffer => Len(left) <= MaxBuffer
  OBVIOUS
<1>5. left = <<>> => Len(left) <= MaxBuffer
  BY <1>0
<1>6. ASSUME NEW keep \in 2..Len(t), left = From(t, keep), At(t, keep, Escape),
             \A p \in 1..Len(t) : At(t, p, Escape) => p <= keep
      PROVE  Len(left) <= MaxBuffer + n /\ NoEscapeWithin(left)
  <2>1. keep \in 1..(Len(t) + 1) /\ Len(t) \in Nat
    BY <1>1, <1>3
  <2>2. left \in Bytes /\ Len(left) = Len(t) - keep + 1
    BY <1>3, <1>6, <2>1, FromType
  <2>3. NoEscapeWithin(left)
    <3> SUFFICES ASSUME NEW p \in 2..Len(left), At(left, p, Escape) PROVE FALSE
      BY DEF NoEscapeWithin
    <3>1. p \in Nat \ {0} /\ keep + p - 1 \in 1..Len(t) /\ keep + p - 1 > keep
      BY <2>1, <2>2
    <3>2. At(t, keep + p - 1, Escape)
      BY <1>3, <1>6, <2>1, <3>1, AtFrom, Patterns
    <3> QED
      BY <1>6, <2>1, <3>1, <3>2
  <2>4. Len(left) <= MaxBuffer + n
    <3>1. CASE Len(buf) <= MaxBuffer
      BY <1>0, <1>1, <1>3, <2>2, <3>1
    <3>2. CASE NoEscapeWithin(buf)
      <4> DEFINE q == k + keep - 1
      <4>1. q \in 2..Len(all) /\ keep \in Nat \ {0}
        BY <1>1, <1>3
      <4>2. At(all, q, Escape)
        BY <1>1, <1>2, <1>6, <4>1, AtFrom, Patterns
      <4>3. q >= Len(buf) - 2
        BY <3>2, <4>1, <4>2, NewEscape DEF all
      <4>4. Len(left) = Len(buf) + Len(chunk) - q + 1
        BY <1>1, <1>3, <2>2
      <4> HIDE DEF q
      <4> QED
        BY <1>0, <1>1, <4>1, <4>3, <4>4
    <3> QED
      BY <3>1, <3>2
  <2> QED
    BY <2>3, <2>4
<1>7. \/ Len(left) <= MaxBuffer
      \/ Len(left) <= MaxBuffer + n /\ NoEscapeWithin(left)
  BY <1>3, <1>4, <1>5, <1>6, TrimLeaves, Zenon
<1> QED
  BY <1>7, Zenon DEF t, all

\* The buffer never exceeds its limit by more than the largest chunk, whatever
\* comes, if an escape all but its last byte fits into it (sml/parser.py:236-240).
THEOREM BufferStaysBounded ==
    ASSUME MaxBuffer >= 3
    PROVE  Spec => []BufferBounded
<1>0. MaxBuffer \in Nat /\ ChunkSizes \subseteq Nat \ {0}
  BY StreamAssumption
<1>1. Init => BoundInv
  BY <1>0 DEF Init, BoundInv
<1>2. ASSUME StreamTypeOK, BoundInv, [Next]_vars PROVE BoundInv'
  <2>1. CASE UNCHANGED buffer
    BY <1>2, <2>1 DEF BoundInv
  <2>2. ASSUME NEW m \in ChunkSizes, Feed(m) PROVE BoundInv'
    <3> SUFFICES ASSUME NEW n \in ChunkSizes, \A k \in ChunkSizes : k <= n
                 PROVE  \/ Len(buffer') <= MaxBuffer
                        \/ Len(buffer') <= MaxBuffer + n /\ NoEscapeWithin(buffer')
      BY DEF BoundInv
    <3> DEFINE size == IF m <= Len(line) THEN m ELSE Len(line)
               chunk == SubSeq(line, 1, size)
    <3>1. m \in Nat \ {0} /\ n \in Nat /\ line \in Bytes /\ line # <<>> /\ buffer \in Bytes
      BY <1>0, <1>2, <2>2 DEF Feed, StreamTypeOK, Bytes
    <3>2. chunk \in Bytes /\ Len(chunk) = size /\ size \in Nat /\ size <= m
      BY <3>1, ChunkOf
    <3>3. buffer' = Trim(TakeFrames(buffer \o chunk, verify).buffer)
      BY <2>2 DEF Feed, Keep
    <3> HIDE DEF chunk, size
    <3>4. m <= n
      OBVIOUS
    <3>5. Len(chunk) <= n
      BY <3>1, <3>2, <3>4
    <3>6. Len(buffer) <= MaxBuffer \/ (Len(buffer) <= MaxBuffer + n /\ NoEscapeWithin(buffer))
      BY <1>2, Zenon DEF BoundInv
    <3> QED
      BY <3>1, <3>2, <3>3, <3>5, <3>6, FeedBound
  <2>3. ASSUME NEW bytes, Send(bytes) PROVE UNCHANGED buffer
    BY <2>3 DEF Send
  <2> QED
    BY <1>2, <2>1, <2>2, <2>3 DEF Next, SendWhole, SendCut, SendNoise, vars
<1>3. StreamTypeOK /\ BoundInv => BufferBounded
  <2> SUFFICES ASSUME StreamTypeOK, BoundInv, NEW n \in ChunkSizes, \A k \in ChunkSizes : k <= n
               PROVE  Len(buffer) <= MaxBuffer + n
    BY DEF BufferBounded
  <2>1. Len(buffer) \in Nat /\ n \in Nat
    BY <1>0 DEF StreamTypeOK
  <2> QED
    BY <1>0, <2>1 DEF BoundInv
<1> QED
  BY <1>1, <1>2, <1>3, StreamTyping, PTL DEF Spec

-----------------------------------------------------------------------------
(* A frame is read back: what is doubled is passed over and undone.        *)

LEMMA PatternBytes ==
    /\ DOMAIN Escape = 1..4 /\ DOMAIN Start = 1..8 /\ DOMAIN (Escape \o Escape) = 1..8
    /\ \A k \in 1..4 : Escape[k] = 27
    /\ \A k \in 1..8 : (Escape \o Escape)[k] = 27
    /\ \A k \in 1..4 : Start[k] = 27
    /\ \A k \in 5..8 : Start[k] = 1
<1>1. DOMAIN Escape = 1..4 /\ DOMAIN Start = 1..8 /\ DOMAIN (Escape \o Escape) = 1..8
  BY Patterns DEF Bytes
<1>2. Escape[1] = 27 /\ Escape[2] = 27 /\ Escape[3] = 27 /\ Escape[4] = 27
  BY DEF Escape
<1>3. \A k \in 1..4 : Escape[k] = 27
  BY <1>2
<1>4. /\ (Escape \o Escape)[1] = 27 /\ (Escape \o Escape)[2] = 27
      /\ (Escape \o Escape)[3] = 27 /\ (Escape \o Escape)[4] = 27
      /\ (Escape \o Escape)[5] = 27 /\ (Escape \o Escape)[6] = 27
      /\ (Escape \o Escape)[7] = 27 /\ (Escape \o Escape)[8] = 27
  BY DEF Escape
<1>5. Start[1] = 27 /\ Start[2] = 27 /\ Start[3] = 27 /\ Start[4] = 27
  BY DEF Escape, Start
<1>6. Start[5] = 1 /\ Start[6] = 1 /\ Start[7] = 1 /\ Start[8] = 1
  BY DEF Escape, Start
<1>7. \A k \in 1..8 : (Escape \o Escape)[k] = 27
  <2> DEFINE ee == Escape \o Escape
  <2>1. ee[1] = 27 /\ ee[2] = 27 /\ ee[3] = 27 /\ ee[4] = 27 /\ ee[5] = 27 /\ ee[6] = 27 /\ ee[7] = 27 /\ ee[8] = 27
    BY <1>4
  <2> HIDE DEF ee
  <2>2. \A k \in 1..8 : ee[k] = 27
    BY <2>1
  <2> QED
    BY <2>2 DEF ee
<1>8. (\A k \in 1..4 : Start[k] = 27) /\ \A k \in 5..8 : Start[k] = 1
  BY <1>5, <1>6
<1> QED
  BY <1>1, <1>3, <1>7, <1>8

\* Where the patterns are.
LEMMA PatternAt ==
    ASSUME NEW s \in Bytes, NEW p \in Nat \ {0}
    PROVE  /\ At(s, p, Escape) <=> p + 3 <= Len(s) /\ \A k \in 1..4 : s[p + k - 1] = 27
           /\ At(s, p, Escape \o Escape) <=> p + 7 <= Len(s) /\ \A k \in 1..8 : s[p + k - 1] = 27
           /\ At(s, p, Start) <=> /\ p + 7 <= Len(s)
                                  /\ \A k \in 1..4 : s[p + k - 1] = 27
                                  /\ \A k \in 5..8 : s[p + k - 1] = 1
<1>0. Len(s) \in Nat
  BY DEF Bytes
<1>1. At(s, p, Escape) <=> p + 3 <= Len(s) /\ \A k \in 1..4 : s[p + k - 1] = 27
  <2>1. At(s, p, Escape) <=> p + 4 - 1 <= Len(s) /\ \A k \in 1..4 : s[p + k - 1] = Escape[k]
    BY Patterns, PatternBytes DEF At
  <2> QED
    BY <1>0, <2>1, PatternBytes
<1>2. At(s, p, Escape \o Escape) <=> p + 7 <= Len(s) /\ \A k \in 1..8 : s[p + k - 1] = 27
  <2>1. At(s, p, Escape \o Escape) <=> p + 8 - 1 <= Len(s) /\ \A k \in 1..8 : s[p + k - 1] = (Escape \o Escape)[k]
    BY Patterns, PatternBytes DEF At
  <2>2. p + 8 - 1 = p + 7
    OBVIOUS
  <2> QED
    BY <2>1, <2>2, PatternBytes, Zenon
<1>3. At(s, p, Start) <=> /\ p + 7 <= Len(s)
                          /\ \A k \in 1..4 : s[p + k - 1] = 27
                          /\ \A k \in 5..8 : s[p + k - 1] = 1
  <2>1. At(s, p, Start) <=> p + 8 - 1 <= Len(s) /\ \A k \in 1..8 : s[p + k - 1] = Start[k]
    BY Patterns, PatternBytes DEF At
  <2>2. \A k \in Int : k \in 1..8 <=> k \in 1..4 \/ k \in 5..8
    OBVIOUS
  <2>3. (\A k \in 1..8 : s[p + k - 1] = Start[k])
        <=> (\A k \in 1..4 : s[p + k - 1] = 27) /\ (\A k \in 5..8 : s[p + k - 1] = 1)
    BY <2>2, PatternBytes
  <2>4. p + 8 - 1 = p + 7
    OBVIOUS
  <2> QED
    BY <2>1, <2>3, <2>4, Zenon
<1> QED
  BY <1>1, <1>2, <1>3

LEMMA AtBehind ==
    ASSUME NEW s \in Bytes, NEW t \in Bytes, NEW pattern \in Bytes, NEW p \in Nat \ {0}
    PROVE  At(s \o t, Len(s) + p, pattern) <=> At(t, p, pattern)
<1> DEFINE n == Len(s)
           u == s \o t
<1>0. n \in Nat /\ Len(pattern) \in Nat /\ DOMAIN pattern = 1..Len(pattern) /\ Len(t) \in Nat
  BY DEF Bytes
<1>1. Len(u) = n + Len(t) /\ \A k \in (n + 1)..(n + Len(t)) : u[k] = t[k - n]
  BY Longer
<1> HIDE DEF n, u
<1>2. n + p + Len(pattern) - 1 <= Len(u) <=> p + Len(pattern) - 1 <= Len(t)
  BY <1>0, <1>1
<1>3. ASSUME p + Len(pattern) - 1 <= Len(t), NEW k \in 1..Len(pattern)
      PROVE  u[n + p + k - 1] = t[p + k - 1]
  <2>1. n + p + k - 1 \in (n + 1)..(n + Len(t)) /\ (n + p + k - 1) - n = p + k - 1
    BY <1>0, <1>3
  <2> QED
    BY <1>1, <2>1
<1>4. At(u, n + p, pattern) <=> At(t, p, pattern)
  BY <1>0, <1>2, <1>3 DEF At
<1> QED
  BY <1>4 DEF n, u

LEMMA FindNext ==
    ASSUME NEW s \in Bytes, NEW pattern, NEW i \in Nat \ {0}, ~At(s, i, pattern)
    PROVE  Find(s, pattern, i) = Find(s, pattern, i + 1)
<1>1. Len(s) \in Nat
  BY DEF Bytes
<1>2. \A p : p \in i..Len(s) /\ At(s, p, pattern) <=> p \in (i + 1)..Len(s) /\ At(s, p, pattern)
  BY <1>1
<1>3. Places(s, pattern, i) = Places(s, pattern, i + 1)
  BY <1>2 DEF Places
<1> QED
  BY <1>3 DEF Find

\* A byte at which no escape begins does not change where the scan ends.
LEMMA ScanNext ==
    ASSUME NEW buf \in Bytes, NEW i \in Nat \ {0}, NEW check, ~At(buf, i, Escape)
    PROVE  ScanBody(buf, i, check) = ScanBody(buf, i + 1, check)
<1>1. Find(buf, Escape, i) = Find(buf, Escape, i + 1)
  BY FindNext
<1>2. i + 1 \in Nat \ {0}
  OBVIOUS
<1> QED
  BY <1>1, <1>2, ScanTurns DEF ScanTurn

\* From q on, s is t, or begins with t.
Reaches(s, q, t) == From(s, q) = t
Shows(s, q, t) == \A k \in 1..Len(t) : s[q + k - 1] = t[k]

\* What follows the first of two pieces.
LEMMA FromBehind ==
    ASSUME NEW s \in Bytes, NEW q \in 1..(Len(s) + 1), NEW x \in Bytes, NEW y \in Bytes, Reaches(s, q, x \o y)
    PROVE  /\ q + Len(x) \in 1..(Len(s) + 1) /\ Reaches(s, q + Len(x), y)
           /\ Shows(s, q, x)
<1> DEFINE u == From(s, q)
           n == Len(s)
           a == Len(x)
           b == Len(y)
<1>0. n \in Nat /\ a \in Nat /\ b \in Nat
  BY DEF Bytes
<1>1. u \in Bytes /\ Len(u) = n - q + 1 /\ \A k \in 1..(n - q + 1) : u[k] = s[q + k - 1]
  BY FromType
<1>7. u = x \o y
  BY DEF Reaches
<1>2. /\ Len(u) = a + b
      /\ \A k \in 1..a : u[k] = x[k]
      /\ \A k \in 1..b : u[a + k] = y[k]
  BY <1>7, Longer
<1> HIDE DEF u, n, a, b
<1>3. a + b = n - q + 1 /\ q + a \in 1..(n + 1)
  <2>1. a + b = n - q + 1 /\ q \in 1..(n + 1)
    BY <1>1, <1>2, Zenon DEF n
  <2> QED
    BY <1>0, <2>1
<1>4. \A k \in 1..a : s[q + k - 1] = x[k]
  BY <1>0, <1>1, <1>2, <1>3
<1>5. \A k \in 1..b : s[q + a + k - 1] = y[k]
  <2> SUFFICES ASSUME NEW k \in 1..b PROVE s[q + a + k - 1] = y[k]
    OBVIOUS
  <2>1. a + k \in 1..(n - q + 1) /\ q + (a + k) - 1 = q + a + k - 1
    BY <1>0, <1>3 DEF n
  <2> QED
    BY <1>1, <1>2, <2>1
<1>6. From(s, q + a) = y
  <2> DEFINE v == From(s, q + a)
  <2>1. v \in Bytes /\ Len(v) = n - (q + a) + 1 /\ \A k \in 1..(n - (q + a) + 1) : v[k] = s[(q + a) + k - 1]
    BY <1>3, FromType DEF n
  <2>2. n - (q + a) + 1 = b
    BY <1>0, <1>3 DEF n
  <2> HIDE DEF v
  <2>3. Len(v) = b /\ \A k \in 1..b : v[k] = y[k]
    BY <1>5, <2>1, <2>2
  <2>4. v = y
    BY <2>1, <2>3, SMTT(30) DEF b, Bytes
  <2> QED
    BY <2>4 DEF v
<1> QED
  BY <1>3, <1>4, <1>6 DEF n, a, b, Reaches, Shows

\* f[i] is s from i on, with the escapes doubled.
Doubles(f, s) == Replaces(f, s, Escape, Escape \o Escape)

LEMMA DoublesTypes ==
    ASSUME NEW s \in Bytes, NEW f, Doubles(f, s)
    PROVE  /\ Len(s) \in Nat
           /\ \A i \in 1..(Len(s) + 4) : f[i] \in Bytes
           /\ \A i \in 1..(Len(s) + 4) :
                f[i] = IF i > Len(s) THEN <<>> ELSE IF At(s, i, Escape) THEN (Escape \o Escape) \o f[i + 4]
                       ELSE <<s[i]>> \o f[i + 1]
<1>1. Len(s) \in Nat /\ Len(Escape) = 4
  BY Patterns DEF Bytes
<1>2. /\ f \in [1..(Len(s) + 4) -> Bytes]
      /\ \A i \in 1..(Len(s) + 4) :
           f[i] = IF i > Len(s) THEN <<>> ELSE IF At(s, i, Escape) THEN (Escape \o Escape) \o f[i + 4]
                  ELSE <<s[i]>> \o f[i + 1]
  BY <1>1 DEF Doubles, Replaces
<1>3. \A i \in 1..(Len(s) + 4) : f[i] \in Bytes
  BY <1>2
<1> QED
  BY <1>1, <1>2, <1>3, Zenon

LEMMA DoublesEnd ==
    ASSUME NEW s \in Bytes, NEW f, Doubles(f, s)
    PROVE  f[Len(s) + 1] = <<>>
<1>1. Len(s) \in Nat
  BY DoublesTypes, Zenon
<1>2. Len(s) + 1 \in 1..(Len(s) + 4) /\ Len(s) + 1 > Len(s)
  BY <1>1
<1> QED
  BY <1>2, DoublesTypes, Zenon

LEMMA DoublesEscape ==
    ASSUME NEW s \in Bytes, NEW f, Doubles(f, s), NEW i \in 1..Len(s), At(s, i, Escape)
    PROVE  /\ i + 4 \in 1..(Len(s) + 1) /\ f[i + 4] \in Bytes
           /\ f[i] = (Escape \o Escape) \o f[i + 4]
<1>1. Len(s) \in Nat
  BY DoublesTypes, Zenon
<1>2. i + 3 <= Len(s)
  BY <1>1, PatternAt
<1>3. /\ i \in 1..(Len(s) + 4) /\ i + 4 \in 1..(Len(s) + 4)
      /\ i + 4 \in 1..(Len(s) + 1) /\ ~(i > Len(s))
  BY <1>1, <1>2
<1> QED
  BY <1>3, DoublesTypes, Zenon

LEMMA DoublesByte ==
    ASSUME NEW s \in Bytes, NEW f, Doubles(f, s), NEW i \in 1..Len(s), ~At(s, i, Escape)
    PROVE  /\ i + 1 \in 1..(Len(s) + 1) /\ f[i + 1] \in Bytes /\ f[i] \in Bytes
           /\ <<s[i]>> \in Bytes /\ s[i] \in Byte
           /\ f[i] = <<s[i]>> \o f[i + 1]
<1>1. Len(s) \in Nat
  BY DoublesTypes, Zenon
<1>2. s[i] \in Byte
  BY DEF Bytes
<1>3. <<s[i]>> \in Bytes
  BY <1>2 DEF Bytes
<1>4. /\ i \in 1..(Len(s) + 4) /\ i + 1 \in 1..(Len(s) + 4)
      /\ i + 1 \in 1..(Len(s) + 1) /\ ~(i > Len(s))
  BY <1>1
<1> QED
  BY <1>2, <1>3, <1>4, DoublesTypes, Zenon

\* One byte before others.
LEMMA ByteBefore ==
    ASSUME NEW c \in Byte, NEW v \in Bytes
    PROVE  /\ <<c>> \o v \in Bytes /\ Len(<<c>> \o v) = 1 + Len(v) /\ Len(v) \in Nat
           /\ (<<c>> \o v)[1] = c
           /\ \A x \in 1..Len(v) : (<<c>> \o v)[1 + x] = v[x]
<1> DEFINE b == <<c>>
           w == b \o v
<1>1. b \in Bytes /\ Len(b) = 1 /\ b[1] = c
  BY DEF Bytes
<1> HIDE DEF b
<1>2. /\ w \in Bytes /\ Len(w) = Len(b) + Len(v) /\ Len(v) \in Nat
      /\ \A k \in 1..Len(b) : w[k] = b[k]
      /\ \A k \in 1..Len(v) : w[Len(b) + k] = v[k]
  BY <1>1, Longer, Zenon
<1> HIDE DEF w
<1>3. w[1] = c /\ \A x \in 1..Len(v) : w[1 + x] = v[x]
  BY <1>1, <1>2
<1> QED
  BY <1>1, <1>2, <1>3, Zenon DEF w, b

\* One string is two others, or a byte and another.
Joins(u, x, y) == u = x \o y
Begins(u, c, v) == u = <<c>> \o v
OneMore(u, c, v) ==
    Len(u) = 1 + Len(v) /\ Len(v) \in Nat /\ u[1] = c /\ \A k \in 1..Len(v) : u[1 + k] = v[k]

\* What a byte before the rest of a text means for it and what follows it.
LEMMA ByteOfText ==
    ASSUME NEW c \in Byte, NEW rest \in Bytes, NEW text, Begins(text, c, rest), NEW tail \in Bytes
    PROVE  /\ Begins(text \o tail, c, rest \o tail) /\ OneMore(text \o tail, c, rest \o tail)
           /\ rest \o tail \in Bytes
<1> DEFINE b == <<c>>
           v == rest \o tail
<1>1. b \in Bytes
  BY DEF Bytes
<1>2. b \in Seq(Byte) /\ rest \in Seq(Byte) /\ tail \in Seq(Byte)
  BY <1>1 DEF Bytes
<1>3. text = b \o rest
  BY DEF Begins
<1>4. v \in Bytes
  BY Longer
<1> HIDE DEF b
<1>5. b \o (rest \o tail) = (b \o rest) \o tail
  BY <1>2, Regrouped, SMTT(30)
<1>6. text \o tail = b \o v
  BY <1>3, <1>5
<1> HIDE DEF v
<1>7. /\ Len(b \o v) = 1 + Len(v) /\ Len(v) \in Nat
      /\ (b \o v)[1] = c /\ \A x \in 1..Len(v) : (b \o v)[1 + x] = v[x]
  BY <1>4, ByteBefore DEF b
<1> HIDE DEF b
<1> DEFINE u == text \o tail
           w == b \o v
<1>8. u = w
  BY <1>6
<1> HIDE DEF u, w
<1>9. OneMore(u, c, v)
  BY <1>7, <1>8, Zenon DEF w, OneMore
<1> QED
  BY <1>4, <1>6, <1>9, Zenon DEF u, v, b, Begins

\* No run of bytes 27 leads out of s.
Closed(s) == s # <<>> /\ s[Len(s)] # 27

\* s has k bytes 27 from q on.
Run(s, q, k) == q + k - 1 <= Len(s) /\ \A x \in 1..k : s[q + x - 1] = 27

\* Up to four bytes 27 in the doubled text are as many in the text.
LEMMA Runs ==
    ASSUME NEW s \in Bytes, Closed(s), NEW f, Doubles(f, s), NEW tail \in Bytes
    PROVE  \A i \in 1..Len(s) : \A k \in 1..4 :
             Run(f[i] \o tail, 1, k) => Run(s, i, k)
<1> DEFINE n == Len(s)
           RunAt(i) == \A k \in 1..4 :
             k <= Len(f[i] \o tail) /\ (\A x \in 1..k : (f[i] \o tail)[x] = 27)
                => i + k - 1 <= n /\ \A x \in 1..k : s[i + x - 1] = 27
           T == {i \in Nat \ {0} : i <= n => RunAt(i)}
<1>0. n \in Nat /\ n # 0 /\ s[n] # 27
  BY DEF Bytes, Closed
<1>1. ASSUME NEW i \in Nat \ {0}, \A j \in Nat \ {0} : j > i /\ i <= n => j \in T
      PROVE  i \in T
  <2> SUFFICES ASSUME i <= n, NEW k \in 1..4, k <= Len(f[i] \o tail),
                      \A x \in 1..k : (f[i] \o tail)[x] = 27
               PROVE  i + k - 1 <= n /\ \A x \in 1..k : s[i + x - 1] = 27
    OBVIOUS
  <2>0. i \in 1..n
    BY <1>0
  <2>1. CASE At(s, i, Escape)
    <3>1. i + 3 <= n /\ \A x \in 1..4 : s[i + x - 1] = 27
      BY <2>1, PatternAt DEF n
    <3>2. i + k - 1 <= n
      BY <1>0, <3>1
    <3>3. \A x \in 1..k : x \in 1..4
      OBVIOUS
    <3> QED
      BY <3>1, <3>2, <3>3, Zenon
  <2>2. CASE ~At(s, i, Escape)
    <3>1. /\ f[i] = <<s[i]>> \o f[i + 1] /\ s[i] \in Byte
          /\ f[i + 1] \in Bytes /\ <<s[i]>> \in Bytes /\ f[i] \in Bytes
      BY <2>0, <2>2, DoublesByte, Zenon DEF n
    <3> DEFINE text == f[i]
               rest == f[i + 1]
               c == s[i]
    <3>11. c \in Byte /\ rest \in Bytes /\ Begins(text, c, rest)
      BY <3>1, Zenon DEF Begins
    <3> HIDE DEF text, rest, c
    <3>12. OneMore(text \o tail, c, rest \o tail)
      BY <3>11, ByteOfText, Zenon
    <3> DEFINE u == f[i] \o tail
               v == f[i + 1] \o tail
    <3>3. v \in Bytes
      BY <3>1, Longer, Zenon
    <3>4. Len(u) = 1 + Len(v) /\ Len(v) \in Nat /\ u[1] = s[i] /\ \A x \in 1..Len(v) : u[1 + x] = v[x]
      BY <3>12, Zenon DEF text, rest, c, OneMore
    <3> HIDE DEF u, v
    <3>5. k <= Len(u) /\ \A x \in 1..k : u[x] = 27
      BY DEF u
    <3>6. s[i] = 27 /\ i < n
      BY <1>0, <3>4, <3>5 DEF n
    <3>7. CASE k = 1
      BY <1>0, <3>6, <3>7
    <3>8. CASE k # 1
      <4>1. k - 1 \in 1..4 /\ k - 1 <= Len(v) /\ \A x \in 1..(k - 1) : v[x] = 27
        <5>1. \A x \in 1..(k - 1) : 1 + x \in 1..k /\ x \in 1..Len(v)
          BY <3>4, <3>5
        <5> QED
          BY <3>4, <3>5, <3>8, <5>1
      <4>2. RunAt(i + 1)
        <5>1. i + 1 \in Nat \ {0} /\ i + 1 > i /\ i + 1 <= n
          BY <1>0, <3>6
        <5>2. i + 1 \in T
          BY <1>1, <5>1
        <5> HIDE DEF RunAt
        <5> QED
          BY <5>1, <5>2
      <4>3. (i + 1) + (k - 1) - 1 <= n /\ \A x \in 1..(k - 1) : s[(i + 1) + x - 1] = 27
        BY <4>1, <4>2 DEF v
      <4>4. ASSUME NEW x \in 1..k PROVE s[i + x - 1] = 27
        <5>1. CASE x = 1
          BY <3>6, <5>1
        <5>2. CASE x # 1
          <6>1. x - 1 \in 1..(k - 1) /\ (i + 1) + (x - 1) - 1 = i + x - 1
            BY <5>2
          <6> QED
            BY <4>3, <6>1
        <5> QED
          BY <5>1, <5>2
      <4> QED
        BY <1>0, <4>3, <4>4
    <3> QED
      BY <3>7, <3>8
  <2> QED
    BY <2>1, <2>2
<1> HIDE DEF T
<1>2. \A i \in Nat \ {0} : i \in T
  BY <1>1, ScanInduction DEF n
<1>3. \A i \in 1..n : i \in Nat \ {0} /\ i <= n
  BY <1>0
<1> HIDE DEF RunAt
<1>4. \A i \in 1..n : RunAt(i)
  BY <1>2, <1>3 DEF T
<1> USE DEF RunAt
<1> SUFFICES ASSUME NEW i \in 1..n, NEW k \in 1..4, Run(f[i] \o tail, 1, k) PROVE Run(s, i, k)
  BY Zenon DEF n
<1> DEFINE u == f[i] \o tail
<1>5. Run(u, 1, k)
  OBVIOUS
<1> HIDE DEF u
<1>6. k <= Len(u) /\ \A x \in 1..k : u[x] = 27
  <2>1. 1 + k - 1 = k /\ \A x \in 1..k : 1 + x - 1 = x
    OBVIOUS
  <2> QED
    BY <1>5, <2>1, Zenon DEF Run
<1> QED
  BY <1>4, <1>6, Zenon DEF Run, u, n

\* What follows the first of two pieces, with more behind.
LEMMA FromBehindFirst ==
    ASSUME NEW B \in Bytes, NEW q \in 1..(Len(B) + 1), NEW x \in Bytes, NEW y \in Bytes, NEW z \in Bytes,
           NEW u, Joins(u, x, y), Reaches(B, q, u \o z)
    PROVE  /\ q + Len(x) \in 1..(Len(B) + 1) /\ Reaches(B, q + Len(x), y \o z)
           /\ Shows(B, q, x)
<1> DEFINE v == y \o z
<1>1. x \in Seq(Byte) /\ y \in Seq(Byte) /\ z \in Seq(Byte)
  BY DEF Bytes
<1>2. x \o (y \o z) = (x \o y) \o z
  BY <1>1, Regrouped, SMTT(30)
<1>3. v \in Bytes
  BY Longer
<1>4. Reaches(B, q, x \o v)
  BY <1>2, Zenon DEF Joins
<1> HIDE DEF v
<1>5. /\ q + Len(x) \in 1..(Len(B) + 1) /\ Reaches(B, q + Len(x), v)
      /\ Shows(B, q, x)
  BY <1>3, <1>4, FromBehind, Zenon
<1> QED
  BY <1>5, Zenon DEF v

\* What comes after an escape of the text, doubled in B,
LEMMA AfterEscape ==
    ASSUME NEW s \in Bytes, NEW f, Doubles(f, s), NEW i \in 1..Len(s), At(s, i, Escape), NEW zeros \in Bytes,
           NEW B \in Bytes, NEW q \in 1..(Len(B) + 1), Reaches(B, q, f[i] \o zeros)
    PROVE  /\ q + 8 \in 1..(Len(B) + 1) /\ i + 4 \in 1..(Len(s) + 1)
           /\ Reaches(B, q + 8, f[i + 4] \o zeros)
           /\ Run(B, q, 8)
<1> DEFINE u == f[i]
           x == Escape \o Escape
           y == f[i + 4]
<1>1. i + 4 \in 1..(Len(s) + 1) /\ y \in Bytes /\ Joins(u, x, y)
  BY DoublesEscape, Zenon DEF Joins
<1>2. x \in Bytes /\ Len(x) = 8 /\ \A k \in 1..8 : x[k] = 27
  BY Patterns, PatternBytes, Zenon
<1>3. Reaches(B, q, u \o zeros)
  OBVIOUS
<1> HIDE DEF u, x, y
<1>4. /\ q + Len(x) \in 1..(Len(B) + 1) /\ Reaches(B, q + Len(x), y \o zeros)
      /\ Shows(B, q, x)
  BY <1>1, <1>2, <1>3, FromBehindFirst, Zenon
<1>5. /\ q + 8 \in 1..(Len(B) + 1) /\ Reaches(B, q + 8, y \o zeros)
      /\ \A k \in 1..8 : B[q + k - 1] = 27
  BY <1>2, <1>4 DEF Shows
<1>6. Run(B, q, 8)
  <2>1. Len(B) \in Nat
    BY DEF Bytes
  <2>2. q + 8 - 1 <= Len(B)
    BY <1>5, <2>1
  <2> QED
    BY <1>5, <2>2, Zenon DEF Run
<1> QED
  BY <1>1, <1>5, <1>6, Zenon DEF y

\* One byte is that of s, too.
Copies(B, q, s, i) == B[q] = s[i]

\* and after any other byte of it.
LEMMA AfterByte ==
    ASSUME NEW s \in Bytes, Closed(s),
           NEW f, Doubles(f, s), NEW i \in 1..Len(s), ~At(s, i, Escape), NEW zeros \in Bytes,
           NEW B \in Bytes, NEW q \in 1..(Len(B) + 1), Reaches(B, q, f[i] \o zeros)
    PROVE  /\ q + 1 \in 1..(Len(B) + 1) /\ i + 1 \in 1..(Len(s) + 1)
           /\ Reaches(B, q + 1, f[i + 1] \o zeros)
           /\ Copies(B, q, s, i)
           /\ ~At(B, q, Escape)
<1> DEFINE u == f[i]
           c == s[i]
           x == <<c>>
           y == f[i + 1]
<1>1. i + 1 \in 1..(Len(s) + 1) /\ y \in Bytes /\ Joins(u, x, y) /\ c \in Byte
  BY DoublesByte, Zenon DEF Joins
<1>2. x \in Bytes /\ Len(x) = 1 /\ x[1] = c
  <2> HIDE DEF c
  <2> QED
    BY <1>1 DEF Bytes
<1>3. Reaches(B, q, u \o zeros)
  OBVIOUS
<1> HIDE DEF u, c, x, y
<1>4. /\ q + Len(x) \in 1..(Len(B) + 1) /\ Reaches(B, q + Len(x), y \o zeros)
      /\ Shows(B, q, x)
  BY <1>1, <1>2, <1>3, FromBehindFirst, Zenon
<1>5. /\ q + 1 \in 1..(Len(B) + 1) /\ Reaches(B, q + 1, y \o zeros) /\ B[q] = c
  <2>1. 1 \in 1..Len(x) /\ q + 1 - 1 = q
    BY <1>2
  <2> QED
    BY <1>2, <1>4, <2>1 DEF Shows
<1>6. ~At(B, q, Escape)
  <2> SUFFICES ASSUME At(B, q, Escape) PROVE FALSE
    OBVIOUS
  <2> DEFINE w == From(B, q)
  <2>1. q + 3 <= Len(B) /\ \A k \in 1..4 : B[q + k - 1] = 27
    BY PatternAt
  <2>2. Len(w) = Len(B) - q + 1 /\ \A k \in 1..(Len(B) - q + 1) : w[k] = B[q + k - 1]
    BY FromType
  <2> HIDE DEF w
  <2>0. Len(B) \in Nat /\ Len(s) \in Nat
    BY DEF Bytes
  <2>3. 4 <= Len(w)
    BY <2>0, <2>1, <2>2
  <2>8. \A k \in 1..4 : k \in 1..(Len(B) - q + 1)
    BY <2>0, <2>1
  <2>9. \A k \in 1..4 : w[k] = 27
    BY <2>1, <2>2, <2>8, Zenon
  <2>4. w = f[i] \o zeros
    BY Zenon DEF w, Reaches
  <2>5. Run(w, 1, 4)
    <3>1. 1 + 4 - 1 = 4 /\ \A k \in 1..4 : 1 + k - 1 = k
      OBVIOUS
    <3> QED
      BY <2>3, <2>9, <3>1, Zenon DEF Run
  <2>6. i + 4 - 1 <= Len(s) /\ \A k \in 1..4 : s[i + k - 1] = 27
    <3>1. 4 \in 1..4
      OBVIOUS
    <3>2. Run(s, i, 4)
      BY <2>4, <2>5, <3>1, Runs, Zenon
    <3> QED
      BY <3>2, Zenon DEF Run
  <2>7. i + 3 <= Len(s) /\ i \in Nat \ {0}
    BY <2>0, <2>6
  <2> QED
    BY <2>6, <2>7, PatternAt
<1> QED
  BY <1>1, <1>5, <1>6, Zenon DEF y, c, Copies

\* A doubled escape is passed over.
LEMMA ScanDoubled ==
    ASSUME NEW buf \in Bytes, NEW i \in Nat \ {0}, NEW check, i + 7 <= Len(buf),
           \A k \in 1..8 : buf[i + k - 1] = 27
    PROVE  ScanBody(buf, i, check) = ScanBody(buf, i + 8, check)
<1>0. Len(buf) \in Nat
  BY DEF Bytes
<1>1. At(buf, i, Escape) /\ At(buf, i, Escape \o Escape)
  <2>1. i + 3 <= Len(buf) /\ \A k \in 1..4 : buf[i + k - 1] = 27
    BY <1>0
  <2> QED
    BY <2>1, PatternAt
<1>2. ~At(buf, i, Start)
  <2>1. buf[i + 5 - 1] = 27
    OBVIOUS
  <2> QED
    BY <2>1, PatternAt
<1>3. Find(buf, Escape, i) = i
  <2>1. i \in i..Len(buf) /\ \A p \in i..(i - 1) : ~At(buf, p, Escape)
    BY <1>0
  <2> QED
    BY <1>1, <2>1, FindIs, Zenon
<1>4. ~(i = 0 \/ i + 4 > Len(buf))
  BY <1>0
<1> QED
  BY <1>1, <1>2, <1>3, <1>4, ScanTurns, Zenon DEF ScanTurn

\* B up to n, where no escape can reach beyond n, is passed over up to the j
\* after which it has no escape, whatever follows.
Passes(B, n, first) ==
    \E j \in first..(n + 1) :
        /\ \A p \in j..n : ~At(B, p, Escape)
        /\ \A buf \in Bytes : \A check :
             Len(buf) >= n /\ (\A k \in 1..n : buf[k] = B[k])
                => ScanBody(buf, first, check) = ScanBody(buf, j, check)

\* A doubled escape in B is passed over, when n is behind it,
LEMMA PassesDoubled ==
    ASSUME NEW B \in Bytes, NEW n \in 1..Len(B), NEW m \in Nat, m + 8 \in 0..n,
           Run(B, m + 1, 8), Passes(B, n, (m + 1) + 8)
    PROVE  Passes(B, n, m + 1)
<1>0. Len(B) \in Nat /\ n \in Nat \ {0} /\ n <= Len(B)
  BY DEF Bytes
<1>1. PICK j \in ((m + 1) + 8)..(n + 1) :
        /\ \A p \in j..n : ~At(B, p, Escape)
        /\ \A buf \in Bytes : \A check :
             Len(buf) >= n /\ (\A k \in 1..n : buf[k] = B[k])
                => ScanBody(buf, (m + 1) + 8, check) = ScanBody(buf, j, check)
  BY DEF Passes
<1>2. ASSUME NEW buf \in Bytes, NEW check, Len(buf) >= n, \A k \in 1..n : buf[k] = B[k]
      PROVE  ScanBody(buf, m + 1, check) = ScanBody(buf, j, check)
  <2>1. m + 1 \in Nat \ {0} /\ (m + 1) + 7 <= Len(buf)
    <3>1. Len(buf) \in Nat
      BY DEF Bytes
    <3> QED
      BY <1>0, <1>2, <3>1
  <2>2. \A k \in 1..8 : (m + 1) + k - 1 \in 1..n
    BY <1>0
  <2>3. \A k \in 1..8 : buf[(m + 1) + k - 1] = 27
    BY <1>2, <2>2, Zenon DEF Run
  <2>4. ScanBody(buf, m + 1, check) = ScanBody(buf, (m + 1) + 8, check)
    BY <2>1, <2>3, ScanDoubled
  <2> QED
    BY <1>1, <1>2, <2>4, Zenon
<1>3. j \in (m + 1)..(n + 1)
  BY <1>0
<1> QED
  BY <1>1, <1>2, <1>3, Zenon DEF Passes

\* and a byte at which no escape begins.
LEMMA PassesByte ==
    ASSUME NEW B \in Bytes, NEW n \in 1..Len(B), B[n] # 27, NEW m \in Nat, m + 1 <= n,
           ~At(B, m + 1, Escape), Passes(B, n, (m + 1) + 1)
    PROVE  Passes(B, n, m + 1)
<1>0. Len(B) \in Nat /\ n \in Nat \ {0} /\ n <= Len(B)
  BY DEF Bytes
<1>1. PICK j \in ((m + 1) + 1)..(n + 1) :
        /\ \A p \in j..n : ~At(B, p, Escape)
        /\ \A buf \in Bytes : \A check :
             Len(buf) >= n /\ (\A k \in 1..n : buf[k] = B[k])
                => ScanBody(buf, (m + 1) + 1, check) = ScanBody(buf, j, check)
  BY DEF Passes
<1>2. ASSUME NEW buf \in Bytes, Len(buf) >= n, \A k \in 1..n : buf[k] = B[k], At(buf, m + 1, Escape)
      PROVE  FALSE
  <2>1. \A k \in 1..4 : buf[(m + 1) + k - 1] = 27
    BY <1>2, PatternAt
  <2>2. ASSUME NEW k \in 1..4, m + k <= n PROVE B[(m + 1) + k - 1] = 27
    <3>1. (m + 1) + k - 1 \in 1..n
      BY <1>0, <2>2
    <3> QED
      BY <1>2, <2>1, <3>1
  <2>3. CASE n < m + 4
    <3>1. n - m \in 1..4 /\ (m + 1) + (n - m) - 1 = n /\ m + (n - m) <= n
      BY <1>0, <2>3
    <3> QED
      BY <2>2, <3>1
  <2>4. CASE n >= m + 4
    <3>1. \A k \in 1..4 : m + k <= n
      BY <1>0, <2>4
    <3>2. m + 1 \in Nat \ {0} /\ (m + 1) + 3 <= Len(B)
      BY <1>0, <2>4
    <3>3. \A k \in 1..4 : B[(m + 1) + k - 1] = 27
      BY <2>2, <3>1, Zenon
    <3> QED
      BY <3>2, <3>3, PatternAt
  <2> QED
    BY <1>0, <2>3, <2>4
<1>3. ASSUME NEW buf \in Bytes, NEW check, Len(buf) >= n, \A k \in 1..n : buf[k] = B[k]
      PROVE  ScanBody(buf, m + 1, check) = ScanBody(buf, j, check)
  <2>1. m + 1 \in Nat \ {0} /\ ~At(buf, m + 1, Escape)
    BY <1>2, <1>3
  <2>2. ScanBody(buf, m + 1, check) = ScanBody(buf, (m + 1) + 1, check)
    BY <2>1, ScanNext
  <2> QED
    BY <1>1, <1>3, <2>2, Zenon
<1>4. j \in (m + 1)..(n + 1)
  BY <1>0
<1> QED
  BY <1>1, <1>3, <1>4, Zenon DEF Passes

\* So is a text with its escapes doubled, with zeros behind.
LEMMA PassesText ==
    ASSUME NEW s \in Bytes, Closed(s), NEW f, Doubles(f, s),
           NEW zeros \in Bytes, \A k \in 1..Len(zeros) : zeros[k] = 0,
           NEW B \in Bytes, NEW n \in 1..Len(B), B[n] # 27
    PROVE  \A i \in 1..(Len(s) + 1) : \A m \in 0..n :
             Reaches(B, m + 1, f[i] \o zeros) => Passes(B, n, m + 1)
<1> DEFINE len == Len(s)
           T == {i \in Nat \ {0} : i <= len + 1 =>
                    \A m \in 0..n : Reaches(B, m + 1, f[i] \o zeros) => Passes(B, n, m + 1)}
<1>0. len \in Nat /\ Len(B) \in Nat /\ n \in Nat \ {0} /\ n <= Len(B) /\ Len(zeros) \in Nat
  BY DEF Bytes
<1>9. ASSUME NEW m \in 0..n, \A p \in (m + 1)..n : ~At(B, p, Escape)
      PROVE  Passes(B, n, m + 1)
  <2>1. m + 1 \in (m + 1)..(n + 1)
    BY <1>0
  <2> QED
    BY <1>9, <2>1, Zenon DEF Passes
<1>1. ASSUME NEW i \in Nat \ {0}, \A j \in Nat \ {0} : j > i /\ i <= len => j \in T
      PROVE  i \in T
  <2> SUFFICES ASSUME i <= len + 1, NEW m \in 0..n, Reaches(B, m + 1, f[i] \o zeros)
               PROVE  Passes(B, n, m + 1)
    OBVIOUS
  <2>1. m + 1 \in 1..(Len(B) + 1) /\ m \in Nat
    BY <1>0
  <2>2. CASE i = len + 1
    <3>1. f[i] = <<>>
      BY <2>2, DoublesEnd
    <3>6. <<>> \o zeros = zeros
      BY DEF Bytes
    <3>2. From(B, m + 1) = zeros
      BY <3>1, <3>6, Zenon DEF Reaches
    <3>3. \A k \in 1..(Len(B) - (m + 1) + 1) : zeros[k] = B[(m + 1) + k - 1]
      BY <2>1, <3>2, FromType
    <3>4. Len(zeros) = Len(B) - (m + 1) + 1
      BY <2>1, <3>2, FromType
    <3>5. ASSUME NEW p \in (m + 1)..n PROVE ~At(B, p, Escape)
      <4>1. p - m \in 1..Len(zeros) /\ (m + 1) + (p - m) - 1 = p
        BY <1>0, <2>1, <3>4
      <4>2. B[p] = 0
        BY <3>3, <3>4, <4>1
      <4>3. p \in Nat \ {0} /\ p + 1 - 1 = p /\ 1 \in 1..4
        BY <2>1
      <4> QED
        BY <4>2, <4>3, PatternAt
    <3> QED
      BY <1>9, <3>5
  <2>3. CASE i # len + 1 /\ n = m
    <3>1. \A p \in (m + 1)..n : FALSE
      BY <1>0, <2>3
    <3> QED
      BY <1>9, <3>1
  <2>4. CASE i # len + 1 /\ n # m /\ At(s, i, Escape)
    <3>0. i \in 1..Len(s) /\ m + 1 <= n
      BY <1>0, <2>1, <2>4
    <3>1. /\ i + 4 \in 1..(Len(s) + 1) /\ Reaches(B, (m + 1) + 8, f[i + 4] \o zeros)
          /\ Run(B, m + 1, 8)
      BY <2>1, <2>4, <3>0, AfterEscape, ZenonT(60)
    <3>2. m + 8 \in 0..n
      <4>1. ASSUME n < m + 9 PROVE FALSE
        <5>1. n - m \in 1..8 /\ (m + 1) + (n - m) - 1 = n
          BY <1>0, <2>1, <3>0, <4>1
        <5> QED
          BY <3>1, <5>1 DEF Run
      <4> QED
        BY <1>0, <2>1, <4>1
    <3>3. (m + 1) + 8 = (m + 8) + 1
      BY <2>1
    <3>4. Passes(B, n, (m + 1) + 8)
      <4>1. i + 4 \in Nat \ {0} /\ i + 4 > i /\ i <= len /\ i + 4 <= len + 1
        BY <1>0, <3>0, <3>1
      <4>2. i + 4 \in T
        BY <1>1, <4>1
      <4>3. Reaches(B, (m + 8) + 1, f[i + 4] \o zeros)
        BY <3>1, <3>3, Zenon
      <4>4. Passes(B, n, (m + 8) + 1)
        BY <3>2, <4>1, <4>2, <4>3, Zenon
      <4> QED
        BY <3>3, <4>4, Zenon
    <3> QED
      BY <2>1, <3>1, <3>2, <3>4, PassesDoubled, Zenon
  <2>5. CASE i # len + 1 /\ n # m /\ ~At(s, i, Escape)
    <3>0. i \in 1..Len(s) /\ m + 1 <= n
      BY <1>0, <2>1, <2>5
    <3>4. ~At(s, i, Escape) /\ m + 1 \in 1..(Len(B) + 1) /\ Reaches(B, m + 1, f[i] \o zeros)
      BY <2>1, <2>5
    <3>3. i + 1 \in 1..(Len(s) + 1)
      BY <3>0, <3>4, AfterByte
    <3>5. Reaches(B, (m + 1) + 1, f[i + 1] \o zeros)
      BY <3>0, <3>4, AfterByte, Zenon
    <3>6. ~At(B, m + 1, Escape)
      <4> DEFINE q == m + 1
                 u == f[i] \o zeros
      <4>1. q \in 1..(Len(B) + 1) /\ Reaches(B, q, u)
        BY <3>4
      <4>2. i \in 1..Len(s) /\ (Reaches(B, q, u) => ~At(B, q, Escape))
        BY <3>0, <3>4, AfterByte
      <4> QED
        BY <4>1, <4>2
    <3>1. /\ i + 1 \in 1..(Len(s) + 1) /\ Reaches(B, (m + 1) + 1, f[i + 1] \o zeros)
          /\ ~At(B, m + 1, Escape)
      BY <3>3, <3>5, <3>6
    <3>2. Passes(B, n, (m + 1) + 1)
      <4>1. i + 1 \in Nat \ {0} /\ i + 1 > i /\ i <= len /\ i + 1 <= len + 1 /\ m + 1 \in 0..n
        BY <1>0, <2>1, <3>0, <3>1
      <4>2. i + 1 \in T
        BY <1>1, <4>1
      <4> QED
        BY <3>1, <4>1, <4>2, Zenon
    <3> QED
      BY <2>1, <3>0, <3>1, <3>2, PassesByte, Zenon
  <2> QED
    BY <2>2, <2>3, <2>4, <2>5
<1> HIDE DEF T
<1>2. \A i \in Nat \ {0} : i \in T
  BY <1>1, ScanInduction
<1>3. \A i \in 1..(len + 1) : i \in Nat \ {0} /\ i <= len + 1
  BY <1>0
<1> QED
  BY <1>2, <1>3, Zenon DEF T, len

\* The first of two pieces, and the second.
LEMMA PieceOf ==
    ASSUME NEW s \in Bytes, NEW t \in Bytes
    PROVE  SubSeq(s \o t, 1, Len(s)) = s /\ From(s \o t, Len(s) + 1) = t
<1>1. SubSeq(s \o t, 1, Len(s)) = s
  <2> DEFINE u == s \o t
             v == SubSeq(u, 1, Len(s))
  <2>1. u \in Bytes /\ Len(u) = Len(s) + Len(t) /\ Len(s) \in Nat /\ Len(t) \in Nat
        /\ \A k \in 1..Len(s) : u[k] = s[k]
    BY Longer
  <2> HIDE DEF u
  <2>2. v \in Bytes /\ Len(v) = Len(s) /\ \A k \in 1..Len(s) : v[k] = u[k]
    BY <2>1 DEF Bytes
  <2> HIDE DEF v
  <2>3. v = s
    BY <2>1, <2>2, SeqEqual DEF Bytes
  <2> QED
    BY <2>3 DEF v, u
<1>2. From(s \o t, Len(s) + 1) = t
  <2>1. Len(s) + 1 \in 1..(Len(s) + 1) /\ Len(s) \in Nat
    BY DEF Bytes
  <2>2. From(s \o t, Len(s) + 1) = From(s, Len(s) + 1) \o t
    BY <2>1, FromLonger
  <2>3. From(s, Len(s) + 1) = <<>>
    BY <2>1 DEF From, Bytes
  <2>4. <<>> \o t = t
    BY DEF Bytes
  <2> QED
    BY <2>2, <2>3, <2>4, Zenon
<1> QED
  BY <1>1, <1>2

LEMMA EscapeLonger ==
    ASSUME NEW s \in Bytes, s[Len(s)] # 27, NEW t \in Bytes, NEW p \in 1..Len(s)
    PROVE  At(s \o t, p, Escape) <=> At(s, p, Escape)
<1> DEFINE u == s \o t
<1>1. u \in Bytes /\ Len(u) = Len(s) + Len(t) /\ Len(s) \in Nat /\ \A k \in 1..Len(s) : u[k] = s[k]
  BY Longer
<1>2. CASE p + 3 <= Len(s)
  <2>1. p \in Nat \ {0} /\ p + Len(Escape) - 1 <= Len(s)
    BY <1>2, Patterns
  <2> QED
    BY <2>1, AtLonger, Patterns
<1>3. CASE p + 3 > Len(s)
  <2>1. ~At(s, p, Escape)
    <3>1. p \in Nat \ {0} /\ ~(p + 3 <= Len(s))
      BY <1>1, <1>3
    <3> QED
      BY <3>1, PatternAt
  <2> HIDE DEF u
  <2>2. ~At(u, p, Escape)
    <3> SUFFICES ASSUME At(u, p, Escape) PROVE FALSE
      OBVIOUS
    <3>1. \A k \in 1..4 : u[p + k - 1] = 27
      BY <1>1, PatternAt, SMTT(30)
    <3>2. Len(s) - p + 1 \in 1..4 /\ p + (Len(s) - p + 1) - 1 = Len(s) /\ Len(s) \in 1..Len(s)
      BY <1>1, <1>3
    <3> QED
      BY <1>1, <3>1, <3>2
  <2> QED
    BY <2>1, <2>2 DEF u
<1> QED
  BY <1>1, <1>2, <1>3

\* The first bytes of the end block.
LEMMA EndBlockBytes ==
    ASSUME NEW pad \in 0..3, NEW rest \in Bytes
    PROVE  LET block == Escape \o <<EndMarker, pad>> IN
           /\ block \in Bytes /\ Len(block) = 6
           /\ \A k \in 1..4 : (block \o rest)[k] = 27
           /\ (block \o rest)[5] = 26 /\ (block \o rest)[6] = pad
<1> DEFINE block == Escape \o <<EndMarker, pad>>
<1>1. /\ block \in Bytes /\ Len(block) = 6
      /\ block[1] = 27 /\ block[2] = 27 /\ block[3] = 27 /\ block[4] = 27 /\ block[5] = 26 /\ block[6] = pad
  BY DEF Escape, EndMarker, Bytes, Byte
<1> HIDE DEF block
<1>2. \A k \in 1..6 : (block \o rest)[k] = block[k]
  <2>1. \A k \in 1..Len(block) : (block \o rest)[k] = block[k]
    BY <1>1, Longer, Zenon
  <2> QED
    BY <1>1, <2>1, Zenon
<1>3. \A k \in 1..4 : block[k] = 27 /\ k \in 1..6
  BY <1>1
<1> QED
  BY <1>1, <1>2, <1>3 DEF block

\* The end block behind a text that is passed over is found.
LEMMA FindsEnd ==
    ASSUME NEW B \in Bytes, B # <<>>, B[Len(B)] # 27, NEW j \in 1..(Len(B) + 1),
           \A p \in j..Len(B) : ~At(B, p, Escape),
           NEW t \in Bytes, 4 <= Len(t), \A k \in 1..4 : t[k] = 27
    PROVE  Find(B \o t, Escape, j) = Len(B) + 1
<1> DEFINE n == Len(B)
           u == B \o t
<1>0. n \in Nat /\ u \in Bytes /\ Len(u) = n + Len(t) /\ Len(t) \in Nat
  BY Longer
<1>1. At(u, n + 1, Escape)
  <2>1. At(t, 1, Escape)
    <3>1. \A k \in 1..4 : t[1 + k - 1] = 27
      <4>1. \A k \in 1..4 : 1 + k - 1 = k
        OBVIOUS
      <4> QED
        BY <4>1
    <3> QED
      BY <3>1, PatternAt
  <2>2. 1 \in Nat \ {0}
    OBVIOUS
  <2> QED
    BY <2>1, <2>2, AtBehind, Patterns, Zenon
<1>2. \A p \in j..((n + 1) - 1) : ~At(u, p, Escape)
  <2> SUFFICES ASSUME NEW p \in j..((n + 1) - 1) PROVE ~At(u, p, Escape)
    OBVIOUS
  <2>1. p \in 1..Len(B) /\ p \in j..Len(B)
    BY <1>0
  <2> QED
    BY <2>1, EscapeLonger, Zenon
<1>3. n + 1 \in j..Len(u) /\ j \in Nat \ {0}
  BY <1>0
<1> HIDE DEF n, u
<1>4. Find(u, Escape, j) = n + 1
  BY <1>0, <1>1, <1>2, <1>3, FindIs
<1> QED
  BY <1>4 DEF n, u

\* The scan of a frame with its checksum.
LEMMA ScanEnd ==
    ASSUME NEW B \in Bytes, 9 <= Len(B), B[Len(B)] # 27, Passes(B, Len(B), 9),
           NEW pad \in 0..3, NEW more \in Bytes, NEW check
    PROVE  LET frame == B \o (Escape \o <<EndMarker, pad>>) IN
           ScanBody((frame \o Crc16Sml(frame)) \o more, 9, check)
             = Found(Unpad(Deframe(From(B, 9)), pad), more)
<1> DEFINE n == Len(B)
           block == Escape \o <<EndMarker, pad>>
           frame == B \o block
           crc == Crc16Sml(frame)
           t == block \o (crc \o more)
           buf == B \o t
<1>0. n \in Nat
  BY DEF Bytes
<1>1. block \in Bytes /\ Len(block) = 6
  BY EndBlockBytes
<1> HIDE DEF block
<1>2. frame \in Bytes /\ Len(frame) = n + 6
  <2>1. frame \in Bytes /\ Len(frame) = Len(B) + Len(block)
    BY <1>1, Longer
  <2> HIDE DEF frame
  <2> QED
    BY <1>0, <1>1, <2>1
<1>3. crc \in Bytes /\ Len(crc) = 2
  <2> HIDE DEF frame
  <2>1. crc \in Bytes
    BY <1>2, CrcIsBytes
  <2>2. PICK a, b : crc = <<a, b>>
    BY CrcOfTwo
  <2> QED
    BY <2>1, <2>2
<1> HIDE DEF crc
<1>4. crc \o more \in Bytes /\ Len(crc \o more) = 2 + Len(more) /\ Len(more) \in Nat
  <2> DEFINE w == crc \o more
  <2>1. w \in Bytes /\ Len(w) = Len(crc) + Len(more) /\ Len(more) \in Nat
    BY <1>3, Longer
  <2> HIDE DEF w
  <2>2. w \in Bytes /\ Len(w) = 2 + Len(more) /\ Len(more) \in Nat
    BY <1>3, <2>1
  <2> QED
    BY <2>2 DEF w
<1>5. /\ t \in Bytes /\ Len(t) = 8 + Len(more)
      /\ (\A k \in 1..4 : t[k] = 27) /\ t[5] = 26 /\ t[6] = pad
  <2>1. t \in Bytes /\ Len(t) = Len(block) + Len(crc \o more)
    BY <1>1, <1>4, Longer
  <2>2. (\A k \in 1..4 : t[k] = 27) /\ t[5] = 26 /\ t[6] = pad
    BY <1>4, EndBlockBytes DEF block
  <2> HIDE DEF t
  <2> QED
    BY <1>1, <1>4, <2>1, <2>2
<1>6. (frame \o crc) \o more = buf
  <2>1. frame \in Seq(Byte) /\ crc \in Seq(Byte) /\ more \in Seq(Byte) /\ B \in Seq(Byte) /\ block \in Seq(Byte)
        /\ crc \o more \in Seq(Byte)
    BY <1>1, <1>2, <1>3, <1>4 DEF Bytes
  <2> DEFINE w == crc \o more
  <2>2. w \in Seq(Byte)
    BY <2>1
  <2>3. (frame \o crc) \o more = frame \o w
    <3> HIDE DEF frame
    <3>1. frame \o (crc \o more) = (frame \o crc) \o more
      BY <2>1, Regrouped, SMTT(30)
    <3> QED
      BY <3>1
  <2> HIDE DEF w
  <2>4. B \o (block \o w) = (B \o block) \o w
    BY <2>1, <2>2, Regrouped, SMTT(30)
  <2> QED
    BY <2>3, <2>4, Zenon DEF w
<1>7. /\ buf \in Bytes /\ Len(buf) = n + Len(t) /\ \A k \in 1..n : buf[k] = B[k]
      /\ \A k \in 1..Len(t) : buf[n + k] = t[k]
  BY <1>5, Longer, ZenonT(60)
<1>8. PICK j \in 9..(n + 1) :
        /\ \A p \in j..n : ~At(B, p, Escape)
        /\ \A b \in Bytes : \A c :
             Len(b) >= n /\ (\A k \in 1..n : b[k] = B[k]) => ScanBody(b, 9, c) = ScanBody(b, j, c)
  BY DEF Passes
<1>9. ScanBody(buf, 9, check) = ScanBody(buf, j, check)
  <2> HIDE DEF buf, t
  <2>1. Len(buf) >= n
    BY <1>0, <1>4, <1>5, <1>7
  <2> QED
    BY <1>7, <1>8, <2>1, Zenon
<1>10. Find(buf, Escape, j) = n + 1
  <2> HIDE DEF t
  <2>1. j \in 1..(Len(B) + 1) /\ 4 <= Len(t) /\ B # <<>>
    BY <1>4, <1>5, <1>8
  <2> QED
    BY <1>5, <1>8, <2>1, FindsEnd
<1>11. /\ n + 1 # 0 /\ ~((n + 1) + 4 > Len(buf)) /\ EndBlockThere(buf, n + 1)
       /\ buf[(n + 1) + 4] = 26 /\ buf[(n + 1) + 5] = pad
  <2> HIDE DEF buf, t, n
  <2>1. 5 \in 1..Len(t) /\ 6 \in 1..Len(t) /\ n + 5 = (n + 1) + 4 /\ n + 6 = (n + 1) + 5
    BY <1>0, <1>4, <1>5
  <2>2. buf[(n + 1) + 4] = 26 /\ buf[(n + 1) + 5] = pad
    BY <1>5, <1>7, <2>1
  <2> QED
    BY <1>0, <1>4, <1>5, <1>7, <2>2, SMTT(30) DEF EndBlockThere
<1>12. ~At(buf, n + 1, Start) /\ ~At(buf, n + 1, Escape \o Escape)
  <2> HIDE DEF buf, t, n
  <2> DEFINE p == n + 1
  <2>1. p \in Nat \ {0} /\ p + 5 - 1 = p + 4 /\ 5 \in 5..8 /\ 5 \in 1..8 /\ 26 # 27 /\ 26 # 1
    BY <1>0
  <2>2. buf[p + 5 - 1] = 26 /\ buf \in Bytes
    BY <1>7, <1>11, <2>1
  <2> HIDE DEF p
  <2>3. ~At(buf, p, Start)
    BY <2>1, <2>2, PatternAt
  <2>4. ~At(buf, p, Escape \o Escape)
    BY <2>1, <2>2, PatternAt
  <2> QED
    BY <2>3, <2>4 DEF p
<1>13. ScanBody(buf, j, check) = CloseFrame(buf, n + 1, check)
  <2> HIDE DEF buf, t, n
  <2>1. j \in Nat \ {0}
    BY <1>0
  <2> QED
    BY <1>7, <1>10, <1>11, <1>12, <2>1, ScanTurns DEF ScanTurn, EndMarker
<1>14. At(buf, (n + 1) + 6, Crc16Sml(SubSeq(buf, 1, (n + 1) + 5)))
  <2>1. frame \o (crc \o more) = buf
    <3>1. frame \in Seq(Byte) /\ crc \in Seq(Byte) /\ more \in Seq(Byte)
      BY <1>2, <1>3 DEF Bytes
    <3>2. frame \o (crc \o more) = (frame \o crc) \o more
      <4> HIDE DEF frame
      <4> QED
        BY <3>1, Regrouped, SMTT(30)
    <3> QED
      BY <1>6, <3>2, Zenon
  <2> HIDE DEF frame, buf
  <2>2. SubSeq(buf, 1, Len(frame)) = frame
    BY <1>2, <1>4, <2>1, PieceOf
  <2>3. Len(frame) = (n + 1) + 5 /\ Len(frame) + 1 = (n + 1) + 6
    BY <1>0, <1>2
  <2>4. At(crc \o more, 1, crc)
    <3>1. 1 + Len(crc) - 1 <= Len(crc \o more) /\ DOMAIN crc = 1..Len(crc)
      BY <1>3, <1>4 DEF Bytes
    <3>2. \A k \in 1..Len(crc) : (crc \o more)[1 + k - 1] = crc[k]
      <4>1. \A k \in 1..Len(crc) : (crc \o more)[k] = crc[k]
        BY <1>3, Longer
      <4>2. \A k \in 1..Len(crc) : 1 + k - 1 = k
        OBVIOUS
      <4> QED
        BY <4>1, <4>2
    <3> QED
      BY <3>1, <3>2 DEF At
  <2>5. At(frame \o (crc \o more), Len(frame) + 1, crc)
    <3>1. 1 \in Nat \ {0}
      OBVIOUS
    <3> QED
      BY <1>2, <1>3, <1>4, <2>4, <3>1, AtBehind, Zenon
  <2> QED
    BY <2>1, <2>2, <2>3, <2>5, Zenon DEF crc
<1>15. From(buf, (n + 1) + 8) = more
  <2>1. frame \o crc \in Bytes /\ Len(frame \o crc) = (n + 1) + 7
    <3> HIDE DEF frame, n
    <3>1. frame \o crc \in Bytes /\ Len(frame \o crc) = Len(frame) + Len(crc)
      BY <1>2, <1>3, Longer
    <3> QED
      BY <1>0, <1>2, <1>3, <3>1
  <2> DEFINE w == frame \o crc
  <2> HIDE DEF w
  <2>2. From(w \o more, Len(w) + 1) = more
    BY <2>1, PieceOf DEF w
  <2>3. Len(w) + 1 = (n + 1) + 8
    BY <1>0, <2>1 DEF w
  <2> QED
    BY <1>6, <2>2, <2>3, Zenon DEF w
<1>16. SubSeq(buf, Len(Start) + 1, (n + 1) - 1) = From(B, 9)
  <2> HIDE DEF t
  <2>1. SubSeq(buf, 9, n) = SubSeq(B, 9, n)
    <3> DEFINE x == SubSeq(buf, 9, n)
               y == SubSeq(B, 9, n)
    <3>1. n <= Len(buf)
      BY <1>4, <1>5, <1>7
    <3> HIDE DEF buf
    <3>2. x \in Bytes /\ Len(x) = n - 8 /\ \A k \in 1..(n - 8) : x[k] = buf[9 + k - 1]
      BY <1>0, <1>7, <3>1 DEF Bytes
    <3>3. y \in Bytes /\ Len(y) = n - 8 /\ \A k \in 1..(n - 8) : y[k] = B[9 + k - 1]
      BY <1>0 DEF Bytes
    <3>4. \A k \in 1..(n - 8) : 9 + k - 1 \in 1..n
      BY <1>0
    <3> HIDE DEF x, y
    <3>5. \A k \in 1..(n - 8) : x[k] = y[k]
      BY <1>7, <3>2, <3>3, <3>4, ZenonT(60)
    <3>6. x = y
      BY <3>2, <3>3, <3>5, SeqEqual DEF Bytes
    <3> QED
      BY <3>6 DEF x, y
  <2>2. Len(Start) + 1 = 9 /\ (n + 1) - 1 = n
    BY <1>0, Patterns
  <2> QED
    BY <2>1, <2>2, Zenon DEF From
<1> HIDE DEF buf, t, frame, n
<1>17. CloseFrame(buf, n + 1, check) = Found(Unpad(Deframe(From(B, 9)), pad), more)
  BY <1>11, <1>14, <1>15, <1>16, Zenon DEF CloseFrame
<1> QED
  BY <1>6, <1>9, <1>13, <1>17, Zenon DEF crc, frame, block

\* A string from q on is what it shows there and what follows that.
LEMMA FromSplit ==
    ASSUME NEW s \in Bytes, NEW x \in Bytes, NEW q \in 1..(Len(s) + 1),
           q + Len(x) \in 1..(Len(s) + 1), Shows(s, q, x)
    PROVE  From(s, q) = x \o From(s, q + Len(x))
<1> DEFINE n == Len(s)
           a == Len(x)
           u == From(s, q)
           v == From(s, q + a)
           w == x \o v
<1>0. n \in Nat /\ a \in Nat /\ q \in Nat \ {0} /\ q <= n + 1 /\ q + a <= n + 1
  BY DEF Bytes
<1>1. u \in Bytes /\ Len(u) = n - q + 1 /\ \A k \in 1..(n - q + 1) : u[k] = s[q + k - 1]
  BY FromType
<1>2. v \in Bytes /\ Len(v) = n - (q + a) + 1 /\ \A k \in 1..(n - (q + a) + 1) : v[k] = s[(q + a) + k - 1]
  BY FromType
<1> HIDE DEF u, v
<1>3. /\ w \in Bytes /\ Len(w) = a + Len(v)
      /\ \A k \in 1..a : w[k] = x[k]
      /\ \A k \in (a + 1)..(a + Len(v)) : w[k] = v[k - a]
  BY <1>2, Longer
<1> HIDE DEF w
<1>4. \A k \in 1..a : x[k] = s[q + k - 1]
  BY Zenon DEF Shows, a
<1> HIDE DEF n, a
<1>5. Len(w) = Len(u)
  BY <1>0, <1>1, <1>2, <1>3
<1>6. ASSUME NEW k \in 1..Len(u) PROVE u[k] = w[k]
  <2>1. CASE k <= a
    BY <1>0, <1>1, <1>3, <1>4, <2>1
  <2>2. CASE k > a
    <3>1. k \in (a + 1)..(a + Len(v)) /\ k - a \in 1..(n - (q + a) + 1) /\ (q + a) + (k - a) - 1 = q + k - 1
      BY <1>0, <1>1, <1>2, <2>2
    <3>2. w[k] = s[q + k - 1]
      BY <1>2, <1>3, <3>1
    <3> QED
      BY <1>1, <3>2
  <2> QED
    BY <1>0, <1>1, <2>1, <2>2
<1>7. u = w
  BY <1>1, <1>3, <1>5, <1>6, SeqEqual DEF Bytes
<1> QED
  BY <1>7 DEF u, w, v, a

LEMMA FromHead ==
    ASSUME NEW s \in Bytes, NEW q \in 1..Len(s)
    PROVE  /\ q + 1 \in 1..(Len(s) + 1) /\ s[q] \in Byte /\ From(s, q + 1) \in Bytes
           /\ Begins(From(s, q), s[q], From(s, q + 1))
<1> DEFINE x == <<s[q]>>
<1>0. Len(s) \in Nat /\ s[q] \in Byte
  BY DEF Bytes
<1>1. x \in Bytes /\ Len(x) = 1 /\ x[1] = s[q]
  BY <1>0 DEF Bytes
<1> HIDE DEF x
<1>2. q \in 1..(Len(s) + 1) /\ q + 1 \in 1..(Len(s) + 1) /\ q + Len(x) = q + 1
  BY <1>0, <1>1
<1>3. Shows(s, q, x)
  <2>1. \A k \in 1..Len(x) : k = 1 /\ q + k - 1 = q
    BY <1>1
  <2> QED
    BY <1>1, <2>1, Zenon DEF Shows
<1>4. From(s, q) = x \o From(s, q + 1)
  BY <1>1, <1>2, <1>3, FromSplit
<1>5. From(s, q + 1) \in Bytes
  BY <1>2, FromType
<1> QED
  BY <1>0, <1>2, <1>4, <1>5, Zenon DEF Begins, x

LEMMA FromEscape ==
    ASSUME NEW s \in Bytes, NEW q \in 1..Len(s), At(s, q, Escape)
    PROVE  /\ q + 4 \in 1..(Len(s) + 1) /\ From(s, q + 4) \in Bytes
           /\ Joins(From(s, q), Escape, From(s, q + 4))
<1>0. Len(s) \in Nat
  BY DEF Bytes
<1>1. q + 3 <= Len(s) /\ \A k \in 1..4 : s[q + k - 1] = 27
  BY <1>0, PatternAt
<1>2. Len(Escape) = 4 /\ Escape \in Bytes /\ \A k \in 1..4 : Escape[k] = 27
  BY Patterns, PatternBytes
<1>3. q \in 1..(Len(s) + 1) /\ q + 4 \in 1..(Len(s) + 1) /\ q + Len(Escape) = q + 4
  BY <1>0, <1>1, <1>2
<1>4. Shows(s, q, Escape)
  BY <1>1, <1>2, Zenon DEF Shows
<1>5. From(s, q) = Escape \o From(s, q + 4)
  BY <1>2, <1>3, <1>4, FromSplit
<1>6. From(s, q + 4) \in Bytes
  BY <1>3, FromType
<1> QED
  BY <1>3, <1>5, <1>6, Zenon DEF Joins

\* g[q] is d from q on, with the escapes no longer doubled.
Undoubles(g, d) == Replaces(g, d, Escape \o Escape, Escape)

LEMMA UndoublesTypes ==
    ASSUME NEW d \in Bytes, NEW g, Undoubles(g, d)
    PROVE  /\ Len(d) \in Nat
           /\ \A q \in 1..(Len(d) + 8) : g[q] \in Bytes
           /\ \A q \in 1..(Len(d) + 8) :
                g[q] = IF q > Len(d) THEN <<>> ELSE IF At(d, q, Escape \o Escape) THEN Escape \o g[q + 8]
                       ELSE <<d[q]>> \o g[q + 1]
<1> DEFINE ee == Escape \o Escape
<1>1. Len(d) \in Nat /\ Len(ee) = 8
  BY Patterns DEF Bytes
<1>2. Replaces(g, d, ee, Escape)
  BY DEF Undoubles
<1> HIDE DEF ee
<1>3. /\ g \in [1..(Len(d) + 8) -> Bytes]
      /\ \A q \in 1..(Len(d) + 8) :
           g[q] = IF q > Len(d) THEN <<>> ELSE IF At(d, q, ee) THEN Escape \o g[q + 8]
                  ELSE <<d[q]>> \o g[q + 1]
  BY <1>1, <1>2, Zenon DEF Replaces
<1>4. \A q \in 1..(Len(d) + 8) : g[q] \in Bytes
  BY <1>3
<1> QED
  BY <1>1, <1>3, <1>4, Zenon DEF ee

LEMMA UndoublesEnd ==
    ASSUME NEW d \in Bytes, NEW g, Undoubles(g, d)
    PROVE  g[Len(d) + 1] = <<>>
<1>1. Len(d) \in Nat
  BY UndoublesTypes, Zenon
<1>2. Len(d) + 1 \in 1..(Len(d) + 8) /\ Len(d) + 1 > Len(d)
  BY <1>1
<1> QED
  BY <1>2, UndoublesTypes, Zenon

LEMMA UndoublesEscape ==
    ASSUME NEW d \in Bytes, NEW g, Undoubles(g, d), NEW q \in 1..Len(d), At(d, q, Escape \o Escape)
    PROVE  Joins(g[q], Escape, g[q + 8])
<1>1. Len(d) \in Nat
  BY UndoublesTypes, Zenon
<1>2. q \in 1..(Len(d) + 8) /\ ~(q > Len(d))
  BY <1>1
<1> QED
  BY <1>2, UndoublesTypes, Zenon DEF Joins

LEMMA UndoublesByte ==
    ASSUME NEW d \in Bytes, NEW g, Undoubles(g, d), NEW q \in 1..Len(d), ~At(d, q, Escape \o Escape)
    PROVE  Begins(g[q], d[q], g[q + 1])
<1>1. Len(d) \in Nat
  BY UndoublesTypes, Zenon
<1>2. q \in 1..(Len(d) + 8) /\ ~(q > Len(d))
  BY <1>1
<1> QED
  BY <1>2, UndoublesTypes, Zenon DEF Begins

\* Where no doubled escape is left nothing changes.
LEMMA UndoublesNothing ==
    ASSUME NEW d \in Bytes, NEW g, Undoubles(g, d), NEW from \in 1..(Len(d) + 1),
           \A p \in from..Len(d) : ~At(d, p, Escape \o Escape)
    PROVE  g[from] = From(d, from)
<1> DEFINE n == Len(d)
           T == {q \in Nat \ {0} : from <= q /\ q <= n + 1 => g[q] = From(d, q)}
<1>0. n \in Nat /\ from \in Nat \ {0}
  BY DEF Bytes
<1>1. ASSUME NEW q \in Nat \ {0}, \A j \in Nat \ {0} : j > q /\ q <= n => j \in T
      PROVE  q \in T
  <2> SUFFICES ASSUME from <= q, q <= n + 1 PROVE g[q] = From(d, q)
    OBVIOUS
  <2>1. CASE q = n + 1
    <3>1. From(d, n + 1) = <<>>
      BY <1>0 DEF From, Bytes
    <3> QED
      BY <2>1, <3>1, UndoublesEnd
  <2>2. CASE q # n + 1
    <3>1. q \in 1..Len(d) /\ q \in from..Len(d)
      BY <1>0, <2>2
    <3>2. ~At(d, q, Escape \o Escape)
      BY <3>1
    <3>3. Begins(g[q], d[q], g[q + 1])
      BY <3>1, <3>2, UndoublesByte, Zenon
    <3>4. Begins(From(d, q), d[q], From(d, q + 1))
      BY <3>1, FromHead, Zenon
    <3>5. g[q + 1] = From(d, q + 1)
      <4>1. q + 1 \in Nat \ {0} /\ q + 1 > q /\ q <= n /\ from <= q + 1 /\ q + 1 <= n + 1
        BY <1>0, <3>1
      <4>2. q + 1 \in T
        BY <1>1, <4>1
      <4> QED
        BY <4>1, <4>2
    <3> QED
      BY <3>3, <3>4, <3>5, Zenon DEF Begins
  <2> QED
    BY <2>1, <2>2
<1> HIDE DEF T
<1>2. \A q \in Nat \ {0} : q \in T
  BY <1>1, ScanInduction DEF n
<1>3. from \in T /\ from <= n + 1 /\ from <= from
  BY <1>0, <1>2
<1> QED
  BY <1>3, Zenon DEF T

\* Undoubled(u, t, zeros): u is t before the zeros.
LEMMA MoreOfText ==
    ASSUME NEW u, NEW t, NEW x \in Bytes, NEW v \in Bytes, NEW zeros \in Bytes,
           Joins(t, x, v), Joins(u, x, v \o zeros)
    PROVE  Joins(u, t, zeros)
<1>1. x \in Seq(Byte) /\ v \in Seq(Byte) /\ zeros \in Seq(Byte)
  BY DEF Bytes
<1>2. x \o (v \o zeros) = (x \o v) \o zeros
  BY <1>1, Regrouped, SMTT(30)
<1> QED
  BY <1>2, Zenon DEF Joins

\* The text comes back from the doubled text, the zeros behind stay.
LEMMA UndoublesText ==
    ASSUME NEW s \in Bytes, Closed(s), NEW f, Doubles(f, s),
           NEW zeros \in Bytes, \A k \in 1..Len(zeros) : zeros[k] = 0,
           NEW d \in Bytes, NEW g, Undoubles(g, d)
    PROVE  \A i \in 1..(Len(s) + 1) : \A q \in 1..(Len(d) + 1) :
             Reaches(d, q, f[i] \o zeros) => Joins(g[q], From(s, i), zeros)
<1> DEFINE n == Len(s)
           T == {i \in Nat \ {0} : i <= n + 1 =>
                    \A q \in 1..(Len(d) + 1) : Reaches(d, q, f[i] \o zeros) => Joins(g[q], From(s, i), zeros)}
<1>0. n \in Nat /\ Len(d) \in Nat /\ Len(zeros) \in Nat
  BY DEF Bytes
<1>1. ASSUME NEW i \in Nat \ {0}, \A j \in Nat \ {0} : j > i /\ i <= n => j \in T
      PROVE  i \in T
  <2> SUFFICES ASSUME i <= n + 1, NEW q \in 1..(Len(d) + 1), Reaches(d, q, f[i] \o zeros)
               PROVE  Joins(g[q], From(s, i), zeros)
    OBVIOUS
  <2>1. CASE i = n + 1
    <3>1. f[i] = <<>>
      BY <2>1, DoublesEnd
    <3>2. <<>> \o zeros = zeros
      BY DEF Bytes
    <3>3. From(d, q) = zeros
      BY <3>1, <3>2, Zenon DEF Reaches
    <3>4. From(s, i) = <<>>
      BY <1>0, <2>1 DEF From, Bytes
    <3>5. Len(zeros) = Len(d) - q + 1 /\ \A k \in 1..(Len(d) - q + 1) : zeros[k] = d[q + k - 1]
      BY <3>3, FromType
    <3>6. ASSUME NEW p \in q..Len(d) PROVE ~At(d, p, Escape \o Escape)
      <4>1. p - q + 1 \in 1..Len(zeros) /\ q + (p - q + 1) - 1 = p
        BY <1>0, <3>5
      <4>2. d[p] = 0
        BY <3>5, <4>1
      <4>3. p \in Nat \ {0} /\ p + 1 - 1 = p /\ 1 \in 1..8
        BY <1>0
      <4> QED
        BY <4>2, <4>3, PatternAt
    <3>7. g[q] = From(d, q)
      BY <3>6, UndoublesNothing
    <3> QED
      BY <3>2, <3>3, <3>4, <3>7, Zenon DEF Joins
  <2>2. CASE i # n + 1 /\ At(s, i, Escape)
    <3>1. i \in 1..Len(s)
      BY <1>0, <2>2
    <3>2. /\ q + 8 \in 1..(Len(d) + 1) /\ i + 4 \in 1..(Len(s) + 1)
          /\ Reaches(d, q + 8, f[i + 4] \o zeros) /\ Run(d, q, 8)
      BY <2>2, <3>1, AfterEscape, Zenon
    <3>3. Joins(g[q + 8], From(s, i + 4), zeros)
      <4>1. i + 4 \in Nat \ {0} /\ i + 4 > i /\ i <= n /\ i + 4 <= n + 1
        BY <1>0, <3>1, <3>2
      <4>2. i + 4 \in T
        BY <1>1, <4>1
      <4> QED
        BY <3>2, <4>1, <4>2
    <3>4. q \in 1..Len(d) /\ At(d, q, Escape \o Escape)
      <4>1. q + 7 <= Len(d) /\ \A k \in 1..8 : d[q + k - 1] = 27
        BY <1>0, <3>2 DEF Run
      <4>2. q \in Nat \ {0} /\ q \in 1..Len(d)
        <5>1. Len(d) \in Nat /\ q \in 1..(Len(d) + 1) /\ q + 7 <= Len(d)
          BY <1>0, <4>1
        <5> QED
          BY <5>1
      <4> QED
        BY <4>1, <4>2, PatternAt
    <3>5. Joins(g[q], Escape, g[q + 8])
      BY <3>4, UndoublesEscape, Zenon
    <3>6. From(s, i + 4) \in Bytes /\ Joins(From(s, i), Escape, From(s, i + 4))
      BY <2>2, <3>1, FromEscape, Zenon
    <3>7. Joins(g[q], Escape, From(s, i + 4) \o zeros)
      BY <3>3, <3>5, Zenon DEF Joins
    <3> DEFINE u == g[q]
               t == From(s, i)
               v == From(s, i + 4)
    <3>8. Joins(t, Escape, v) /\ v \in Bytes /\ Joins(u, Escape, v \o zeros) /\ Escape \in Bytes
      BY <3>6, <3>7, Patterns
    <3> HIDE DEF u, t, v
    <3>9. Joins(u, t, zeros)
      BY <3>8, MoreOfText
    <3> QED
      BY <3>9 DEF u, t
  <2>3. CASE i # n + 1 /\ ~At(s, i, Escape)
    <3>1. i \in 1..Len(s)
      BY <1>0, <2>3
    <3>2. /\ q + 1 \in 1..(Len(d) + 1) /\ i + 1 \in 1..(Len(s) + 1)
          /\ Reaches(d, q + 1, f[i + 1] \o zeros) /\ Copies(d, q, s, i)
      BY <2>3, <3>1, AfterByte, Zenon
    <3>8. ~At(d, q, Escape)
      <4> DEFINE u == f[i] \o zeros
      <4>1. Reaches(d, q, u) /\ ~At(s, i, Escape)
        BY <2>3
      <4>2. Reaches(d, q, u) => ~At(d, q, Escape)
        BY <3>1, <4>1, AfterByte
      <4> QED
        BY <4>1, <4>2
    <3>3. Joins(g[q + 1], From(s, i + 1), zeros)
      <4>1. i + 1 \in Nat \ {0} /\ i + 1 > i /\ i <= n /\ i + 1 <= n + 1
        BY <1>0, <3>1, <3>2
      <4>2. i + 1 \in T
        BY <1>1, <4>1
      <4> QED
        BY <3>2, <4>1, <4>2
    <3>4. q \in 1..Len(d) /\ ~At(d, q, Escape \o Escape)
      <4>1. q \in 1..Len(d) /\ q \in Nat \ {0}
        BY <1>0, <3>2
      <4>2. q + 7 <= Len(d) => q + 3 <= Len(d)
        BY <1>0
      <4>3. \A k \in 1..4 : k \in 1..8
        OBVIOUS
      <4> QED
        BY <3>8, <4>1, <4>2, <4>3, PatternAt
    <3> DEFINE c == s[i]
               x == <<c>>
    <3>5. Joins(g[q], x, g[q + 1])
      <4>1. Begins(g[q], d[q], g[q + 1])
        BY <3>4, UndoublesByte, Zenon
      <4> QED
        BY <3>2, <4>1, Zenon DEF Begins, Joins, Copies
    <3>6. c \in Byte /\ From(s, i + 1) \in Bytes /\ Joins(From(s, i), x, From(s, i + 1))
      <4>1. c \in Byte /\ From(s, i + 1) \in Bytes /\ Begins(From(s, i), c, From(s, i + 1))
        BY <3>1, FromHead, Zenon
      <4> QED
        BY <4>1, Zenon DEF Begins, Joins
    <3> HIDE DEF c
    <3>7. x \in Bytes
      BY <3>6 DEF Bytes
    <3> HIDE DEF x
    <3>9. Joins(g[q], x, From(s, i + 1) \o zeros)
      BY <3>3, <3>5, Zenon DEF Joins
    <3> DEFINE u == g[q]
               t == From(s, i)
               v == From(s, i + 1)
    <3>10. Joins(t, x, v) /\ v \in Bytes /\ Joins(u, x, v \o zeros)
      BY <3>6, <3>9
    <3> HIDE DEF u, t, v
    <3>11. Joins(u, t, zeros)
      BY <3>7, <3>10, MoreOfText
    <3> QED
      BY <3>11 DEF u, t
  <2> QED
    BY <2>1, <2>2, <2>3
<1> HIDE DEF T
<1>2. \A i \in Nat \ {0} : i \in T
  BY <1>1, ScanInduction DEF n
<1>3. \A i \in 1..(n + 1) : i \in Nat \ {0} /\ i <= n + 1
  BY <1>0
<1> QED
  BY <1>2, <1>3, Zenon DEF T, n

\* The start escape a buffer begins with is found there.
LEMMA StartFound ==
    ASSUME NEW y \in Bytes
    PROVE  Find(Start \o y, Start, 1) = 1
<1> DEFINE u == Start \o y
<1>1. u \in Bytes /\ Len(u) = Len(Start) + Len(y) /\ Len(y) \in Nat
      /\ \A k \in 1..Len(Start) : u[k] = Start[k]
  BY Patterns, Longer, Zenon
<1> HIDE DEF u
<1>2. 1 \in 1..Len(u) /\ \A p \in 1..(1 - 1) : ~At(u, p, Start)
  BY <1>1, Patterns
<1>3. At(u, 1, Start)
  <2>1. 1 + Len(Start) - 1 <= Len(u) /\ DOMAIN Start = 1..Len(Start)
    BY <1>1, Patterns, PatternBytes
  <2>2. \A k \in 1..Len(Start) : 1 + k - 1 = k
    BY Patterns
  <2>3. \A k \in 1..Len(Start) : u[1 + k - 1] = Start[k]
    BY <1>1, <2>2
  <2> QED
    BY <2>1, <2>3 DEF At
<1>4. Find(u, Start, 1) = 1
  BY <1>1, <1>2, <1>3, FindIs
<1> QED
  BY <1>4 DEF u

LEMMA ClosedBehind ==
    ASSUME NEW x \in Bytes, NEW y \in Bytes, Closed(y)
    PROVE  Closed(x \o y)
<1> DEFINE u == x \o y
<1>1. /\ u \in Bytes /\ Len(u) = Len(x) + Len(y) /\ Len(x) \in Nat /\ Len(y) \in Nat
      /\ \A k \in 1..Len(y) : u[Len(x) + k] = y[k]
  BY Longer
<1> HIDE DEF u
<1>2. Len(y) \in 1..Len(y) /\ y[Len(y)] # 27
  BY <1>1 DEF Closed, Bytes
<1>3. Len(u) # 0 /\ u[Len(u)] # 27
  BY <1>1, <1>2
<1>4. Closed(u)
  BY <1>3 DEF Closed
<1> QED
  BY <1>4 DEF u

LEMMA DoublesClosed ==
    ASSUME NEW s \in Bytes, Closed(s), NEW f, Doubles(f, s)
    PROVE  \A i \in 1..Len(s) : Closed(f[i])
<1> DEFINE n == Len(s)
           T == {i \in Nat \ {0} : i <= n => Closed(f[i])}
<1>0. n \in Nat /\ n # 0 /\ s[n] # 27
  BY DEF Bytes, Closed
<1>1. ASSUME NEW i \in Nat \ {0}, \A j \in Nat \ {0} : j > i /\ i <= n => j \in T
      PROVE  i \in T
  <2> SUFFICES ASSUME i <= n PROVE Closed(f[i])
    OBVIOUS
  <2>1. i \in 1..Len(s)
    BY <1>0
  <2>2. CASE At(s, i, Escape)
    <3>1. i + 3 <= n /\ \A k \in 1..4 : s[i + k - 1] = 27
      BY <2>1, <2>2, PatternAt
    <3>2. i + 3 # n
      <4>1. 4 \in 1..4 /\ i + 4 - 1 = i + 3
        OBVIOUS
      <4> QED
        BY <1>0, <3>1, <4>1
    <3>3. i + 4 \in Nat \ {0} /\ i + 4 > i /\ i + 4 <= n
      BY <1>0, <3>1, <3>2
    <3>4. Closed(f[i + 4])
      BY <1>1, <3>3
    <3> DEFINE x == Escape \o Escape
               y == f[i + 4]
    <3>5. f[i] = x \o y /\ y \in Bytes /\ x \in Bytes
      BY <2>1, <2>2, DoublesEscape, Patterns
    <3> HIDE DEF x, y
    <3>6. Closed(x \o y)
      BY <3>4, <3>5, ClosedBehind DEF y
    <3> QED
      BY <3>5, <3>6, Zenon
  <2>3. CASE ~At(s, i, Escape)
    <3> DEFINE x == <<s[i]>>
               y == f[i + 1]
    <3>1. f[i] = x \o y /\ y \in Bytes /\ x \in Bytes
      BY <2>1, <2>3, DoublesByte
    <3>2. CASE i = n
      <4>1. y = <<>>
        BY <3>2, DoublesEnd
      <4>2. x \o <<>> = x
        BY <3>1 DEF Bytes
      <4>3. x # <<>> /\ x[Len(x)] # 27
        BY <1>0, <3>2
      <4> QED
        BY <3>1, <4>1, <4>2, <4>3, Zenon DEF Closed
    <3>3. CASE i # n
      <4>1. i + 1 \in Nat \ {0} /\ i + 1 > i /\ i + 1 <= n
        BY <1>0, <3>3
      <4>2. Closed(y)
        BY <1>1, <4>1
      <4> HIDE DEF x, y
      <4>3. Closed(x \o y)
        BY <3>1, <4>2, ClosedBehind
      <4> QED
        BY <3>1, <4>3, Zenon
    <3> QED
      BY <3>2, <3>3
  <2> QED
    BY <2>2, <2>3
<1> HIDE DEF T
<1>2. \A i \in Nat \ {0} : i \in T
  BY <1>1, ScanInduction DEF n
<1>3. \A i \in 1..n : i \in Nat \ {0} /\ i <= n
  BY <1>0
<1> QED
  BY <1>2, <1>3, Zenon DEF T, n

\* The parts of a frame.
Padding(message) == (-Len(DoubleEscapes(message))) % 4
Zeros(n) == [i \in 1..n |-> 0]
Body(message) == DoubleEscapes(message) \o Zeros(Padding(message))
Opening(message) == Start \o Body(message)
EndBlock(message) == Escape \o <<EndMarker, Padding(message)>>
Framed(message) == Opening(message) \o EndBlock(message)

LEMMA ZerosType ==
    ASSUME NEW n \in 0..3
    PROVE  Zeros(n) \in Bytes /\ Len(Zeros(n)) = n /\ \A k \in 1..Len(Zeros(n)) : Zeros(n)[k] = 0
BY DEF Zeros, Bytes, Byte

LEMMA FrameParts ==
    ASSUME NEW message \in Bytes
    PROVE  /\ DoubleEscapes(message) \in Bytes /\ Padding(message) \in 0..3
           /\ Body(message) \in Bytes /\ Opening(message) \in Bytes
           /\ BuildFrame(message) = Framed(message) \o Crc16Sml(Framed(message))
<1> DEFINE payload == DoubleEscapes(message)
           pad == Padding(message)
           zeros == Zeros(pad)
           block == <<EndMarker, pad>>
           frame == Start \o payload \o zeros \o Escape \o block
<1>1. payload \in Bytes
  <2>1. Escape # <<>>
    BY DEF Escape
  <2> QED
    BY <2>1, ReplacedBytes, Patterns DEF DoubleEscapes
<1>2. pad \in 0..3
  BY <1>1 DEF Bytes, Padding
<1>3. zeros \in Bytes /\ block \in Bytes
  <2>1. zeros \in Bytes
    BY <1>2, ZerosType, Zenon
  <2>2. block \in Bytes
    <3> HIDE DEF pad
    <3> QED
      BY <1>2 DEF Bytes, Byte, EndMarker
  <2> QED
    BY <2>1, <2>2
<1>4. BuildFrame(message) = frame \o Crc16Sml(frame)
  BY Zenon DEF BuildFrame, Padding, Zeros
<1>5. Body(message) = payload \o zeros /\ Opening(message) = Start \o (payload \o zeros)
      /\ Framed(message) = (Start \o (payload \o zeros)) \o (Escape \o block)
  BY Zenon DEF Body, Opening, Framed, EndBlock
<1>6. frame = (Start \o (payload \o zeros)) \o (Escape \o block)
  <2> HIDE DEF payload, zeros, block
  <2>1. payload \in Seq(Byte) /\ zeros \in Seq(Byte) /\ block \in Seq(Byte) /\ Start \in Seq(Byte) /\ Escape \in Seq(Byte)
    BY <1>1, <1>3, Patterns DEF Bytes
  <2>2. Start \o (payload \o zeros) = (Start \o payload) \o zeros
    BY <2>1, Regrouped, SMTT(30)
  <2> DEFINE head == (Start \o payload) \o zeros
  <2>3. head \in Seq(Byte)
    BY <2>1
  <2> HIDE DEF head
  <2>4. head \o (Escape \o block) = (head \o Escape) \o block
    BY <2>1, <2>3, Regrouped, SMTT(30)
  <2> QED
    BY <2>2, <2>4, Zenon DEF head
<1> HIDE DEF payload, pad, zeros, block
<1>7. payload \o zeros \in Bytes
  BY <1>1, <1>3, Longer, Zenon
<1>8. Start \o (payload \o zeros) \in Bytes
  BY <1>7, Patterns, Longer, Zenon
<1> HIDE DEF frame
<1>9. Body(message) \in Bytes /\ Opening(message) \in Bytes
  BY <1>5, <1>7, <1>8, Zenon
<1>10. BuildFrame(message) = Framed(message) \o Crc16Sml(Framed(message))
  BY <1>4, <1>5, <1>6, Zenon
<1> QED
  BY <1>1, <1>2, <1>9, <1>10, Zenon DEF payload, pad

\* What a scan passes over in a frame or in the beginning of one.
LEMMA OpeningPasses ==
    ASSUME NEW message \in Bytes, Closed(message)
    PROVE  /\ 9 <= Len(Opening(message)) /\ Closed(Opening(message)) /\ From(Opening(message), 9) = Body(message)
           /\ \A n \in 8..Len(Opening(message)) :
                Opening(message)[n] # 27 => Passes(Opening(message), n, 9)
<1> DEFINE zeros == Zeros(Padding(message))
           B == Opening(message)
           body == Body(message)
           pad == Padding(message)
<1>1. PICK f : Replaces(f, message, Escape, Escape \o Escape)
  <2>1. Escape # <<>>
    BY DEF Escape
  <2> QED
    BY <2>1, ReplaceEquation, Patterns
<1>2. Doubles(f, message) /\ f[1] = DoubleEscapes(message)
  <2>1. Doubles(f, message)
    BY <1>1, Zenon DEF Doubles
  <2>2. f[1] = DoubleEscapes(message)
    BY <1>1, Zenon DEF DoubleEscapes, Replaces
  <2> QED
    BY <2>1, <2>2
<1>3. pad \in 0..3
  BY FrameParts
<1>4. zeros \in Bytes /\ Len(zeros) = pad /\ \A k \in 1..Len(zeros) : zeros[k] = 0
  BY <1>3, ZerosType, Zenon
<1>5. 1 \in 1..Len(message) /\ Len(message) \in Nat
  BY DEF Closed, Bytes
<1>6. Closed(f[1]) /\ f[1] \in Bytes
  <2>1. f[1] \in Bytes
    BY <1>2, FrameParts, Zenon
  <2>2. Closed(f[1])
    BY <1>2, <1>5, DoublesClosed, Zenon
  <2> QED
    BY <2>1, <2>2
<1>7. body = f[1] \o zeros
  BY <1>2, Zenon DEF Body
<1> HIDE DEF zeros, pad
<1> DEFINE y == f[1]
<1>8. y \in Bytes /\ Closed(y) /\ body = y \o zeros
  BY <1>6, <1>7
<1> HIDE DEF y, body
<1>9. Closed(body)
  <2>1. CASE pad = 0
    <3>1. zeros = <<>>
      BY <1>4, <2>1 DEF Bytes
    <3>2. y \o <<>> = y
      BY <1>8 DEF Bytes
    <3> QED
      BY <1>8, <3>1, <3>2, Zenon
  <2>2. CASE pad # 0
    <3>1. Len(zeros) \in 1..Len(zeros)
      BY <1>3, <1>4, <2>2
    <3>2. zeros # <<>> /\ zeros[Len(zeros)] # 27
      BY <1>4, <3>1
    <3>3. Closed(zeros)
      BY <3>2 DEF Closed
    <3> QED
      BY <1>4, <1>8, <3>3, ClosedBehind
  <2> QED
    BY <2>1, <2>2
<1>10. body \in Bytes /\ body # <<>> /\ B = Start \o body
  BY <1>9, FrameParts, Zenon DEF Closed, body, Opening
<1> HIDE DEF B
<1>11. Len(B) = 8 + Len(body) /\ Len(body) \in Nat /\ Len(body) # 0 /\ B \in Bytes
  <2>1. B \in Bytes /\ Len(B) = Len(Start) + Len(body) /\ Len(body) \in Nat
    BY <1>10, Patterns, Longer, Zenon
  <2>2. Len(body) # 0
    BY <1>10 DEF Bytes
  <2> QED
    BY <2>1, <2>2, Patterns
<1>12. Closed(B)
  BY <1>9, <1>10, Patterns, ClosedBehind, Zenon
<1>13. From(B, 9) = body
  <2>1. From(Start \o body, Len(Start) + 1) = body
    BY <1>10, Patterns, PieceOf
  <2>2. Len(Start) + 1 = 9
    BY Patterns
  <2> QED
    BY <1>10, <2>1, <2>2, Zenon
<1>14. ASSUME NEW n \in 8..Len(B), B[n] # 27 PROVE Passes(B, n, 9)
  <2>1. Reaches(B, 8 + 1, f[1] \o zeros)
    BY <1>8, <1>13 DEF Reaches, y
  <2>2. n \in 1..Len(B) /\ 8 \in 0..n /\ 1 \in 1..(Len(message) + 1) /\ 8 + 1 = 9
    BY <1>5, <1>11, <1>14
  <2>3. \A i \in 1..(Len(message) + 1) : \A m \in 0..n :
             Reaches(B, m + 1, f[i] \o zeros) => Passes(B, n, m + 1)
    BY <1>2, <1>4, <1>11, <1>14, <2>2, PassesText
  <2> QED
    BY <2>1, <2>2, <2>3, Zenon
<1> QED
  BY <1>11, <1>12, <1>13, <1>14 DEF B, body

\* Nothing but the message is left of a frame.
LEMMA MessageBack ==
    ASSUME NEW message \in Bytes, Closed(message)
    PROVE  Unpad(Deframe(Body(message)), Padding(message)) = message
<1> DEFINE zeros == Zeros(Padding(message))
           pad == Padding(message)
           d == Body(message)
<1>1. PICK f : Replaces(f, message, Escape, Escape \o Escape)
  <2>1. Escape # <<>>
    BY DEF Escape
  <2> QED
    BY <2>1, ReplaceEquation, Patterns
<1>2. Doubles(f, message) /\ f[1] = DoubleEscapes(message)
  <2>1. Doubles(f, message)
    BY <1>1, Zenon DEF Doubles
  <2>2. f[1] = DoubleEscapes(message)
    BY <1>1, Zenon DEF DoubleEscapes, Replaces
  <2> QED
    BY <2>1, <2>2
<1>3. pad \in 0..3 /\ d \in Bytes
  BY FrameParts
<1>4. PICK g : Replaces(g, d, Escape \o Escape, Escape)
  <2> DEFINE ee == Escape \o Escape
  <2>1. ee \in Bytes /\ Len(ee) = 8
    BY Patterns
  <2> HIDE DEF ee, d
  <2>2. ee # <<>>
    BY <2>1
  <2>3. \E g : Replaces(g, d, ee, Escape)
    BY <1>3, <2>1, <2>2, ReplaceEquation, Patterns
  <2> QED
    BY <2>3 DEF ee
<1>5. Undoubles(g, d) /\ Deframe(d) = g[1]
  <2>1. Undoubles(g, d)
    BY <1>4, Zenon DEF Undoubles
  <2>2. Deframe(d) = g[1]
    BY <1>4, Zenon DEF Deframe, Replaces
  <2> QED
    BY <2>1, <2>2
<1>6. zeros \in Bytes /\ Len(zeros) = pad /\ \A k \in 1..Len(zeros) : zeros[k] = 0
  BY <1>3, ZerosType, Zenon
<1>7. Reaches(d, 1, f[1] \o zeros)
  <2>1. From(d, 1) = d
    BY <1>3, FromFirst, Zenon
  <2> QED
    BY <1>2, <2>1, Zenon DEF Reaches, Body
<1>8. 1 \in 1..(Len(message) + 1) /\ 1 \in 1..(Len(d) + 1)
  <2> HIDE DEF d
  <2> QED
    BY <1>3 DEF Bytes
<1> HIDE DEF d, zeros, pad
<1>9. Joins(g[1], From(message, 1), zeros)
  <2>1. \A i \in 1..(Len(message) + 1) : \A q \in 1..(Len(d) + 1) :
             Reaches(d, q, f[i] \o zeros) => Joins(g[q], From(message, i), zeros)
    BY <1>2, <1>3, <1>5, <1>6, UndoublesText
  <2> QED
    BY <1>7, <1>8, <2>1, Zenon
<1>10. Deframe(d) = message \o zeros
  <2>1. From(message, 1) = message
    BY FromFirst, Zenon
  <2> QED
    BY <1>5, <1>9, <2>1, Zenon DEF Joins
<1>11. Unpad(message \o zeros, pad) = message
  <2> DEFINE u == message \o zeros
  <2>1. Len(u) = Len(message) + pad /\ Len(message) \in Nat
    BY <1>6, Longer
  <2>2. SubSeq(u, 1, Len(message)) = message
    BY <1>6, PieceOf
  <2> HIDE DEF u
  <2>3. pad <= Len(u) /\ Len(u) - pad = Len(message)
    BY <1>3, <2>1
  <2>4. Unpad(u, pad) = message
    BY <2>2, <2>3, Zenon DEF Unpad
  <2> QED
    BY <2>4 DEF u
<1> QED
  BY <1>10, <1>11, Zenon DEF d, pad

LEMMA FrameBegins ==
    ASSUME NEW message \in Bytes, Closed(message)
    PROVE  \E y \in Bytes : BuildFrame(message) = Start \o y
<1> DEFINE x == Body(message)
           b == EndBlock(message)
           c == Crc16Sml(Framed(message))
           s == Start
<1>1. /\ x \in Bytes /\ BuildFrame(message) = ((s \o x) \o b) \o c /\ Opening(message) \in Bytes
      /\ Framed(message) = Opening(message) \o b
  BY FrameParts DEF Framed, Opening
<1>2. b \in Bytes
  BY FrameParts, EndBlockBytes DEF EndBlock
<1>3. c \in Bytes
  <2>1. Framed(message) \in Bytes
    BY <1>1, <1>2, Longer, Zenon
  <2> QED
    BY <2>1, CrcIsBytes
<1>4. s \in Bytes
  BY Patterns
<1> HIDE DEF x, b, c, s
<1>5. ((s \o x) \o b) \o c = s \o ((x \o b) \o c)
  <2>1. x \in Seq(Byte) /\ b \in Seq(Byte) /\ c \in Seq(Byte) /\ s \in Seq(Byte)
    BY <1>1, <1>2, <1>3, <1>4 DEF Bytes
  <2>2. s \o (x \o b) = (s \o x) \o b
    BY <2>1, Regrouped, SMTT(30)
  <2> DEFINE xb == x \o b
  <2>3. xb \in Seq(Byte)
    BY <2>1
  <2> HIDE DEF xb
  <2>4. s \o (xb \o c) = (s \o xb) \o c
    BY <2>1, <2>3, Regrouped, SMTT(30)
  <2> QED
    BY <2>2, <2>4, Zenon DEF xb
<1>6. (x \o b) \o c \in Bytes
  <2>1. x \o b \in Bytes
    BY <1>1, <1>2, Longer, Zenon
  <2> QED
    BY <1>3, <2>1, Longer, Zenon
<1> QED
  BY <1>1, <1>5, <1>6, Zenon DEF s

\* What build_frame writes _scan_one reads: the message itself comes out, and all
\* that follows the frame is left, whether checksums are verified or not
\* (sml/builder.py:135-147, sml/parser.py:245-301).
THEOREM FrameReadBack ==
    ASSUME NEW message \in Bytes, Closed(message), NEW more \in Bytes, NEW check
    PROVE  ScanOne(BuildFrame(message) \o more, check) = Found(message, more)
<1> DEFINE B == Opening(message)
           pad == Padding(message)
           frame == B \o (Escape \o <<EndMarker, pad>>)
           buf == (frame \o Crc16Sml(frame)) \o more
<1>1. pad \in 0..3 /\ B \in Bytes /\ 9 <= Len(B) /\ Closed(B) /\ From(B, 9) = Body(message)
  BY FrameParts, OpeningPasses
<1>2. BuildFrame(message) \o more = buf
  BY FrameParts, Zenon DEF Framed, EndBlock
<1>3. Passes(B, Len(B), 9)
  <2>1. Len(B) \in 8..Len(B) /\ B[Len(B)] # 27
    BY <1>1 DEF Closed, Bytes
  <2> QED
    BY <2>1, OpeningPasses
<1> HIDE DEF B, pad
<1>4. ScanBody(buf, 9, check) = Found(Unpad(Deframe(From(B, 9)), pad), more)
  <2>1. B[Len(B)] # 27
    BY <1>1 DEF Closed
  <2> QED
    BY <1>1, <1>3, <2>1, ScanEnd, ZenonT(60)
<1>5. Unpad(Deframe(From(B, 9)), pad) = message
  BY <1>1, MessageBack, Zenon DEF pad
<1>6. ScanOne(buf, check) = ScanBody(buf, 9, check)
  <2>1. frame \in Bytes
    <3>1. Escape \o <<EndMarker, pad>> \in Bytes
      BY <1>1, EndBlockBytes
    <3> QED
      BY <1>1, <3>1, Longer
  <2>2. buf \in Bytes
    <3> HIDE DEF frame
    <3>1. Crc16Sml(frame) \in Bytes
      BY <2>1, CrcIsBytes
    <3>2. frame \o Crc16Sml(frame) \in Bytes
      BY <2>1, <3>1, Longer, Zenon
    <3> QED
      BY <3>2, Longer, Zenon
  <2>3. PICK y \in Bytes : buf = Start \o y
    <3>1. PICK z \in Bytes : BuildFrame(message) = Start \o z
      BY FrameBegins
    <3> DEFINE s == Start
    <3>2. buf = (s \o z) \o more
      BY <1>2, <3>1, Zenon
    <3> HIDE DEF s, buf
    <3>3. s \o (z \o more) = (s \o z) \o more
      <4>1. s \in Seq(Byte) /\ z \in Seq(Byte) /\ more \in Seq(Byte)
        BY Patterns DEF Bytes, s
      <4> QED
        BY <4>1, Regrouped, SMTT(30)
    <3>4. z \o more \in Bytes
      BY Longer, Zenon
    <3> QED
      BY <3>2, <3>3, <3>4, Zenon DEF s
  <2> HIDE DEF buf
  <2>4. Find(buf, Start, 1) = 1
    BY <2>3, StartFound, Zenon
  <2>5. From(buf, 1) = buf
    BY <2>2, FromFirst
  <2> QED
    BY <2>4, <2>5, OneFrom
<1> QED
  BY <1>2, <1>4, <1>5, <1>6, Zenon

-----------------------------------------------------------------------------
(* What a frame finds before it.                                           *)

\* No frame has begun in b.
Idle(b) == \A p \in 1..Len(b) : ~At(b, p, Start)

\* A frame has begun at the first byte of b, and what may come next is not
\* taken for a part of an escape that began before it.
Poised(b) ==
    /\ At(b, 1, Start) /\ Closed(b)
    /\ \E j \in 9..(Len(b) + 1) :
         /\ \A p \in j..Len(b) : ~At(b, p, Escape)
         /\ \A x \in Bytes : \A check :
              x = <<>> \/ x[1] # 1 => ScanBody(b \o x, 9, check) = ScanBody(b \o x, j, check)

LEMMA TakeNothing ==
    ASSUME NEW b \in Bytes, NEW check, ScanOne(b, check) = Wait(b)
    PROVE  TakeFrames(b, check).buffer = b /\ TakeFrames(b, check).results = <<>>
<1>1. TakeFrames(b, check) = TakeTurn(b, check)
  BY TakeTurns
<1> QED
  BY <1>1 DEF TakeTurn, Taken, Wait

LEMMA IdleWaits ==
    ASSUME NEW b \in Bytes, Idle(b), NEW check
    PROVE  TakeFrames(b, check).buffer = b /\ TakeFrames(b, check).results = <<>>
<1>1. Find(b, Start, 1) = 0
  BY FindFirst DEF Idle
<1>2. ScanOne(b, check) = Wait(b)
  BY <1>1 DEF ScanOne
<1> QED
  BY <1>2, TakeNothing

\* The start escape at the beginning is found, whatever follows.
LEMMA StartThere ==
    ASSUME NEW b \in Bytes, At(b, 1, Start), NEW x \in Bytes, NEW check
    PROVE  ScanOne(b \o x, check) = ScanBody(b \o x, 9, check)
<1> DEFINE u == b \o x
<1>1. u \in Bytes /\ Len(u) \in Nat
  BY Longer
<1>2. Find(u, Start, 1) = 1
  <2>1. 1 \in 1..Len(b) /\ 1 + Len(Start) - 1 <= Len(b) /\ 1 \in Nat \ {0}
    <3>1. Len(b) \in Nat /\ 8 <= Len(b)
      BY Patterns DEF At, Bytes
    <3> QED
      BY <3>1, Patterns
  <2>2. Find(b, Start, 1) = 1
    <3>1. \A p \in 1..(1 - 1) : ~At(b, p, Start)
      OBVIOUS
    <3> QED
      BY <2>1, <3>1, FindIs
  <2> QED
    BY <2>2, FindLonger, Patterns
<1> HIDE DEF u
<1>3. ScanOne(u, check) = ScanBody(From(u, 1), 9, check)
  BY <1>2, OneFrom
<1>4. From(u, 1) = u
  BY <1>1, FromFirst
<1> QED
  BY <1>3, <1>4 DEF u

LEMMA PoisedWaits ==
    ASSUME NEW b \in Bytes, Poised(b), NEW check
    PROVE  TakeFrames(b, check).buffer = b /\ TakeFrames(b, check).results = <<>>
<1>1. PICK j \in 9..(Len(b) + 1) :
         /\ \A p \in j..Len(b) : ~At(b, p, Escape)
         /\ \A x \in Bytes : \A c :
              x = <<>> \/ x[1] # 1 => ScanBody(b \o x, 9, c) = ScanBody(b \o x, j, c)
  BY Zenon DEF Poised
<1>2. <<>> \in Bytes /\ b \o <<>> = b /\ Len(b) \in Nat
  BY DEF Bytes
<1>3. ScanBody(b, 9, check) = ScanBody(b, j, check)
  <2>1. ScanBody(b \o <<>>, 9, check) = ScanBody(b \o <<>>, j, check)
    BY <1>1, <1>2, Zenon
  <2> QED
    BY <1>2, <2>1, Zenon
<1>4. j \in Nat \ {0}
  BY <1>2
<1>5. Find(b, Escape, j) = 0
  BY <1>1, <1>4, FindFirst
<1>6. ScanBody(b, j, check) = Wait(b)
  BY <1>4, <1>5, ScanTurns DEF ScanTurn
<1>7. ScanOne(b, check) = ScanBody(b, 9, check)
  <2>1. ScanOne(b \o <<>>, check) = ScanBody(b \o <<>>, 9, check)
    BY <1>2, StartThere, Zenon DEF Poised
  <2> QED
    BY <1>2, <2>1, Zenon
<1>8. ScanOne(b, check) = Wait(b)
  BY <1>3, <1>6, <1>7, Zenon
<1> QED
  BY <1>8, TakeNothing

\* A start escape that begins in b and ends behind it.
LEMMA StartAcross ==
    ASSUME NEW b \in Bytes, Idle(b), NEW x \in Bytes, NEW p \in 1..Len(b), At(b \o x, p, Start)
    PROVE  \E k \in 1..7 : 8 - k <= Len(x) /\ \A i \in 1..(8 - k) : x[i] = Start[k + i]
<1> DEFINE n == Len(b)
           u == b \o x
<1>0. n \in Nat /\ Len(x) \in Nat /\ u \in Bytes /\ Len(u) = n + Len(x) /\ \A k \in 1..Len(x) : u[n + k] = x[k]
  BY Longer
<1>1. n < p + 7
  <2> SUFFICES ASSUME p + 7 <= n PROVE FALSE
    BY <1>0
  <2>1. p \in Nat \ {0} /\ p + Len(Start) - 1 <= Len(b)
    BY <1>0, Patterns
  <2>2. At(b, p, Start)
    BY <2>1, AtLonger, Patterns
  <2> QED
    BY <2>2 DEF Idle
<1> HIDE DEF u, n
<1>2. p + 8 - 1 <= Len(u) /\ \A k \in 1..8 : u[p + k - 1] = Start[k]
  <2>1. At(u, p, Start)
    BY DEF u
  <2>2. p + Len(Start) - 1 <= Len(u) /\ \A k \in DOMAIN Start : u[p + k - 1] = Start[k]
    BY <2>1, Zenon DEF At
  <2> QED
    BY <2>2, Patterns, PatternBytes
<1> DEFINE k == n + 1 - p
<1>3. k \in 1..7 /\ 8 - k <= Len(x)
  <2>1. p \in 1..n
    BY DEF n
  <2>2. p \in Nat /\ 1 <= p /\ p <= n
    BY <1>0, <2>1
  <2>3. p + 8 - 1 <= n + Len(x)
    BY <1>0, <1>2, Zenon
  <2> QED
    BY <1>0, <1>1, <2>2, <2>3
<1>4. ASSUME NEW i \in 1..(8 - k) PROVE x[i] = Start[k + i]
  <2>1. k + i \in 1..8 /\ p + (k + i) - 1 = n + i /\ i \in 1..Len(x)
    BY <1>0, <1>3
  <2> QED
    BY <1>0, <1>2, <2>1
<1> HIDE DEF k
<1> QED
  BY <1>3, <1>4, Zenon

\* Then the next bytes cannot be noise, nor a frame.
LEMMA NotAcross ==
    ASSUME NEW b \in Bytes, Idle(b), NEW x \in Bytes,
           x[1] \notin {1, 27} \/ (\A i \in 1..Len(x) : i <= 4 => x[i] = 27)
    PROVE  \A p \in 1..Len(b) : ~At(b \o x, p, Start)
<1> SUFFICES ASSUME NEW p \in 1..Len(b), At(b \o x, p, Start) PROVE FALSE
  OBVIOUS
<1>1. PICK k \in 1..7 : 8 - k <= Len(x) /\ \A i \in 1..(8 - k) : x[i] = Start[k + i]
  BY StartAcross, Zenon
<1>2. /\ \A i \in 1..4 : Start[i] = 27
      /\ \A i \in 5..8 : Start[i] = 1
      /\ Len(x) \in Nat
  BY PatternBytes DEF Bytes
<1>3. x[1] \in {1, 27} /\ ~(k >= 4 /\ x[1] = 27)
  <2>1. 1 \in 1..(8 - k) /\ (k + 1 \in 1..4 \/ k + 1 \in 5..8)
    OBVIOUS
  <2>2. x[1] = Start[k + 1]
    BY <1>1, <2>1
  <2>3. k >= 4 => k + 1 \in 5..8
    OBVIOUS
  <2> QED
    BY <1>2, <2>1, <2>2, <2>3
<1>4. \A i \in 1..Len(x) : i <= 4 => x[i] = 27
  BY <1>3
<1>5. k < 4
  <2>1. 1 \in 1..Len(x) /\ 1 <= 4
    BY <1>1, <1>2
  <2> QED
    BY <1>3, <1>4, <2>1
<1>6. 4 \in 1..(8 - k) /\ k + 4 \in 5..8 /\ 4 \in 1..Len(x)
  BY <1>1, <1>2, <1>5, SMTT(30)
<1>7. x[4] = 1
  BY <1>1, <1>2, <1>6
<1>8. x[4] = 27
  BY <1>4, <1>6
<1> QED
  BY <1>7, <1>8

LEMMA IdleLonger ==
    ASSUME NEW b \in Bytes, Idle(b), NEW x \in Bytes,
           x[1] \notin {1, 27} \/ (\A i \in 1..Len(x) : i <= 4 => x[i] = 27),
           \A p \in 1..Len(x) : ~At(x, p, Start)
    PROVE  Idle(b \o x)
<1> DEFINE u == b \o x
<1>0. Len(u) = Len(b) + Len(x) /\ Len(b) \in Nat /\ Len(x) \in Nat
  BY Longer
<1>1. \A p \in 1..Len(b) : ~At(u, p, Start)
  BY NotAcross
<1>2. \A p \in 1..Len(x) : ~At(u, Len(b) + p, Start)
  <2> SUFFICES ASSUME NEW p \in 1..Len(x) PROVE ~At(u, Len(b) + p, Start)
    OBVIOUS
  <2>1. p \in Nat \ {0}
    BY <1>0
  <2>2. At(u, Len(b) + p, Start) <=> At(x, p, Start)
    BY <2>1, AtBehind, Patterns
  <2> QED
    BY <2>2
<1> HIDE DEF u
<1>3. ASSUME NEW p \in 1..Len(u) PROVE ~At(u, p, Start)
  <2>1. CASE p <= Len(b)
    <3>1. p \in 1..Len(b)
      BY <1>0, <2>1
    <3> QED
      BY <1>1, <3>1
  <2>2. CASE p > Len(b)
    <3>1. p - Len(b) \in 1..Len(x) /\ Len(b) + (p - Len(b)) = p
      BY <1>0, <2>2
    <3>2. ~At(u, Len(b) + (p - Len(b)), Start)
      BY <1>2, <3>1, Zenon
    <3> QED
      BY <3>1, <3>2, Zenon
  <2> QED
    BY <1>0, <2>1, <2>2
<1> QED
  BY <1>3 DEF Idle, u

\* A start escape begins with an escape.
LEMMA StartIsEscape ==
    ASSUME NEW x \in Bytes, NEW p \in Nat \ {0}, At(x, p, Start)
    PROVE  At(x, p, Escape) /\ p + 7 <= Len(x)
<1>1. p + 7 <= Len(x) /\ \A k \in 1..4 : x[p + k - 1] = 27
  BY PatternAt
<1>2. p + 3 <= Len(x)
  BY <1>1 DEF Bytes
<1> QED
  BY <1>1, <1>2, PatternAt

LEMMA IdleNoise ==
    ASSUME NEW b \in Bytes, Idle(b), NEW x \in Bytes, Dull(x)
    PROVE  Idle(b \o x)
<1>1. x[1] \notin {1, 27}
  BY DEF Dull
<1>2. \A p \in 1..Len(x) : ~At(x, p, Start)
  <2>1. \A p \in 1..Len(x) : p \in Nat \ {0}
    BY DEF Bytes
  <2> QED
    BY <2>1, StartIsEscape DEF Dull
<1> QED
  BY <1>1, <1>2, IdleLonger

\* So it is with the first bytes of a start escape.
LEMMA IdleShort ==
    ASSUME NEW b \in Bytes, Idle(b), NEW x \in Bytes, Len(x) < 8,
           \A i \in 1..Len(x) : i <= 4 => x[i] = 27
    PROVE  Idle(b \o x)
<1>1. \A p \in 1..Len(x) : ~At(x, p, Start)
  <2> SUFFICES ASSUME NEW p \in 1..Len(x), At(x, p, Start) PROVE FALSE
    OBVIOUS
  <2>1. p \in Nat \ {0} /\ Len(x) \in Nat
    BY DEF Bytes
  <2>2. p + 7 <= Len(x)
    BY <2>1, StartIsEscape
  <2> QED
    BY <2>1, <2>2
<1> QED
  BY <1>1, IdleLonger

\* The next frame is taken as if it came first.
LEMMA IdleStart ==
    ASSUME NEW b \in Bytes, Idle(b), NEW y \in Bytes, NEW check
    PROVE  TakeFrames(b \o (Start \o y), check) = TakeFrames(Start \o y, check)
<1> DEFINE x == Start \o y
           u == b \o x
           n == Len(b)
<1>1. x \in Bytes /\ Len(x) = 8 + Len(y) /\ Len(y) \in Nat /\ \A k \in 1..4 : x[k] = 27
  <2>1. x \in Bytes /\ Len(x) = Len(Start) + Len(y) /\ Len(y) \in Nat /\ \A k \in 1..Len(Start) : x[k] = Start[k]
    BY Patterns, Longer, Zenon
  <2>2. \A k \in 1..4 : Start[k] = 27 /\ k \in 1..8
    BY PatternBytes
  <2> HIDE DEF x
  <2> QED
    BY <2>1, <2>2, Patterns
<1>2. Find(x, Start, 1) = 1
  BY StartFound
<1> HIDE DEF x
<1>3. u \in Bytes /\ Len(u) = n + Len(x) /\ n \in Nat
  BY <1>1, Longer
<1>4. \A p \in 1..n : ~At(u, p, Start)
  <2>1. \A i \in 1..Len(x) : i <= 4 => x[i] = 27
    BY <1>1
  <2> QED
    BY <1>1, <2>1, NotAcross
<1>5. At(u, n + 1, Start)
  <2>1. At(x, 1, Start)
    <3>1. 1 \in Nat \ {0}
      OBVIOUS
    <3> QED
      BY <1>1, <1>2, <3>1, FindFirst
  <2>2. At(u, n + 1, Start) <=> At(x, 1, Start)
    BY <1>1, AtBehind, Patterns
  <2> QED
    BY <2>1, <2>2
<1>6. From(u, n + 1) = x
  BY <1>1, PieceOf
<1> HIDE DEF u, n
<1>7. Find(u, Start, 1) = n + 1
  <2>1. n + 1 \in 1..Len(u) /\ \A p \in 1..((n + 1) - 1) : ~At(u, p, Start)
    BY <1>1, <1>3, <1>4
  <2> QED
    BY <1>3, <1>5, <2>1, FindIs
<1>8. ScanOne(u, check) = ScanBody(x, 9, check)
  <2>1. n + 1 # 0
    BY <1>3
  <2> QED
    BY <1>6, <1>7, <2>1, OneFrom
<1>9. ScanOne(x, check) = ScanBody(x, 9, check)
  <2>1. From(x, 1) = x
    BY <1>1, FromFirst
  <2> QED
    BY <1>2, <2>1, OneFrom
<1>10. TakeFrames(u, check) = TakeTurn(u, check) /\ TakeFrames(x, check) = TakeTurn(x, check)
  BY <1>1, <1>3, TakeTurns
<1> QED
  BY <1>8, <1>9, <1>10, Zenon DEF TakeTurn, u, x

LEMMA PoisedStart ==
    ASSUME NEW b \in Bytes, Poised(b), NEW y \in Bytes, NEW check
    PROVE  TakeFrames(b \o (Start \o y), check) = TakeFrames(Start \o y, check)
<1> DEFINE x == Start \o y
           u == b \o x
           n == Len(b)
<1>1. x \in Bytes /\ Len(x) = 8 + Len(y) /\ Len(y) \in Nat /\ \A k \in 1..4 : x[k] = 27
  <2>1. x \in Bytes /\ Len(x) = Len(Start) + Len(y) /\ Len(y) \in Nat /\ \A k \in 1..Len(Start) : x[k] = Start[k]
    BY Patterns, Longer, Zenon
  <2>2. \A k \in 1..4 : Start[k] = 27 /\ k \in 1..8
    BY PatternBytes
  <2> HIDE DEF x
  <2> QED
    BY <2>1, <2>2, Patterns
<1>2. At(x, 1, Start)
  <2>1. Find(x, Start, 1) = 1
    BY StartFound
  <2> HIDE DEF x
  <2>2. 1 \in Nat \ {0}
    OBVIOUS
  <2> QED
    BY <1>1, <2>1, <2>2, FindFirst
<1> HIDE DEF x
<1>3. u \in Bytes /\ Len(u) = n + Len(x) /\ n \in Nat
  BY <1>1, Longer
<1>4. PICK j \in 9..(n + 1) :
         /\ \A p \in j..n : ~At(b, p, Escape)
         /\ \A z \in Bytes : \A c :
              z = <<>> \/ z[1] # 1 => ScanBody(b \o z, 9, c) = ScanBody(b \o z, j, c)
  BY Zenon DEF Poised
<1>5. ScanBody(u, 9, check) = ScanBody(u, j, check)
  <2>1. x[1] # 1
    BY <1>1
  <2> QED
    BY <1>1, <1>4, <2>1, Zenon
<1>6. Find(u, Escape, j) = n + 1
  <2>1. j \in 1..(Len(b) + 1) /\ 4 <= Len(x) /\ b # <<>> /\ b[Len(b)] # 27
    BY <1>1, <1>3 DEF Poised, Closed
  <2> QED
    BY <1>1, <1>4, <2>1, FindsEnd
<1>7. At(u, n + 1, Start)
  <2>1. 1 \in Nat \ {0}
    OBVIOUS
  <2>2. At(u, n + 1, Start) <=> At(x, 1, Start)
    BY <1>1, <2>1, AtBehind, Patterns
  <2> QED
    BY <1>2, <2>2
<1>8. From(u, n + 1) = x
  BY <1>1, PieceOf
<1>9. ScanOne(u, check) = ScanBody(u, 9, check)
  BY <1>1, StartThere, Zenon DEF Poised
<1> HIDE DEF u, n
<1>10. ScanBody(u, j, check) = Rescan(x)
  <2>1. j \in Nat \ {0} /\ n + 1 # 0 /\ ~((n + 1) + 4 > Len(u))
    BY <1>1, <1>3
  <2> QED
    BY <1>3, <1>6, <1>7, <1>8, <2>1, ScanTurns DEF ScanTurn
<1>11. ScanOne(u, check) = Rescan(x)
  BY <1>5, <1>9, <1>10, Zenon
<1>12. TakeFrames(u, check) = TakeTurn(u, check)
  BY <1>3, TakeTurns
<1>13. TakeTurn(u, check) = TakeFrames(x, check)
  BY <1>11 DEF TakeTurn, Taken, Rescan
<1> QED
  BY <1>12, <1>13, Zenon DEF u, x

LEMMA StillBegun ==
    ASSUME NEW b \in Bytes, At(b, 1, Start), NEW x \in Bytes
    PROVE  At(b \o x, 1, Start)
<1>1. 1 \in Nat \ {0} /\ 1 + Len(Start) - 1 <= Len(b)
  BY DEF At
<1> QED
  BY <1>1, AtLonger, Patterns

LEMMA PoisedNoise ==
    ASSUME NEW b \in Bytes, Poised(b), NEW x \in Bytes, Dull(x), x[Len(x)] # 27
    PROVE  Poised(b \o x)
<1> DEFINE u == b \o x
           n == Len(b)
<1>0. u \in Bytes /\ Len(u) = n + Len(x) /\ n \in Nat /\ Len(x) \in Nat /\ x # <<>>
  BY Longer DEF Dull
<1>1. PICK j \in 9..(n + 1) :
         /\ \A p \in j..n : ~At(b, p, Escape)
         /\ \A z \in Bytes : \A c :
              z = <<>> \/ z[1] # 1 => ScanBody(b \o z, 9, c) = ScanBody(b \o z, j, c)
  BY Zenon DEF Poised
<1>2. At(u, 1, Start)
  BY StillBegun DEF Poised
<1>3. Closed(u)
  BY <1>0, ClosedBehind DEF Closed
<1>4. \A p \in 1..Len(x) : ~At(u, n + p, Escape)
  <2> SUFFICES ASSUME NEW p \in 1..Len(x) PROVE ~At(u, n + p, Escape)
    OBVIOUS
  <2>1. p \in Nat \ {0} /\ ~At(x, p, Escape)
    BY <1>0 DEF Dull
  <2> QED
    BY <2>1, AtBehind, Patterns
<1>5. \A p \in 1..n : At(u, p, Escape) <=> At(b, p, Escape)
  <2>1. b[n] # 27
    BY DEF Poised, Closed
  <2> QED
    BY <2>1, EscapeLonger
<1>6. ASSUME NEW y \in Bytes, NEW c PROVE ScanBody(u \o y, 9, c) = ScanBody(u \o y, j, c)
  <2> DEFINE z == x \o y
  <2>1. z \in Bytes /\ z[1] = x[1]
    <3>1. z \in Bytes /\ \A k \in 1..Len(x) : z[k] = x[k]
      BY Longer
    <3>2. 1 \in 1..Len(x)
      BY <1>0
    <3> QED
      BY <3>1, <3>2
  <2>2. x[1] # 1
    BY DEF Dull
  <2> HIDE DEF z
  <2>3. ScanBody(b \o z, 9, c) = ScanBody(b \o z, j, c)
    BY <1>1, <2>1, <2>2, Zenon
  <2>4. b \o z = u \o y
    <3>1. b \in Seq(Byte) /\ x \in Seq(Byte) /\ y \in Seq(Byte)
      BY DEF Bytes
    <3> QED
      BY <3>1, Regrouped, SMTT(30) DEF z
  <2> QED
    BY <2>3, <2>4, Zenon
<1> HIDE DEF u, n
<1>7. j \in 9..(Len(u) + 1)
  BY <1>0
<1>8. ASSUME NEW p \in j..Len(u) PROVE ~At(u, p, Escape)
  <2>1. CASE p <= n
    <3>1. p \in j..n /\ p \in 1..n
      BY <1>0, <2>1
    <3> QED
      BY <1>1, <1>5, <3>1
  <2>2. CASE p > n
    <3>1. p - n \in 1..Len(x) /\ n + (p - n) = p
      BY <1>0, <2>2
    <3>2. ~At(u, n + (p - n), Escape)
      BY <1>4, <3>1, Zenon
    <3> QED
      BY <3>1, <3>2, Zenon
  <2> QED
    BY <1>0, <2>1, <2>2
<1>9. Poised(u)
  BY <1>2, <1>3, <1>6, <1>7, <1>8, Zenon DEF Poised
<1> QED
  BY <1>9 DEF u

\* A part of a start escape that is not only an escape.
LEMMA PoisedShort ==
    ASSUME NEW b \in Bytes, Poised(b), NEW m \in 5..7,
           NEW x \in Bytes, Len(x) = m, \A i \in 1..m : x[i] = Start[i]
    PROVE  Poised(b \o x)
<1> DEFINE u == b \o x
           n == Len(b)
<1>0. u \in Bytes /\ Len(u) = n + m /\ n \in Nat /\ m \in Nat /\ 5 <= m /\ m <= 7
  <2>1. u \in Bytes /\ Len(u) = n + Len(x) /\ n \in Nat
    BY Longer
  <2> HIDE DEF u, n
  <2> QED
    BY <2>1
<1>1. PICK i \in 9..(n + 1) :
         /\ \A p \in i..n : ~At(b, p, Escape)
         /\ \A z \in Bytes : \A c :
              z = <<>> \/ z[1] # 1 => ScanBody(b \o z, 9, c) = ScanBody(b \o z, i, c)
  BY Zenon DEF Poised
<1>2. At(u, 1, Start)
  BY StillBegun DEF Poised
<1>3. \A k \in 1..4 : x[k] = 27
  <2>1. \A k \in 1..4 : k \in 1..m /\ Start[k] = 27
    BY <1>0, PatternBytes
  <2> QED
    BY <2>1
<1>4. \A k \in 5..m : x[k] = 1
  <2>1. \A k \in 5..m : k \in 1..m /\ Start[k] = 1
    BY <1>0, PatternBytes
  <2> QED
    BY <2>1
<1>5. Closed(u)
  <2>1. m \in 5..m
    BY <1>0
  <2>2. x # <<>> /\ x[m] # 27
    BY <1>4, <2>1
  <2> QED
    BY <2>2, ClosedBehind DEF Closed
<1>6. ASSUME NEW q \in 5..m PROVE ~At(u, n + q, Escape)
  <2>1. q \in Nat \ {0} /\ ~(q + 3 <= m)
    BY <1>0
  <2>2. ~At(x, q, Escape)
    BY <2>1, PatternAt
  <2> QED
    BY <2>1, <2>2, AtBehind, Patterns
<1>7. ASSUME NEW y \in Bytes, NEW c, y = <<>> \/ y[1] # 1
      PROVE  ScanBody(u \o y, 9, c) = ScanBody(u \o y, n + 5, c)
  <2> DEFINE z == x \o y
             buf == b \o z
  <2>1. /\ z \in Bytes /\ Len(z) = m + Len(y) /\ Len(y) \in Nat
        /\ \A k \in 1..m : z[k] = x[k]
        /\ \A k \in 1..Len(y) : z[m + k] = y[k]
    BY Longer
  <2> HIDE DEF z
  <2>2. buf \in Bytes /\ Len(buf) = n + Len(z) /\ \A k \in 1..Len(z) : buf[n + k] = z[k]
    BY <2>1, Longer
  <2> HIDE DEF buf
  <2>3. z[5] = 1 /\ \A k \in 1..4 : z[k] = 27 /\ k \in 1..Len(z)
    BY <1>3, <1>4, <2>1
  <2>4. ScanBody(buf, 9, c) = ScanBody(buf, i, c)
    <3>1. z[1] # 1
      BY <2>3
    <3> QED
      BY <1>1, <2>1, <3>1, Zenon DEF buf
  <2>5. Find(buf, Escape, i) = n + 1
    <3>1. b # <<>> /\ b[n] # 27 /\ i \in 1..(n + 1) /\ 4 <= Len(z)
      BY <1>0, <2>1 DEF Poised, Closed
    <3> QED
      BY <1>1, <2>1, <2>3, <3>1, FindsEnd, ZenonT(60) DEF buf
  <2>6. ~At(buf, n + 1, Start)
    <3>1. ~At(z, 1, Start)
      <4> SUFFICES ASSUME At(z, 1, Start) PROVE FALSE
        OBVIOUS
      <4>1. 1 + 7 <= Len(z) /\ \A k \in 5..8 : z[1 + k - 1] = 1
        <5>1. 1 \in Nat \ {0}
          OBVIOUS
        <5> QED
          BY <2>1, <5>1, PatternAt
      <4>2. m + 1 \in 5..8 /\ 1 + (m + 1) - 1 = m + 1 /\ 1 \in 1..Len(y)
        BY <1>0, <2>1, <4>1
      <4>3. z[m + 1] = 1 /\ z[m + 1] = y[1]
        BY <2>1, <4>1, <4>2
      <4>4. y # <<>>
        BY <4>2
      <4> QED
        BY <1>7, <4>3, <4>4
    <3>2. 1 \in Nat \ {0}
      OBVIOUS
    <3> QED
      BY <2>1, <3>1, <3>2, AtBehind, Patterns DEF buf
  <2>7. 5 \in 1..Len(z) /\ (n + 1) + 4 = n + 5 /\ buf[n + 5] = 1
    <3>1. 5 \in 1..Len(z)
      BY <1>0, <2>1
    <3> QED
      BY <1>0, <2>2, <2>3, <3>1
  <2>8. ~At(buf, n + 1, Escape \o Escape)
    <3> SUFFICES ASSUME At(buf, n + 1, Escape \o Escape) PROVE FALSE
      OBVIOUS
    <3>1. n + 1 \in Nat \ {0}
      BY <1>0
    <3>2. \A k \in 1..8 : buf[(n + 1) + k - 1] = 27
      BY <2>2, <3>1, PatternAt
    <3>3. 5 \in 1..8 /\ (n + 1) + 5 - 1 = n + 5
      BY <1>0
    <3> QED
      BY <2>7, <3>2, <3>3
  <2>9. buf[(n + 1) + 4] # EndMarker
    BY <2>7 DEF EndMarker
  <2>10. ~(n + 1 = 0 \/ (n + 1) + 4 > Len(buf)) /\ i \in Nat \ {0}
    BY <1>0, <2>1, <2>2
  <2> HIDE DEF n
  <2>11. ScanBody(buf, i, c) = ScanBody(buf, (n + 1) + 4, c)
    <3> DEFINE esc == n + 1
    <3>1. /\ Find(buf, Escape, i) = esc /\ ~(esc = 0 \/ esc + 4 > Len(buf))
          /\ ~At(buf, esc, Start) /\ ~At(buf, esc, Escape \o Escape) /\ buf[esc + 4] # EndMarker
      BY <2>5, <2>6, <2>8, <2>9, <2>10
    <3> HIDE DEF esc
    <3>2. ScanTurn(buf, i, c) = ScanBody(buf, esc + 4, c)
      BY <3>1 DEF ScanTurn
    <3>3. ScanBody(buf, i, c) = ScanTurn(buf, i, c)
      BY <2>2, <2>10, ScanTurns
    <3> QED
      BY <3>2, <3>3 DEF esc
  <2>12. buf = u \o y
    <3>1. b \in Seq(Byte) /\ x \in Seq(Byte) /\ y \in Seq(Byte)
      BY DEF Bytes
    <3> QED
      BY <3>1, Regrouped, SMTT(30) DEF z, buf
  <2> QED
    BY <2>4, <2>7, <2>11, <2>12, Zenon
<1> HIDE DEF u, n
<1>8. n + 5 \in 9..(Len(u) + 1)
  BY <1>0, <1>1
<1>9. ASSUME NEW p \in (n + 5)..Len(u) PROVE ~At(u, p, Escape)
  <2>1. p - n \in 5..m /\ n + (p - n) = p
    BY <1>0
  <2>2. ~At(u, n + (p - n), Escape)
    BY <1>6, <2>1, Zenon
  <2> QED
    BY <2>1, <2>2, Zenon
<1>10. Poised(u)
  BY <1>2, <1>5, <1>7, <1>8, <1>9, Zenon DEF Poised
<1> QED
  BY <1>10 DEF u

\* The beginning of a frame, as long as it does not end in the byte of escapes.
LEMMA PrefixPoised ==
    ASSUME NEW message \in Bytes, Closed(message),
           NEW n \in 8..Len(Opening(message)), Opening(message)[n] # 27
    PROVE  Poised(SubSeq(Opening(message), 1, n))
<1> DEFINE B == Opening(message)
           u == SubSeq(B, 1, n)
<1>1. B \in Bytes /\ Len(B) \in Nat /\ B = Start \o Body(message) /\ Body(message) \in Bytes
  <2>1. B \in Bytes /\ B = Start \o Body(message) /\ Body(message) \in Bytes
    BY FrameParts DEF Opening
  <2> QED
    BY <2>1 DEF Bytes
<1>2. Passes(B, n, 9)
  BY OpeningPasses
<1>3. \A k \in 1..8 : B[k] = Start[k]
  <2>1. \A k \in 1..Len(Start) : (Start \o Body(message))[k] = Start[k]
    BY <1>1, Patterns, Longer, ZenonT(60)
  <2> QED
    BY <1>1, <2>1, Patterns, Zenon
<1> HIDE DEF B
<1>4. u \in Bytes /\ Len(u) = n /\ n \in Nat /\ \A k \in 1..n : u[k] = B[k]
  BY <1>1 DEF Bytes, B
<1> HIDE DEF u
<1>5. At(u, 1, Start)
  <2>1. \A k \in 1..8 : k \in 1..n /\ 1 + k - 1 = k
    BY <1>4 DEF B
  <2>2. \A k \in 1..8 : u[1 + k - 1] = Start[k]
    BY <1>3, <1>4, <2>1
  <2>3. 1 + Len(Start) - 1 <= Len(u)
    BY <1>4, Patterns
  <2> QED
    BY <2>2, <2>3, PatternBytes DEF At
<1>6. Closed(u)
  <2>1. n \in 1..n /\ n # 0
    BY <1>4
  <2>2. u[n] # 27
    BY <1>4, <2>1 DEF B
  <2>3. u # <<>>
    BY <1>4, <2>1
  <2> QED
    BY <1>4, <2>2, <2>3 DEF Closed
<1>7. PICK j \in 9..(n + 1) :
        /\ \A p \in j..n : ~At(B, p, Escape)
        /\ \A buf \in Bytes : \A check :
             Len(buf) >= n /\ (\A k \in 1..n : buf[k] = B[k])
                => ScanBody(buf, 9, check) = ScanBody(buf, j, check)
  BY <1>2 DEF Passes
<1>8. ASSUME NEW p \in j..n PROVE ~At(u, p, Escape)
  <2> SUFFICES ASSUME At(u, p, Escape) PROVE FALSE
    OBVIOUS
  <2>1. p \in Nat \ {0}
    BY <1>4
  <2>2. p + 3 <= n /\ \A k \in 1..4 : u[p + k - 1] = 27
    BY <1>4, <2>1, PatternAt
  <2>3. \A k \in 1..4 : p + k - 1 \in 1..n
    BY <1>4, <2>1, <2>2
  <2>4. \A k \in 1..4 : B[p + k - 1] = 27
    BY <1>4, <2>2, <2>3
  <2>5. p + 3 <= Len(B)
    BY <1>1, <1>4, <2>1, <2>2 DEF B
  <2>6. At(B, p, Escape)
    BY <1>1, <2>1, <2>4, <2>5, PatternAt
  <2> QED
    BY <1>7, <2>6
<1>9. ASSUME NEW x \in Bytes, NEW c PROVE ScanBody(u \o x, 9, c) = ScanBody(u \o x, j, c)
  <2> DEFINE buf == u \o x
  <2>1. buf \in Bytes /\ Len(buf) = n + Len(x) /\ Len(x) \in Nat /\ \A k \in 1..n : buf[k] = u[k]
    BY <1>4, Longer
  <2> HIDE DEF buf
  <2>2. Len(buf) >= n /\ \A k \in 1..n : buf[k] = B[k]
    BY <1>4, <2>1
  <2>3. ScanBody(buf, 9, c) = ScanBody(buf, j, c)
    BY <1>7, <2>1, <2>2, Zenon
  <2> QED
    BY <2>3 DEF buf
<1>10. Poised(u)
  BY <1>4, <1>5, <1>6, <1>7, <1>8, <1>9, ZenonT(60) DEF Poised
<1> QED
  BY <1>10 DEF u, B

\* The message of a reading ends in a zero.
LEMMA MessageClosed ==
    ASSUME NEW reading \in MeterReadings
    PROVE  Closed(BuildMessage(BuildGetListRes(reading)))
<1>1. PICK items \in Seq(Bytes) :
         /\ Len(items) = 6 /\ items[6] = <<0>>
         /\ BuildMessage(BuildGetListRes(reading)) = EncodeList(items)
  BY MessageItems
<1>2. PICK f : /\ FlattenSeq(items) = f[Len(items)]
               /\ \A i \in 1..Len(items) :
                    f[i] \in Bytes /\ f[i] = IF i = 1 THEN items[i] ELSE f[i - 1] \o items[i]
  <2>1. Len(items) # 0
    BY <1>1
  <2> QED
    BY <2>1, FlatParts
<1>3. 5 \in 1..Len(items) /\ 6 \in 1..Len(items) /\ 6 - 1 = 5 /\ 6 # 1
  BY <1>1
<1>4. f[5] \in Bytes /\ f[6] = f[5] \o <<0>>
  BY <1>1, <1>2, <1>3, Zenon
<1>5. Closed(<<0>>) /\ <<0>> \in Bytes
  BY DEF Closed, Bytes, Byte
<1> DEFINE last == <<0>>
           tl == TL(TypeList, Len(items), 0)
           flat == FlattenSeq(items)
<1>6. flat = f[5] \o last
  BY <1>1, <1>2, <1>4, Zenon
<1>7. Closed(last) /\ last \in Bytes
  BY <1>5
<1> HIDE DEF last, flat
<1>8. Closed(flat) /\ flat \in Bytes
  <2>1. Closed(f[5] \o last)
    BY <1>4, <1>7, ClosedBehind
  <2>2. f[5] \o last \in Bytes
    BY <1>4, <1>7, Longer, Zenon
  <2> QED
    BY <1>6, <2>1, <2>2, Zenon
<1>9. tl \in Bytes
  BY <1>1, TLIsBytes DEF Types
<1>10. EncodeList(items) = tl \o flat
  BY DEF EncodeList, flat
<1> HIDE DEF tl
<1>11. Closed(tl \o flat)
  BY <1>8, <1>9, ClosedBehind
<1> QED
  BY <1>1, <1>10, <1>11, Zenon

\* The first n bytes of a frame without those of its end block.
LEMMA CutFrame ==
    ASSUME NEW message \in Bytes, Closed(message), NEW n \in 1..(Len(BuildFrame(message)) - 4)
    PROVE  LET cut == SubSeq(BuildFrame(message), 1, n) IN
           /\ cut \in Bytes /\ Len(cut) = n
           /\ n < 8 => \A i \in 1..n : cut[i] = Start[i]
           /\ n >= 8 /\ BuildFrame(message)[n] # 27
                => /\ n \in 8..Len(Opening(message)) /\ Opening(message)[n] # 27
                   /\ cut = SubSeq(Opening(message), 1, n)
           /\ n >= 8 => \E y \in Bytes : cut = Start \o y
<1> DEFINE frame == BuildFrame(message)
           B == Opening(message)
           t == EndBlock(message)
           c == Crc16Sml(Framed(message))
           cut == SubSeq(frame, 1, n)
<1>1. frame = (B \o t) \o c /\ B \in Bytes /\ 9 <= Len(B) /\ Len(B) \in Nat /\ Framed(message) = B \o t
  <2>1. frame = (B \o t) \o c /\ B \in Bytes /\ 9 <= Len(B) /\ Framed(message) = B \o t
    BY FrameParts, OpeningPasses DEF Framed
  <2> HIDE DEF B
  <2> QED
    BY <2>1 DEF Bytes
<1>2. t \in Bytes /\ Len(t) = 6 /\ \A k \in 1..4 : t[k] = 27
  <2> DEFINE end == <<EndMarker, Padding(message)>>
  <2>1. end \in Bytes /\ Len(end) = 2 /\ t = Escape \o end
    <3>1. Padding(message) \in Byte /\ EndMarker \in Byte
      BY FrameParts DEF Byte, EndMarker
    <3> QED
      BY <3>1 DEF Bytes, EndBlock
  <2> HIDE DEF end, t
  <2>2. /\ Escape \o end \in Bytes /\ Len(Escape \o end) = Len(Escape) + Len(end)
        /\ \A k \in 1..Len(Escape) : (Escape \o end)[k] = Escape[k]
    BY <2>1, Patterns, Longer, Zenon
  <2>3. \A k \in 1..4 : (Escape \o end)[k] = 27
    BY <2>2, Patterns, PatternBytes, SMTT(30)
  <2> QED
    BY <2>1, <2>2, <2>3, Patterns
<1>3. c \in Bytes /\ Len(c) = 2
  <2>1. Framed(message) \in Bytes
    BY <1>1, <1>2, Longer, Zenon
  <2>2. c \in Bytes
    BY <2>1, CrcIsBytes
  <2>3. Len(c) = 2
    BY CrcOfTwo
  <2> QED
    BY <2>2, <2>3
<1>4. PICK y \in Bytes : frame = Start \o y
  BY FrameBegins
<1> HIDE DEF frame, B, t, c
<1>5. /\ B \o t \in Bytes /\ Len(B \o t) = Len(B) + 6
      /\ \A k \in 1..Len(B) : (B \o t)[k] = B[k]
      /\ \A k \in 1..6 : (B \o t)[Len(B) + k] = t[k]
  <2>1. /\ B \o t \in Bytes /\ Len(B \o t) = Len(B) + Len(t)
        /\ \A k \in 1..Len(B) : (B \o t)[k] = B[k]
        /\ \A k \in 1..Len(t) : (B \o t)[Len(B) + k] = t[k]
    BY <1>1, <1>2, Longer, ZenonT(60)
  <2> QED
    BY <1>2, <2>1, Zenon
<1> DEFINE head == B \o t
           m == Len(B)
<1>6. head \in Bytes /\ Len(head) = m + 6 /\ (\A k \in 1..m : head[k] = B[k]) /\ \A k \in 1..6 : head[m + k] = t[k]
  BY <1>5
<1> HIDE DEF head
<1>7. frame \in Bytes /\ Len(frame) = m + 8 /\ \A k \in 1..(m + 6) : frame[k] = head[k]
  <2>1. frame = head \o c
    BY <1>1 DEF head
  <2>2. head \o c \in Bytes /\ Len(head \o c) = Len(head) + Len(c) /\ \A k \in 1..Len(head) : (head \o c)[k] = head[k]
    BY <1>3, <1>6, Longer
  <2> QED
    BY <1>1, <1>3, <1>6, <2>1, <2>2, SMTT(30)
<1>8. n \in Nat \ {0} /\ n <= m + 4 /\ m \in Nat /\ 9 <= m
  BY <1>1, <1>7 DEF frame
<1>9. cut \in Bytes /\ Len(cut) = n /\ \A k \in 1..n : cut[k] = frame[k]
  BY <1>7, <1>8 DEF Bytes
<1>10. \A k \in 1..8 : frame[k] = Start[k]
  <2>1. \A k \in 1..Len(Start) : (Start \o y)[k] = Start[k]
    BY Patterns, Longer
  <2> QED
    BY <1>4, <2>1, Patterns, Zenon
<1>11. ASSUME n < 8, NEW i \in 1..n PROVE cut[i] = Start[i]
  <2>1. i \in 1..8
    BY <1>8, <1>11
  <2> QED
    BY <1>9, <1>10, <2>1
<1>12. ASSUME n >= 8, frame[n] # 27
       PROVE  n \in 8..m /\ B[n] # 27 /\ cut = SubSeq(B, 1, n)
  <2>1. n <= m
    <3> SUFFICES ASSUME n > m PROVE FALSE
      BY <1>8
    <3>1. n - m \in 1..4 /\ n - m \in 1..6 /\ m + (n - m) = n /\ n \in 1..(m + 6)
      BY <1>8
    <3>2. frame[n] = head[m + (n - m)]
      BY <1>7, <3>1, Zenon
    <3>3. head[m + (n - m)] = t[n - m] /\ t[n - m] = 27
      BY <1>2, <1>6, <3>1, Zenon
    <3> QED
      BY <1>12, <3>2, <3>3, Zenon
  <2>2. n \in 8..m /\ \A k \in 1..n : k \in 1..m /\ k \in 1..(m + 6)
    BY <1>8, <1>12, <2>1
  <2>3. \A k \in 1..n : frame[k] = B[k]
    BY <1>6, <1>7, <2>2
  <2>4. n \in 1..n
    BY <1>8
  <2>5. B[n] # 27
    BY <1>12, <2>3, <2>4
  <2> DEFINE pre == SubSeq(B, 1, n)
  <2>6. pre \in Seq(Byte) /\ Len(pre) = n /\ \A k \in 1..n : pre[k] = B[k]
    BY <1>1, <2>2 DEF Bytes
  <2> HIDE DEF pre, cut
  <2>7. \A k \in 1..n : cut[k] = pre[k]
    BY <1>9, <2>3, <2>6
  <2>8. cut = pre
    BY <1>9, <2>6, <2>7 DEF Bytes
  <2> QED
    BY <2>2, <2>5, <2>8 DEF pre
<1>13. ASSUME n >= 8 PROVE \E z \in Bytes : cut = Start \o z
  <2> DEFINE z == From(cut, 9)
  <2> HIDE DEF cut
  <2>1. 1 \in 1..(Len(cut) + 1) /\ 1 + Len(Start) \in 1..(Len(cut) + 1) /\ 1 + Len(Start) = 9
    BY <1>8, <1>9, <1>13, Patterns
  <2>2. Shows(cut, 1, Start)
    <3>1. \A k \in 1..8 : 1 + k - 1 = k /\ k \in 1..n
      BY <1>8, <1>13
    <3>2. \A k \in 1..8 : cut[1 + k - 1] = Start[k]
      BY <1>9, <1>10, <3>1
    <3> QED
      BY <3>2, Patterns DEF Shows
  <2>3. From(cut, 1) = Start \o From(cut, 1 + Len(Start))
    BY <1>9, <2>1, <2>2, Patterns, FromSplit
  <2>4. From(cut, 1) = cut
    BY <1>9, FromFirst
  <2>5. z \in Bytes
    BY <1>9, <2>1, FromType
  <2> QED
    BY <2>1, <2>3, <2>4, <2>5, Zenon DEF z
<1> QED
  BY <1>9, <1>11, <1>12, <1>13 DEF frame, B

-----------------------------------------------------------------------------
(* Whole frames arrive.                                                    *)

\* No frame on the line can be hidden by what comes before it, nor the next one.
NothingHidden == ~hidden /\ \A i \in DOMAIN sent : sent[i].clear

SentResults == [i \in DOMAIN sent |-> <<sent[i].result>>]

\* The whole line, if it were read at once, would give a result for every frame,
\* and leave bytes before which the next frame is not overlooked.
ArriveInv ==
    NothingHidden =>
        /\ TakeFrames(read \o line, verify).results = SentResults
        /\ open => Poised(TakeFrames(read \o line, verify).buffer)
        /\ ~open => Idle(TakeFrames(read \o line, verify).buffer)

LEMMA NothingLeft ==
    ASSUME NEW check
    PROVE  /\ Idle(<<>>) /\ <<>> \in Bytes
           /\ TakeFrames(<<>>, check).buffer = <<>> /\ TakeFrames(<<>>, check).results = <<>>
<1>1. Idle(<<>>) /\ <<>> \in Bytes
  BY DEF Idle, Bytes
<1> QED
  BY <1>1, IdleWaits

\* A frame by itself.
LEMMA TakesFrame ==
    ASSUME NEW r \in Readings, Readable(r), NEW check
    PROVE  /\ TakeFrames(FrameOf[r], check).buffer = <<>>
           /\ TakeFrames(FrameOf[r], check).results = << <<Expected(r)>> >>
<1> DEFINE message == BuildMessage(BuildGetListRes(r))
           frame == FrameOf[r]
<1>1. message \in Bytes /\ Closed(message) /\ frame = BuildFrame(message)
  <2>1. r \in MeterReadings
    BY StreamAssumption
  <2> QED
    BY <2>1, BuiltMessage, MessageClosed DEF FrameOf, BuildMeterFrame
<1>2. frame \in Bytes
  BY FramesAreBytes
<1>3. ExtractResults(message) = <<Expected(r)>>
  BY StreamAssumption, ReadingDecoded
<1> HIDE DEF message, frame
<1> DEFINE nothing == <<>>
<1>4. /\ nothing \in Bytes /\ frame \o nothing = frame
      /\ TakeFrames(nothing, check).buffer = <<>> /\ TakeFrames(nothing, check).results = <<>>
  BY <1>2, NothingLeft DEF Bytes
<1> HIDE DEF nothing
<1>5. ScanOne(frame, check) = Found(message, nothing)
  <2>1. ScanOne(frame \o nothing, check) = Found(message, nothing)
    BY <1>1, <1>4, FrameReadBack
  <2> QED
    BY <1>4, <2>1, Zenon
<1>6. TakeFrames(frame, check) = TakeTurn(frame, check)
  BY <1>2, TakeTurns
<1>7. TakeTurn(frame, check)
        = [buffer |-> TakeFrames(nothing, check).buffer,
           results |-> <<ExtractResults(message)>> \o TakeFrames(nothing, check).results]
  <2>1. Found(message, nothing).kind = "frame" /\ Found(message, nothing).rest = nothing
        /\ Found(message, nothing).body = message
    BY DEF Found
  <2> QED
    BY <1>5, <2>1 DEF TakeTurn, Taken
<1>8. << <<Expected(r)>> >> \o <<>> = << <<Expected(r)>> >>
  OBVIOUS
<1> QED
  BY <1>3, <1>4, <1>6, <1>7, <1>8 DEF frame

\* What the bytes sent next would do.
LEMMA SentNext ==
    ASSUME StreamTypeOK, NEW bytes \in Bytes, Send(bytes), NEW b, b = TakeFrames(read \o line, verify).buffer
    PROVE  /\ b \in Bytes /\ verify' = verify /\ read \o line \in Bytes
           /\ TakeFrames(read' \o line', verify').buffer = TakeFrames(b \o bytes, verify).buffer
           /\ TakeFrames(read' \o line', verify').results
                = TakeFrames(read \o line, verify).results \o TakeFrames(b \o bytes, verify).results
<1> DEFINE all == read \o line
<1>1. read \in Bytes /\ line \in Bytes
  BY DEF StreamTypeOK, Bytes
<1>2. all \in Bytes
  BY <1>1, Longer
<1>3. read' \o line' = all \o bytes
  <2>1. read \in Seq(Byte) /\ line \in Seq(Byte) /\ bytes \in Seq(Byte)
    BY <1>1 DEF Bytes
  <2>2. read' = read /\ line' = line \o bytes
    BY DEF Send
  <2>3. read \o (line \o bytes) = (read \o line) \o bytes
    BY <2>1, Regrouped, SMTT(30)
  <2> QED
    BY <2>2, <2>3, Zenon
<1>4. verify' = verify
  BY DEF Send
<1> HIDE DEF all
<1>5. b \in Bytes
  BY <1>2, TakeType DEF all
<1>6. /\ TakeFrames(all \o bytes, verify).buffer = TakeFrames(b \o bytes, verify).buffer
      /\ TakeFrames(all \o bytes, verify).results
           = TakeFrames(all, verify).results \o TakeFrames(b \o bytes, verify).results
  BY <1>2, TakeLonger DEF all
<1> QED
  BY <1>2, <1>3, <1>4, <1>5, <1>6 DEF all

\* What a frame or a part of one, noise before it or another part, is taken for.
LEMMA StartNext ==
    ASSUME NEW b \in Bytes, Poised(b) \/ Idle(b), NEW s \in Bytes, \E y \in Bytes : s = Start \o y, NEW check
    PROVE  TakeFrames(b \o s, check) = TakeFrames(s, check)
<1>1. PICK y \in Bytes : s = Start \o y
  OBVIOUS
<1>2. TakeFrames(b \o (Start \o y), check) = TakeFrames(Start \o y, check)
  BY IdleStart, PoisedStart
<1> QED
  BY <1>1, <1>2, Zenon

\* What is left before a part of a frame, by how long it is.
LEMMA CutNext ==
    ASSUME NEW r \in Readings, NEW n \in 1..(Len(FrameOf[r]) - 4), NEW b \in Bytes, NEW began \in BOOLEAN,
           began => Poised(b), ~began => Idle(b), began \/ n >= 8 => FrameOf[r][n] # 27, NEW check
    PROVE  LET t == TakeFrames(b \o SubSeq(FrameOf[r], 1, n), check) IN
           /\ t.results = <<>>
           /\ began \/ n >= 8 => Poised(t.buffer)
           /\ ~(began \/ n >= 8) => Idle(t.buffer)
<1> DEFINE message == BuildMessage(BuildGetListRes(r))
           frame == FrameOf[r]
           cut == SubSeq(frame, 1, n)
<1>1. message \in Bytes /\ Closed(message) /\ frame = BuildFrame(message)
  <2>1. r \in MeterReadings
    BY StreamAssumption
  <2> QED
    BY <2>1, BuiltMessage, MessageClosed DEF FrameOf, BuildMeterFrame
<1>2. frame \in Bytes
  BY FramesAreBytes
<1>3. n \in Nat \ {0} /\ n \in 1..(Len(BuildFrame(message)) - 4)
  BY <1>1, <1>2 DEF Bytes
<1> HIDE DEF message
<1>4. /\ cut \in Bytes /\ Len(cut) = n
      /\ n < 8 => \A i \in 1..n : cut[i] = Start[i]
      /\ n >= 8 /\ frame[n] # 27
           => /\ n \in 8..Len(Opening(message)) /\ Opening(message)[n] # 27
              /\ cut = SubSeq(Opening(message), 1, n)
      /\ n >= 8 => \E y \in Bytes : cut = Start \o y
  <2> DEFINE part == SubSeq(BuildFrame(message), 1, n)
  <2>1. /\ part \in Bytes /\ Len(part) = n
        /\ n < 8 => \A i \in 1..n : part[i] = Start[i]
        /\ n >= 8 /\ BuildFrame(message)[n] # 27
             => /\ n \in 8..Len(Opening(message)) /\ Opening(message)[n] # 27
                /\ part = SubSeq(Opening(message), 1, n)
        /\ n >= 8 => \E y \in Bytes : part = Start \o y
    BY <1>1, <1>3, CutFrame
  <2>2. cut = part /\ frame[n] = BuildFrame(message)[n]
    BY <1>1
  <2> HIDE DEF cut, part, frame
  <2> QED
    BY <2>1, <2>2, Zenon
<1>5. n < 8 => cut[n] = frame[n]
  BY <1>2, <1>3 DEF Bytes
<1>6. began \/ n >= 8 => frame[n] # 27
  OBVIOUS
<1> HIDE DEF cut, frame
<1> DEFINE u == b \o cut
           t == TakeFrames(u, check)
<1>7. u \in Bytes
  BY <1>4, Longer
<1>8. CASE n >= 8
  <2>1. Poised(cut)
    <3>1. n \in 8..Len(Opening(message)) /\ Opening(message)[n] # 27 /\ cut = SubSeq(Opening(message), 1, n)
      BY <1>4, <1>6, <1>8
    <3>2. Poised(SubSeq(Opening(message), 1, n))
      BY <1>1, <3>1, PrefixPoised, Zenon
    <3> QED
      BY <3>1, <3>2, Zenon
  <2>2. t = TakeFrames(cut, check)
    BY <1>4, <1>8, StartNext
  <2>3. TakeFrames(cut, check).buffer = cut /\ TakeFrames(cut, check).results = <<>>
    BY <1>4, <2>1, PoisedWaits
  <2> HIDE DEF t
  <2>4. t.results = <<>> /\ Poised(t.buffer)
    BY <2>1, <2>2, <2>3, Zenon
  <2> QED
    BY <1>8, <2>4 DEF t, u, cut, frame
<1>9. CASE n < 8 /\ began
  <2>1. n \in 5..7
    <3> SUFFICES ASSUME n \in 1..4 PROVE FALSE
      BY <1>3, <1>9
    <3>1. n \in 1..n
      BY <1>3
    <3>2. cut[n] = Start[n] /\ Start[n] = 27
      BY <1>4, <1>9, <3>1, PatternBytes
    <3> QED
      BY <1>5, <1>6, <1>9, <3>2
  <2>2. Poised(u)
    BY <1>4, <1>9, <2>1, PoisedShort
  <2>3. t.buffer = u /\ t.results = <<>>
    BY <1>7, <2>2, PoisedWaits
  <2> HIDE DEF t
  <2>4. t.results = <<>> /\ Poised(t.buffer)
    BY <2>2, <2>3, Zenon
  <2> QED
    BY <1>9, <2>4 DEF t, u, cut, frame
<1>10. CASE n < 8 /\ ~began
  <2>1. \A i \in 1..Len(cut) : i <= 4 => cut[i] = 27
    <3>1. \A i \in 1..n : i <= 4 => i \in 1..4
      BY <1>3
    <3> QED
      BY <1>4, <1>10, <3>1, PatternBytes
  <2>2. Idle(u)
    BY <1>4, <1>10, <2>1, IdleShort
  <2>3. t.buffer = u /\ t.results = <<>>
    BY <1>7, <2>2, IdleWaits
  <2> HIDE DEF t
  <2>4. t.results = <<>> /\ Idle(t.buffer)
    BY <2>2, <2>3, Zenon
  <2>5. ~(n >= 8)
    BY <1>3, <1>10
  <2> QED
    BY <1>10, <2>4, <2>5 DEF t, u, cut, frame
<1> QED
  BY <1>3, <1>8, <1>9, <1>10

LEMMA ArriveStep ==
    ASSUME ReadableReadings, DullNoises, StreamTypeOK, ArriveInv, [Next]_vars
    PROVE  ArriveInv'
<1> DEFINE all == read \o line
           b == TakeFrames(all, verify).buffer
           old == TakeFrames(all, verify).results
<1> SUFFICES ASSUME NothingHidden'
             PROVE  /\ TakeFrames(read' \o line', verify').results = SentResults'
                    /\ open' => Poised(TakeFrames(read' \o line', verify').buffer)
                    /\ ~open' => Idle(TakeFrames(read' \o line', verify').buffer)
  BY DEF ArriveInv
<1>0. /\ sent \in Seq([result : Results, clear : BOOLEAN]) /\ {open, hidden} \subseteq BOOLEAN
      /\ read \in Bytes /\ line \in Bytes
  BY DEF StreamTypeOK, Bytes
<1>1. NothingHidden => old = SentResults /\ (open => Poised(b)) /\ (~open => Idle(b))
  BY DEF ArriveInv
<1>2. all \in Bytes /\ b \in Bytes /\ old \in Seq(Reports(verify))
  <2>1. all \in Bytes
    BY <1>0, Longer
  <2> HIDE DEF all
  <2> QED
    BY <2>1, TakeTurns
<1>3. old \o <<>> = old
  BY <1>2
<1>4. CASE UNCHANGED <<verify, read, line, sent, open, hidden>>
  <2>1. NothingHidden /\ SentResults' = SentResults
    BY <1>4 DEF NothingHidden, SentResults
  <2> QED
    BY <1>1, <1>4, <2>1
<1>5. ASSUME NEW r \in Readings, SendWhole(r)
      PROVE  /\ TakeFrames(read' \o line', verify').results = SentResults'
             /\ ~open' /\ Idle(TakeFrames(read' \o line', verify').buffer)
  <2> DEFINE frame == FrameOf[r]
  <2>1. frame \in Bytes /\ Send(frame) /\ \E y \in Bytes : frame = Start \o y
    <3>1. r \in MeterReadings
      BY StreamAssumption
    <3>2. frame \in Bytes /\ Send(frame)
      BY <1>5, FramesAreBytes DEF SendWhole
    <3>3. \E y \in Bytes : frame = Start \o y
      BY <3>1, BuiltMessage, MessageClosed, FrameBegins DEF FrameOf, BuildMeterFrame
    <3> QED
      BY <3>2, <3>3
  <2>2. sent' = Append(sent, [result |-> Expected(r), clear |-> ~hidden]) /\ open' = FALSE
    BY <1>5 DEF SendWhole
  <2>3. NothingHidden
    <3>1. \A i \in DOMAIN sent' : sent'[i].clear
      BY DEF NothingHidden
    <3>2. /\ Len(sent) \in Nat /\ DOMAIN sent = 1..Len(sent) /\ DOMAIN sent' = 1..(Len(sent) + 1)
          /\ \A i \in 1..Len(sent) : sent'[i] = sent[i]
          /\ sent'[Len(sent) + 1].clear = ~hidden
      BY <1>0, <2>2
    <3>3. \A i \in DOMAIN sent : sent[i].clear
      BY <3>1, <3>2
    <3>4. Len(sent) + 1 \in DOMAIN sent'
      BY <3>2
    <3> QED
      BY <3>1, <3>2, <3>3, <3>4 DEF NothingHidden
  <2>4. /\ TakeFrames(frame, verify).buffer = <<>>
        /\ TakeFrames(frame, verify).results = << <<Expected(r)>> >>
    BY TakesFrame DEF ReadableReadings
  <2> HIDE DEF frame
  <2>5. TakeFrames(b \o frame, verify) = TakeFrames(frame, verify)
    BY <1>1, <1>2, <2>1, <2>3, StartNext
  <2>6. /\ TakeFrames(read' \o line', verify').buffer = TakeFrames(b \o frame, verify).buffer
        /\ TakeFrames(read' \o line', verify').results = old \o TakeFrames(b \o frame, verify).results
    BY <2>1, SentNext
  <2>7. SentResults' = SentResults \o << <<Expected(r)>> >>
    BY <1>0, <2>2 DEF SentResults
  <2>8. TakeFrames(read' \o line', verify').results = SentResults'
    BY <1>1, <2>3, <2>4, <2>5, <2>6, <2>7, Zenon
  <2>9. TakeFrames(read' \o line', verify').buffer = <<>>
    BY <2>4, <2>5, <2>6, Zenon
  <2> QED
    BY <2>2, <2>8, <2>9, NothingLeft, Zenon
<1>6. ASSUME NEW r \in CutReadings, NEW n \in CutLengths, SendCut(r, n)
      PROVE  /\ TakeFrames(read' \o line', verify').results = SentResults'
             /\ open' => Poised(TakeFrames(read' \o line', verify').buffer)
             /\ ~open' => Idle(TakeFrames(read' \o line', verify').buffer)
  <2> DEFINE frame == FrameOf[r]
             cut == SubSeq(frame, 1, n)
             t == TakeFrames(b \o cut, verify)
  <2>1. r \in Readings /\ frame \in Bytes /\ n \in Nat
    BY StreamAssumption, FramesAreBytes
  <2>2. /\ n \in 1..(Len(frame) - 1) /\ Send(cut)
        /\ open' = (open \/ n >= Len(Start))
        /\ hidden' = (hidden \/ n >= Len(frame) - 3 \/ (open' /\ frame[n] = Escape[1]))
        /\ sent' = IF n >= Len(frame) - 3
                     THEN Append(sent, [result |-> Expected(r), clear |-> FALSE])
                     ELSE sent
    BY <1>6 DEF SendCut
  <2>3. ~hidden'
    BY DEF NothingHidden
  <2> HIDE DEF frame
  <2>4. /\ ~hidden /\ ~(n >= Len(frame) - 3) /\ sent' = sent
        /\ open' = (open \/ n >= 8) /\ (open' => frame[n] # 27)
    <3>1. Escape[1] = 27 /\ Len(Start) = 8
      BY Patterns, PatternBytes
    <3>2. /\ ~hidden /\ ~(n >= Len(frame) - 3) /\ ~(open' /\ frame[n] = Escape[1])
          /\ open' = (open \/ n >= Len(Start))
      BY <2>2, <2>3
    <3>3. sent' = sent
      BY <2>2, <3>2
    <3>4. open' = (open \/ n >= 8) /\ (open' => frame[n] # 27)
      BY <3>1, <3>2
    <3> QED
      BY <3>2, <3>3, <3>4
  <2>5. NothingHidden /\ SentResults' = SentResults
    BY <2>4 DEF NothingHidden, SentResults
  <2>6. n \in 1..(Len(frame) - 4) /\ cut \in Bytes
    BY <2>1, <2>2, <2>4 DEF Bytes
  <2>7. /\ t.results = <<>>
        /\ open \/ n >= 8 => Poised(t.buffer)
        /\ ~(open \/ n >= 8) => Idle(t.buffer)
    <3>1. open \in BOOLEAN /\ (open => Poised(b)) /\ (~open => Idle(b)) /\ (open \/ n >= 8 => frame[n] # 27)
      BY <1>0, <1>1, <2>4, <2>5
    <3> QED
      BY <1>2, <2>1, <2>6, <3>1, CutNext DEF frame
  <2> HIDE DEF cut
  <2>8. /\ TakeFrames(read' \o line', verify').buffer = t.buffer
        /\ TakeFrames(read' \o line', verify').results = old \o t.results
    BY <2>2, <2>6, SentNext
  <2> HIDE DEF t
  <2> QED
    BY <1>1, <1>3, <2>4, <2>5, <2>7, <2>8, Zenon
<1>7. ASSUME NEW noise \in Noises \cup {Flood}, SendNoise(noise)
      PROVE  /\ TakeFrames(read' \o line', verify').results = SentResults'
             /\ open' => Poised(TakeFrames(read' \o line', verify').buffer)
             /\ ~open' => Idle(TakeFrames(read' \o line', verify').buffer)
  <2> DEFINE u == b \o noise
             t == TakeFrames(u, verify)
  <2>1. noise \in Bytes /\ Dull(noise)
    BY StreamAssumption DEF DullNoises, Bytes
  <2>2. /\ Send(noise) /\ sent' = sent /\ open' = open
        /\ hidden' = (hidden \/ (open /\ noise[Len(noise)] = 27))
    BY <1>7, PatternBytes DEF SendNoise, Last
  <2>3. ~hidden'
    BY DEF NothingHidden
  <2>4. NothingHidden /\ SentResults' = SentResults /\ (open => noise[Len(noise)] # 27)
    BY <2>2, <2>3 DEF NothingHidden, SentResults
  <2>5. u \in Bytes
    BY <1>2, <2>1, Longer
  <2>6. /\ TakeFrames(read' \o line', verify').buffer = t.buffer
        /\ TakeFrames(read' \o line', verify').results = old \o t.results
    BY <2>1, <2>2, SentNext
  <2>7. ASSUME open PROVE t.results = <<>> /\ Poised(t.buffer)
    <3>1. Poised(u)
      BY <1>1, <1>2, <2>1, <2>4, <2>7, PoisedNoise
    <3> HIDE DEF u
    <3>2. t.buffer = u /\ t.results = <<>>
      BY <2>5, <3>1, PoisedWaits
    <3> QED
      BY <3>1, <3>2, Zenon
  <2>8. ASSUME ~open PROVE t.results = <<>> /\ Idle(t.buffer)
    <3>1. Idle(u)
      BY <1>1, <1>2, <2>1, <2>4, <2>8, IdleNoise
    <3> HIDE DEF u
    <3>2. t.buffer = u /\ t.results = <<>>
      BY <2>5, <3>1, IdleWaits
    <3> QED
      BY <3>1, <3>2, Zenon
  <2> HIDE DEF t
  <2>9. t.results = <<>>
    BY <2>7, <2>8
  <2> QED
    BY <1>1, <1>3, <2>2, <2>4, <2>6, <2>7, <2>8, <2>9, Zenon
<1>8. ASSUME NEW n \in ChunkSizes, Feed(n)
      PROVE  read' \o line' = read \o line /\ UNCHANGED <<verify, sent, open, hidden>>
  <2> DEFINE size == IF n <= Len(line) THEN n ELSE Len(line)
             chunk == SubSeq(line, 1, size)
             rest == From(line, size + 1)
  <2>1. n \in Nat \ {0} /\ line # <<>> /\ line' = rest /\ read' = read \o chunk
        /\ UNCHANGED <<verify, sent, open, hidden>>
    BY <1>8, StreamAssumption DEF Feed
  <2>2. size \in 1..Len(line) /\ chunk \in Bytes /\ Len(chunk) = size /\ rest \in Bytes
    BY <1>0, <2>1, ChunkOf
  <2>3. line = chunk \o rest
    <3> HIDE DEF size
    <3>1. Shows(line, 1, chunk) /\ 1 \in 1..(Len(line) + 1) /\ 1 + Len(chunk) \in 1..(Len(line) + 1)
          /\ 1 + Len(chunk) = size + 1
      BY <1>0, <2>2 DEF Shows, Bytes
    <3> HIDE DEF chunk
    <3>2. From(line, 1) = chunk \o From(line, 1 + Len(chunk))
      BY <1>0, <2>2, <3>1, FromSplit
    <3>3. From(line, 1) = line
      BY <1>0, FromFirst
    <3> QED
      BY <3>1, <3>2, <3>3, Zenon
  <2> HIDE DEF size, chunk, rest
  <2>4. read \o (chunk \o rest) = (read \o chunk) \o rest
    <3>1. read \in Seq(Byte) /\ chunk \in Seq(Byte) /\ rest \in Seq(Byte)
      BY <1>0, <2>2 DEF Bytes
    <3> QED
      BY <3>1, Regrouped, SMTT(30)
  <2>5. read' \o line' = (read \o chunk) \o rest
    BY <2>1
  <2>6. read \o line = read \o (chunk \o rest)
    BY <2>3, Zenon
  <2> QED
    BY <2>1, <2>4, <2>5, <2>6, Zenon
<1>9. ASSUME NEW n \in ChunkSizes, Feed(n)
      PROVE  /\ TakeFrames(read' \o line', verify').results = SentResults'
             /\ open' => Poised(TakeFrames(read' \o line', verify').buffer)
             /\ ~open' => Idle(TakeFrames(read' \o line', verify').buffer)
  <2>1. read' \o line' = all /\ verify' = verify /\ open' = open /\ NothingHidden /\ SentResults' = SentResults
    BY <1>8, <1>9 DEF NothingHidden, SentResults
  <2> QED
    BY <1>1, <2>1
<1> HIDE DEF all, b, old
<1> QED
  BY <1>4, <1>5, <1>6, <1>7, <1>9 DEF Next, vars, sending

\* When no frame is cut where it hides the next, every frame that is sent whole
\* comes out, in the order sent and decoded to what was measured, and nothing
\* else does, for every line of frames, parts of frames and noise and however
\* it is split into chunks (sml/parser.py:208-301): with ReadingDecoded, what the
\* builder writes is what the parser reads.
THEOREM FramesArrive ==
    ASSUME ReadableReadings, DullNoises
    PROVE  Spec => [](NothingHidden => WholeFramesArrive)
<1>1. Init => ArriveInv
  <2> SUFFICES ASSUME Init PROVE ArriveInv
    OBVIOUS
  <2>1. read \o line = <<>> /\ ~open /\ SentResults = <<>>
    BY DEF Init, SentResults
  <2> QED
    BY <2>1, NothingLeft, Zenon DEF ArriveInv
<1>2. StreamTypeOK /\ ArriveInv /\ [Next]_vars => ArriveInv'
  BY ArriveStep
<1>3. ASSUME StreamTypeOK, ArriveInv, ChunkingInvisible PROVE NothingHidden => WholeFramesArrive
  <2> SUFFICES ASSUME NothingHidden, AllRead
               PROVE  \E shown \in SUBSET DOMAIN sent :
                        /\ \A i \in DOMAIN sent \ shown : ~sent[i].clear
                        /\ FlattenSeq(results) = FlattenSeq([i \in DOMAIN sent |->
                             IF i \in shown THEN <<sent[i].result>> ELSE <<>>])
    BY DEF WholeFramesArrive
  <2>1. read \o line = read
    <3>1. line = <<>> /\ read \in Seq(Byte)
      BY <1>3 DEF AllRead, StreamTypeOK
    <3> QED
      BY <3>1
  <2>2. results = SentResults
    BY <1>3, <2>1, Zenon DEF ArriveInv, ChunkingInvisible
  <2> DEFINE shown == DOMAIN sent
  <2>3. SentResults = [i \in DOMAIN sent |-> IF i \in shown THEN <<sent[i].result>> ELSE <<>>]
    BY DEF SentResults
  <2>4. shown \in SUBSET DOMAIN sent /\ \A i \in DOMAIN sent \ shown : ~sent[i].clear
    OBVIOUS
  <2> HIDE DEF shown
  <2> QED
    BY <2>2, <2>3, <2>4
<1> QED
  BY <1>1, <1>2, <1>3, StreamTyping, ChunksDoNotShow, PTL DEF Spec

-----------------------------------------------------------------------------
(* The parser finds its place again.                                       *)

\* What a feed leaves of its buffer the next scan waits with.
Settled(b, check) == ScanOne(b, check).kind = "wait" /\ ScanOne(b, check).rest = b

LEMMA LeftSettled ==
    ASSUME NEW buf \in Bytes, NEW check, NEW b, b = TakeFrames(buf, check).buffer
    PROVE  b \in Bytes /\ Settled(b, check)
<1> DEFINE Take(s) == TakeFrames(s, check)
           scan == ScanOne(b, check)
<1>1. b \in Bytes
  BY TakeTurns
<1>2. Take(b).buffer = b
  <2>1. <<>> \in Bytes /\ buf \o <<>> = buf /\ b \o <<>> = b
    BY <1>1 DEF Bytes
  <2> DEFINE nothing == <<>>
  <2>2. nothing \in Bytes /\ buf \o nothing = buf /\ b \o nothing = b
    BY <2>1
  <2> HIDE DEF nothing
  <2>3. TakeFrames(buf \o nothing, check).buffer
          = TakeFrames(TakeFrames(buf, check).buffer \o nothing, check).buffer
    BY <2>2, TakeLonger
  <2> QED
    BY <2>2, <2>3
<1>3. Take(b) = TakeTurn(b, check)
  BY <1>1, TakeTurns
<1>4. /\ scan.rest \in Bytes
      /\ scan.kind = "wait" \/ (scan.kind \in {"rescan", "frame"} /\ Len(scan.rest) < Len(b))
  BY <1>1, OneEnds
<1>5. CASE scan.kind = "wait"
  BY <1>1, <1>2, <1>3, <1>5 DEF TakeTurn, Taken, Settled
<1>6. CASE scan.kind # "wait"
  <2> DEFINE rest == scan.rest
  <2>1. Take(b).buffer = Take(rest).buffer
    BY <1>3, <1>4, <1>6 DEF TakeTurn, Taken
  <2>2. rest \in Bytes /\ Len(rest) < Len(b)
    BY <1>4, <1>6
  <2> HIDE DEF rest
  <2>3. PICK k \in 1..(Len(rest) + 1) : Take(rest).buffer = From(rest, k)
    BY <2>2, TakeLeaves
  <2>4. Len(From(rest, k)) = Len(rest) - k + 1
    BY <2>2, FromType
  <2>5. b = From(rest, k)
    BY <1>2, <2>1, <2>3
  <2>6. Len(rest) \in Nat /\ Len(b) \in Nat
    BY <1>1, <2>2 DEF Bytes
  <2>7. Len(b) = Len(rest) - k + 1
    BY <2>4, <2>5, Zenon
  <2> QED
    BY <2>2, <2>6, <2>7
<1> QED
  BY <1>1, <1>5, <1>6

\* Such a buffer holds no start escape, or it begins with the one whose frame
\* has not ended yet.
LEMMA SettledWaits ==
    ASSUME NEW b \in Bytes, NEW check, Settled(b, check)
    PROVE  Idle(b) \/ (At(b, 1, Start) /\ ScanBody(b, 9, check).kind = "wait")
<1> DEFINE start == Find(b, Start, 1)
<1>0. Len(b) \in Nat
  BY DEF Bytes
<1>1. CASE start = 0
  BY <1>1, FindFirst DEF Idle
<1>2. CASE start # 0
  <2>1. start \in 1..Len(b) /\ At(b, start, Start)
    BY <1>2, FindFirst
  <2>2. ScanOne(b, check) = ScanBody(From(b, start), 9, check)
    BY <1>2, OneFrom
  <2>3. From(b, start) \in Bytes /\ Len(From(b, start)) = Len(b) - start + 1
    <3>1. start \in 1..(Len(b) + 1)
      BY <1>0, <2>1
    <3> QED
      BY <3>1, FromType
  <2>4. From(b, start) = b
    <3>1. Ends(ScanBody(From(b, start), 9, check), From(b, start))
      BY <2>3, ScanEnds
    <3> QED
      BY <2>2, <3>1 DEF Settled, Ends
  <2>5. start = 1
    BY <1>0, <2>1, <2>3, <2>4
  <2> QED
    BY <2>1, <2>2, <2>4, <2>5 DEF Settled
<1> QED
  BY <1>1, <1>2

\* What a frame ends with: an escape, the end marker and three bytes more.
EndsFrame(t) == Len(t) = 8 /\ (\A k \in 1..4 : t[k] = 27) /\ t[5] = 26

\* No escape of B reaches into the end of the frame.
Sealed(B, t, buf) ==
    /\ Len(B) \in Nat \ {0} /\ B[Len(B)] # 27
    /\ buf \in Bytes /\ Len(buf) = Len(B) + 8 /\ buf[Len(B)] # 27
    /\ \A k \in 1..4 : buf[Len(B) + k] = 27
    /\ buf[Len(B) + 5] = 26

LEMMA SealedBytes ==
    ASSUME NEW B \in Bytes, Closed(B), NEW t \in Bytes, EndsFrame(t)
    PROVE  Sealed(B, t, B \o t)
<1> DEFINE n == Len(B)
           buf == B \o t
<1>1. /\ buf \in Bytes /\ Len(buf) = n + Len(t) /\ n \in Nat
      /\ \A k \in 1..n : buf[k] = B[k]
      /\ \A k \in 1..Len(t) : buf[n + k] = t[k]
  BY Longer
<1>2. n # 0 /\ B[n] # 27
  BY DEF Closed, Bytes
<1>3. Len(t) = 8 /\ (\A k \in 1..4 : t[k] = 27) /\ t[5] = 26
  BY DEF EndsFrame
<1> HIDE DEF n, buf
<1>4. buf[n] = B[n]
  BY <1>1, <1>2
<1>5. (\A k \in 1..4 : buf[n + k] = 27) /\ buf[n + 5] = 26
  BY <1>1, <1>3
<1>6. n \in Nat \ {0} /\ Len(buf) = n + 8
  BY <1>1, <1>2, <1>3
<1> QED
  BY <1>1, <1>2, <1>4, <1>5, <1>6, Zenon DEF Sealed, n, buf

\* A scan that begins before the end of a frame comes to an end there, if not
\* before, whatever the bytes in between are.
LEMMA EndReached ==
    ASSUME NEW B \in Bytes, NEW t, NEW buf, Sealed(B, t, buf), NEW check
    PROVE  \A i \in 1..(Len(B) + 1) : ScanBody(buf, i, check).kind # "wait"
<1> DEFINE n == Len(B)
           T == {i \in Nat \ {0} : i <= n + 1 => ScanBody(buf, i, check).kind # "wait"}
<1>0. /\ n \in Nat \ {0} /\ buf \in Bytes /\ Len(buf) = n + 8 /\ buf[n] # 27
      /\ (\A k \in 1..4 : buf[n + k] = 27) /\ buf[n + 5] = 26
  BY DEF Sealed
<1> HIDE DEF n
<1>1. At(buf, n + 1, Escape)
  <2>1. \A k \in 1..4 : (n + 1) + k - 1 = n + k
    BY <1>0
  <2>2. (n + 1) + 3 <= Len(buf) /\ n + 1 \in Nat \ {0} /\ \A k \in 1..4 : buf[(n + 1) + k - 1] = 27
    BY <1>0, <2>1
  <2> QED
    BY <1>0, <2>2, PatternAt
<1>2. ASSUME NEW i \in Nat \ {0}, \A j \in Nat \ {0} : j > i /\ i <= Len(buf) => j \in T
      PROVE  i \in T
  <2> SUFFICES ASSUME i <= n + 1 PROVE ScanBody(buf, i, check).kind # "wait"
    OBVIOUS
  <2> DEFINE esc == Find(buf, Escape, i)
  <2>1. esc \in i..(n + 1) /\ At(buf, esc, Escape)
    <3>1. \/ esc = 0 /\ \A p \in i..Len(buf) : ~At(buf, p, Escape)
          \/ /\ esc \in i..Len(buf) /\ At(buf, esc, Escape)
             /\ \A p \in i..(esc - 1) : ~At(buf, p, Escape)
      BY <1>0, FindFirst
    <3> HIDE DEF esc
    <3>2. n + 1 \in i..Len(buf)
      BY <1>0
    <3>3. ~(n + 1 \in i..(esc - 1)) /\ esc \in i..Len(buf) /\ At(buf, esc, Escape)
      BY <1>1, <3>1, <3>2
    <3> QED
      BY <1>0, <3>2, <3>3
  <2>2. esc \in Nat \ {0} /\ \A k \in 1..4 : buf[esc + k - 1] = 27
    <3>1. esc \in Nat \ {0}
      BY <1>0, <2>1
    <3> QED
      BY <1>0, <2>1, <3>1, PatternAt
  <2>3. ScanBody(buf, i, check) = ScanTurn(buf, i, check)
    BY <1>0, ScanTurns
  <2>4. At(buf, esc, Escape \o Escape) => \A k \in 1..8 : buf[esc + k - 1] = 27
    BY <1>0, <2>2, PatternAt
  <2>5. Rescan(From(buf, esc)).kind # "wait" /\ CloseFrame(buf, esc, check).kind # "wait"
    BY DEF Rescan, CloseFrame, Found
  <2> HIDE DEF esc
  <2>6. esc <= n + 1 /\ esc >= i
    BY <1>0, <2>1
  <2>7. ~(esc = 0 \/ esc + 4 > Len(buf)) /\ EndBlockThere(buf, esc)
    BY <1>0, <2>2, <2>6 DEF EndBlockThere
  <2>8. esc = n + 1 \/ esc + 4 <= n
    <3> SUFFICES ASSUME esc <= n, n < esc + 4 PROVE FALSE
      BY <1>0, <2>2, <2>6
    <3>1. n - esc + 1 \in 1..4 /\ esc + (n - esc + 1) - 1 = n
      BY <1>0, <2>2
    <3> QED
      BY <1>0, <2>2, <3>1
  <2>9. At(buf, esc, Escape \o Escape) => esc + 8 <= n
    <3> SUFFICES ASSUME \A k \in 1..8 : buf[esc + k - 1] = 27, n < esc + 8 PROVE FALSE
      BY <1>0, <2>2, <2>4
    <3>1. CASE esc = n + 1
      <4>1. 5 \in 1..8 /\ esc + 5 - 1 = n + 5
        BY <1>0, <3>1
      <4> QED
        BY <1>0, <4>1
    <3>2. CASE esc + 4 <= n
      <4>1. n - esc + 1 \in 1..8 /\ esc + (n - esc + 1) - 1 = n
        BY <1>0, <2>2, <3>2
      <4> QED
        BY <1>0, <4>1
    <3> QED
      BY <2>8, <3>1, <3>2
  <2>10. buf[esc + 4] # EndMarker => esc + 4 <= n
    <3>1. esc = n + 1 => esc + 4 = n + 5
      BY <1>0
    <3>2. EndMarker = 26
      BY DEF EndMarker
    <3> QED
      BY <1>0, <2>8, <3>1, <3>2
  <2>11. ASSUME NEW k \in {4, 8}, esc + k <= n
         PROVE  ScanBody(buf, esc + k, check).kind # "wait"
    <3>1. esc + k \in Nat \ {0} /\ esc + k > i /\ i <= Len(buf) /\ esc + k <= n + 1
      BY <1>0, <2>2, <2>6, <2>11
    <3>2. esc + k \in T
      BY <1>2, <3>1
    <3> QED
      BY <3>1, <3>2
  <2>12. /\ esc + 8 <= n => ScanBody(buf, esc + 8, check).kind # "wait"
         /\ esc + 4 <= n => ScanBody(buf, esc + 4, check).kind # "wait"
    BY <2>11
  <2> QED
    BY <2>3, <2>5, <2>7, <2>9, <2>10, <2>12 DEF ScanTurn, esc
<1> HIDE DEF T
<1>3. \A i \in Nat \ {0} : i \in T
  BY <1>0, <1>2, ScanInduction
<1>4. \A i \in 1..(n + 1) : i \in Nat \ {0} /\ i <= n + 1
  BY <1>0
<1> QED
  BY <1>3, <1>4 DEF T, n

\* No frame begins in the end of one.
LEMMA NoStartInEnd ==
    ASSUME NEW B \in Bytes, NEW t, NEW buf, Sealed(B, t, buf), NEW k \in Nat \ {0}, At(buf, k, Start)
    PROVE  k + 7 <= Len(B)
<1> DEFINE n == Len(B)
<1>1. /\ n \in Nat \ {0} /\ buf \in Bytes /\ Len(buf) = n + 8
      /\ (\A x \in 1..4 : buf[n + x] = 27) /\ buf[n + 5] = 26
  BY DEF Sealed
<1>2. k + 7 <= Len(buf) /\ (\A x \in 1..4 : buf[k + x - 1] = 27) /\ \A x \in 5..8 : buf[k + x - 1] = 1
  BY <1>1, PatternAt
<1> HIDE DEF n
<1> SUFFICES ASSUME k + 7 > n PROVE FALSE
  BY <1>1 DEF n
<1>3. CASE k + 7 <= n + 4
  <2>1. k + 7 - n \in 1..4 /\ n + (k + 7 - n) = k + 8 - 1 /\ 8 \in 5..8
    BY <1>1, <1>3
  <2> QED
    BY <1>1, <1>2, <2>1
<1>4. CASE k + 7 > n + 4
  <2>1. n + 6 - k \in 1..8 /\ k + (n + 6 - k) - 1 = n + 5
    BY <1>1, <1>2, <1>4
  <2>2. n + 6 - k \in 1..4 \/ n + 6 - k \in 5..8
    BY <1>1, <2>1
  <2> QED
    BY <1>1, <1>2, <2>1, <2>2
<1> QED
  BY <1>1, <1>3, <1>4

\* The end of a closed string is closed.
LEMMA ClosedEnd ==
    ASSUME NEW B \in Bytes, Closed(B), NEW k \in 1..Len(B)
    PROVE  /\ From(B, k) \in Bytes /\ Closed(From(B, k)) /\ Len(From(B, k)) = Len(B) - k + 1
<1> DEFINE n == Len(B)
           u == From(B, k)
<1>1. n \in Nat \ {0} /\ B[n] # 27
  BY DEF Closed, Bytes
<1>2. k \in 1..(Len(B) + 1)
  BY <1>1
<1>3. u \in Bytes /\ Len(u) = n - k + 1 /\ \A x \in 1..(n - k + 1) : u[x] = B[k + x - 1]
  BY <1>2, FromType
<1> HIDE DEF n, u
<1>4. n - k + 1 \in 1..(n - k + 1) /\ k + (n - k + 1) - 1 = n
  BY <1>1 DEF n
<1>5. u[Len(u)] # 27 /\ Len(u) # 0
  BY <1>1, <1>3, <1>4
<1>6. u # <<>>
  BY <1>5
<1> QED
  BY <1>3, <1>5, <1>6 DEF Closed, n, u

\* After the end of a frame no start escape is left in the buffer, whatever came
\* before the end.
LEMMA EndClears ==
    ASSUME NEW B \in Bytes, Closed(B), NEW t \in Bytes, EndsFrame(t), NEW check, NEW b,
           b = TakeFrames(B \o t, check).buffer
    PROVE  b \in Bytes /\ Idle(b)
<1> DEFINE buf == B \o t
<1>1. buf \in Bytes /\ Sealed(B, t, buf) /\ Len(buf) = Len(B) + 8 /\ Len(B) \in Nat \ {0}
  BY SealedBytes DEF Sealed
<1>2. b \in Bytes /\ Settled(b, check)
  BY <1>1, LeftSettled
<1>3. PICK k \in 1..(Len(buf) + 1) : b = From(buf, k)
  BY <1>1, TakeLeaves
<1>4. ASSUME At(b, 1, Start), ScanBody(b, 9, check).kind = "wait"
      PROVE  FALSE
  <2> HIDE DEF buf
  <2>1. At(buf, k, Start)
    <3>1. At(From(buf, k), 1, Start) <=> At(buf, k + 1 - 1, Start)
      BY <1>1, AtFrom, Patterns
    <3>2. k + 1 - 1 = k
      BY <1>1
    <3> QED
      BY <1>3, <1>4, <3>1, <3>2, Zenon
  <2>2. k \in Nat \ {0}
    BY <1>1
  <2>3. k + 7 <= Len(B)
    BY <1>1, <2>1, <2>2, NoStartInEnd
  <2> DEFINE C == From(B, k)
  <2>4. k \in 1..Len(B) /\ k \in 1..(Len(B) + 1)
    BY <1>1, <2>2, <2>3
  <2>5. C \in Bytes /\ Closed(C) /\ Len(C) = Len(B) - k + 1
    BY <2>4, ClosedEnd
  <2>6. b = C \o t
    <3>1. From(B \o t, k) = From(B, k) \o t
      BY <2>4, FromLonger
    <3> QED
      BY <1>3, <3>1, Zenon DEF buf
  <2> HIDE DEF C
  <2>7. Sealed(C, t, b)
    BY <2>5, <2>6, SealedBytes, Zenon
  <2>8. 9 \in 1..(Len(C) + 1)
    BY <1>1, <2>2, <2>3, <2>5
  <2>9. \A i \in 1..(Len(C) + 1) : ScanBody(b, i, check).kind # "wait"
    BY <2>5, <2>7, EndReached, Zenon
  <2> QED
    BY <1>4, <2>8, <2>9
<1> QED
  BY <1>2, <1>4, SettledWaits

\* The end of a frame of the builder is such an end.
LEMMA FrameCloses ==
    ASSUME NEW message \in Bytes, Closed(message)
    PROVE  \E t \in Bytes : EndsFrame(t) /\ Joins(BuildFrame(message), Opening(message), t)
<1> DEFINE x == Opening(message)
           e == EndBlock(message)
           c == Crc16Sml(Framed(message))
           t == e \o c
<1>1. x \in Bytes /\ Padding(message) \in 0..3 /\ BuildFrame(message) = (x \o e) \o c /\ Framed(message) = x \o e
  BY FrameParts DEF Framed
<1>2. e \in Bytes
  BY <1>1, EndBlockBytes DEF EndBlock
<1>3. c \in Bytes /\ Len(c) = 2
  <2>1. Framed(message) \in Bytes
    BY <1>1, <1>2, Longer, Zenon
  <2> QED
    BY <2>1, CrcIsBytes, CrcOfTwo
<1> HIDE DEF c
<1>4. Len(e) = 6 /\ (\A k \in 1..4 : t[k] = 27) /\ t[5] = 26
  BY <1>1, <1>3, EndBlockBytes DEF EndBlock
<1> HIDE DEF x, e
<1>5. t \in Bytes /\ Len(t) = Len(e) + Len(c)
  BY <1>2, <1>3, Longer
<1>6. EndsFrame(t)
  BY <1>3, <1>4, <1>5 DEF EndsFrame
<1>7. (x \o e) \o c = x \o (e \o c)
  <2>1. x \in Seq(Byte) /\ e \in Seq(Byte) /\ c \in Seq(Byte)
    BY <1>1, <1>2, <1>3 DEF Bytes
  <2> QED
    BY <2>1, Regrouped, SMTT(30)
<1> QED
  BY <1>1, <1>5, <1>6, <1>7, Zenon DEF Joins, x

\* A frame leaves no start escape behind, whatever came before it.
LEMMA FrameClears ==
    ASSUME NEW x \in Bytes, NEW r \in Readings, NEW check, NEW b,
           b = TakeFrames(x \o FrameOf[r], check).buffer
    PROVE  b \in Bytes /\ Idle(b)
<1> DEFINE message == BuildMessage(BuildGetListRes(r))
           o == Opening(message)
           B == x \o o
<1>1. message \in Bytes /\ Closed(message) /\ FrameOf[r] = BuildFrame(message)
  <2>1. r \in MeterReadings
    BY StreamAssumption
  <2> QED
    BY <2>1, BuiltMessage, MessageClosed DEF FrameOf, BuildMeterFrame
<1> HIDE DEF message
<1>2. PICK t \in Bytes : EndsFrame(t) /\ Joins(FrameOf[r], o, t)
  BY <1>1, FrameCloses, Zenon
<1>3. o \in Bytes /\ Closed(o)
  BY <1>1, FrameParts, OpeningPasses, Zenon
<1> HIDE DEF o
<1>4. B \in Bytes /\ Closed(B)
  BY <1>3, ClosedBehind, Longer, Zenon
<1>5. x \o FrameOf[r] = B \o t
  <2>1. x \in Seq(Byte) /\ o \in Seq(Byte) /\ t \in Seq(Byte)
    BY <1>3 DEF Bytes
  <2>2. x \o (o \o t) = (x \o o) \o t
    BY <2>1, Regrouped, SMTT(30)
  <2> QED
    BY <1>2, <2>2, Zenon DEF Joins
<1> HIDE DEF B
<1>6. b = TakeFrames(B \o t, check).buffer
  BY <1>5, Zenon
<1> QED
  BY <1>2, <1>4, <1>6, EndClears, Zenon

\* What is read of u and then f, when b is left of u.
ReadOn(u, b, f, check) ==
    /\ TakeFrames(u \o f, check).buffer = TakeFrames(b \o f, check).buffer
    /\ TakeFrames(u \o f, check).results = TakeFrames(u, check).results \o TakeFrames(b \o f, check).results

LEMMA TakeApart ==
    ASSUME NEW u \in Bytes, NEW f \in Bytes, NEW check
    PROVE  ReadOn(u, TakeFrames(u, check).buffer, f, check)
BY TakeLonger DEF ReadOn

\* What begins with a start escape is read behind b as by itself.
ReadAlone(b, f, check) == TakeFrames(b \o f, check) = TakeFrames(f, check)

LEMMA TakeAlone ==
    ASSUME NEW b \in Bytes, Idle(b), NEW z \in Bytes, NEW check
    PROVE  ReadAlone(b, Start \o z, check)
BY IdleStart DEF ReadAlone

\* In the bytes x, a frame of r, one of s and y, the parser reports the frame of
\* s, after what it reports before it, and reads y as if that came first.
SecondReported(x, r, s, y, check) ==
    LET first == TakeFrames(x \o FrameOf[r], check)
        rest == TakeFrames(y, check)
        all == TakeFrames(((x \o FrameOf[r]) \o FrameOf[s]) \o y, check)
    IN  /\ all.results = (first.results \o << <<Expected(s)>> >>) \o rest.results
        /\ all.buffer = rest.buffer

\* The parser finds its place again on any line: a whole frame that follows
\* directly on another comes out, decoded, whatever bytes came before the two,
\* and what follows is read as if it came first (sml/parser.py:245-301).
THEOREM SecondFrameArrives ==
    ASSUME NEW x \in Bytes, NEW y \in Bytes, NEW r \in Readings, NEW s \in Readings, Readable(s), NEW check
    PROVE  SecondReported(x, r, s, y, check)
<1> DEFINE u == x \o FrameOf[r]
           f == FrameOf[s]
           b == TakeFrames(u, check).buffer
           e == << <<Expected(s)>> >>
           w == <<>>
<1>1. u \in Bytes /\ f \in Bytes
  BY FramesAreBytes, Longer, Zenon
<1>2. b \in Bytes /\ Idle(b)
  BY FrameClears, Zenon
<1>3. TakeFrames(f, check).buffer = w /\ TakeFrames(f, check).results = e
  BY TakesFrame
<1>4. PICK z \in Bytes : f = Start \o z
  <2> DEFINE message == BuildMessage(BuildGetListRes(s))
  <2>1. message \in Bytes /\ Closed(message) /\ f = BuildFrame(message)
    <3>1. s \in MeterReadings
      BY StreamAssumption
    <3> QED
      BY <3>1, BuiltMessage, MessageClosed DEF FrameOf, BuildMeterFrame
  <2> HIDE DEF message, f
  <2> QED
    BY <2>1, FrameBegins, Zenon
<1>5. ReadOn(u, b, f, check)
  <2> HIDE DEF u, f
  <2> QED
    BY <1>1, TakeApart, Zenon
<1>6. TakeFrames(b \o f, check) = TakeFrames(f, check)
  <2> HIDE DEF b, f
  <2>1. ReadAlone(b, Start \o z, check)
    BY <1>2, TakeAlone, Zenon
  <2> QED
    BY <1>4, <2>1, Zenon DEF ReadAlone
<1> HIDE DEF b, e, f, u, w
<1> DEFINE v == u \o f
<1>7. v \in Bytes /\ TakeFrames(v, check).buffer = w /\ TakeFrames(v, check).results = TakeFrames(u, check).results \o e
  <2>1. v \in Bytes
    BY <1>1, Longer, Zenon
  <2> QED
    BY <1>3, <1>5, <1>6, <2>1, Zenon DEF ReadOn
<1> HIDE DEF v
<1>8. ReadOn(v, w, y, check)
  <2>1. ReadOn(v, TakeFrames(v, check).buffer, y, check)
    BY <1>7, TakeApart, Zenon
  <2> QED
    BY <1>7, <2>1, Zenon
<1>9. w \o y = y
  BY DEF w, Bytes
<1>10. /\ TakeFrames(v \o y, check).buffer = TakeFrames(y, check).buffer
       /\ TakeFrames(v \o y, check).results = (TakeFrames(u, check).results \o e) \o TakeFrames(y, check).results
  BY <1>7, <1>8, <1>9, Zenon DEF ReadOn
<1> QED
  BY <1>10, Zenon DEF v, u, e, f, SecondReported

\* So it is in what was read, whatever chunks it was read in.
FollowersArrive ==
    AllRead => \A x, y \in Bytes, r, s \in Readings :
        read = ((x \o FrameOf[r]) \o FrameOf[s]) \o y =>
            results = (TakeFrames(x \o FrameOf[r], verify).results \o << <<Expected(s)>> >>)
                          \o TakeFrames(y, verify).results

\* Damage hides at most one whole frame of an unbroken row: of two whole frames
\* in a row the second is reported, whatever the line brought before and however
\* it was split into chunks, unless the buffer was cut back (sml/parser.py:208-301).
THEOREM Resynchronised ==
    ASSUME ReadableReadings
    PROVE  Spec => []FollowersArrive
<1>1. ChunkingInvisible => FollowersArrive
  <2> SUFFICES ASSUME ChunkingInvisible, AllRead,
                      NEW x \in Bytes, NEW y \in Bytes, NEW r \in Readings, NEW s \in Readings,
                      read = ((x \o FrameOf[r]) \o FrameOf[s]) \o y
               PROVE  results = (TakeFrames(x \o FrameOf[r], verify).results \o << <<Expected(s)>> >>)
                                    \o TakeFrames(y, verify).results
    BY Zenon DEF FollowersArrive
  <2>1. results = TakeFrames(((x \o FrameOf[r]) \o FrameOf[s]) \o y, verify).results
    BY Zenon DEF ChunkingInvisible
  <2>2. Readable(s)
    BY Zenon DEF ReadableReadings
  <2>3. SecondReported(x, r, s, y, verify)
    BY <2>2, SecondFrameArrives, Zenon
  <2> QED
    BY <2>1, <2>3, Zenon DEF SecondReported
<1> QED
  BY <1>1, ChunksDoNotShow, PTL
=============================================================================
