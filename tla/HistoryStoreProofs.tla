------------------------ MODULE HistoryStoreProofs ------------------------
(***************************************************************************)
(* Proofs about HistoryStore, for any number of reader threads, series,    *)
(* intervals and retentions, and any bounds.                               *)
(***************************************************************************)
EXTENDS HistoryStore, TLAPS, FiniteSetTheorems, WellFoundedInduction

\* What a step of _maybe_prune does to the table: rows only go.
LEMMA PruneDeletes ==
    ASSUME NEW table, NEW now, NEW fault, MaybePrune(table, now, fault)
    PROVE  rows' \subseteq table
  BY DEF MaybePrune

\* What it says of the prunes keeps its type.
LEMMA PruneTypes ==
    ASSUME NEW table, NEW now \in Times, NEW fault \in BOOLEAN, MaybePrune(table, now, fault),
           lastPrune \in Times, settled \in BOOLEAN, due \in Nat, clock \in Nat, PruneInterval \in Nat
    PROVE  lastPrune' \in Times /\ settled' \in BOOLEAN /\ due' \in Nat
<1>1. clock + PruneInterval \in Nat
  OBVIOUS
<1>2. CASE now - lastPrune < PruneInterval
  BY <1>2 DEF MaybePrune, pruning
<1>3. CASE ~(now - lastPrune < PruneInterval)
  BY <1>1, <1>3 DEF MaybePrune
<1> QED
  BY <1>2, <1>3

\* What the assumption says of the values in use.
LEMMA TimesAndGaps ==
    ASSUME HistoryAssumption
    PROVE  /\ \A t \in Times : t \in Nat
           /\ \A i \in Intervals : i \in Nat \ {0}
           /\ None \notin Nat
  BY DEF HistoryAssumption, Times

\* The arithmetic of the reading of w and of the rows is that of numbers.
LEMMA Numbers ==
    ASSUME HistoryAssumption, HistoryTypeOK
    PROVE  /\ interval \in Nat \ {0}
           /\ \A r \in rows : r.ts \in Nat /\ r.series \in Series
           /\ \A p \in Readings : p.ts \in Nat /\ p.ts \in Times /\ p.series \in Series
           /\ \A s \in Series : lastStored[s] # None => lastStored[s] \in Nat
<1>1. interval \in Nat \ {0}
  BY TimesAndGaps DEF HistoryTypeOK
<1>2. \A r \in rows : r.ts \in Nat /\ r.series \in Series
  <2> SUFFICES ASSUME NEW r \in rows PROVE r.ts \in Nat /\ r.series \in Series
    OBVIOUS
  <2>1. r \in Rows
    BY DEF HistoryTypeOK
  <2>2. r.ts \in Times /\ r.series \in Series
    BY <2>1 DEF Rows
  <2> QED
    BY <2>2, TimesAndGaps
<1>3. \A p \in Readings : p.ts \in Times /\ p.series \in Series
  BY DEF Readings
<1>4. \A s \in Series : lastStored[s] \in Times \cup {None}
  BY DEF HistoryTypeOK
<1> QED
  BY <1>1, <1>2, <1>3, <1>4, TimesAndGaps

\* An empty store is typed.
LEMMA InitTyped ==
    ASSUME HistoryAssumption, Init
    PROVE  HistoryTypeOK
<1>1. clock \in Times /\ lastPrune \in Times /\ 0 \in 0..MaxEvents /\ due \in Nat
  BY DEF Init, Times, HistoryAssumption
<1>2. lastStored \in [Series -> Times \cup {None}]
  BY DEF Init
<1>3. pending \in [Writers -> Readings \cup {None}]
  BY DEF Init
<1>4. rows \subseteq Rows /\ failed \subseteq Readings
  BY DEF Init
<1> QED
  BY <1>1, <1>2, <1>3, <1>4 DEF Init, HistoryTypeOK

\* Every step of a reader, of the settings, the clock and a restart keeps the types.
LEMMA HistoryTypesKept ==
    ASSUME HistoryAssumption, HistoryTypeOK, [Next]_vars
    PROVE  HistoryTypeOK'
<1> USE HistoryAssumption DEF HistoryAssumption, HistoryTypeOK
<1>0. clock \in Nat /\ PruneInterval \in Nat
  BY DEF Times
<1>1. CASE Tick
  BY <1>1 DEF Tick, settings, counters, pruning, Times
<1>2. CASE SetBack
  <2>1. setBacks' \in 0..MaxEvents
    BY <1>2 DEF SetBack, EventLeft
  <2>2. clock' \in Times
    BY <1>2 DEF SetBack, Times
  <2> QED
    BY <1>2, <2>1, <2>2 DEF SetBack, settings, pruning
<1>3. CASE SetRetention
  <2>1. changes' \in 0..MaxEvents
    BY <1>3 DEF SetRetention, EventLeft
  <2>2. due' \in Nat
    BY <1>0, <1>3 DEF SetRetention
  <2> QED
    BY <1>3, <2>1, <2>2 DEF SetRetention
<1>4. CASE SetInterval
  <2>1. changes' \in 0..MaxEvents
    BY <1>4 DEF SetInterval, EventLeft
  <2> QED
    BY <1>4, <2>1 DEF SetInterval, pruning
<1>5. CASE Restart
  <2>1. era' \in 0..MaxEvents
    BY <1>5 DEF Restart, EventLeft
  <2>2. lastPrune' \in Times
    BY <1>5 DEF Restart, Times
  <2>3. lastStored' \in [Series -> Times \cup {None}]
    BY <1>5 DEF Restart
  <2>4. pending' \in [Writers -> Readings \cup {None}]
    BY <1>5 DEF Restart
  <2> QED
    BY <1>0, <1>5, <2>1, <2>2, <2>3, <2>4 DEF Restart, settings
<1>6. ASSUME NEW w \in Writers, Arrive(w)
      PROVE  HistoryTypeOK'
  BY <1>6 DEF Arrive, settings, counters, pruning, Readings
<1>7. ASSUME NEW w \in Writers, Throttle(w)
      PROVE  HistoryTypeOK'
  BY <1>7 DEF Throttle, Done, settings, counters, pruning
<1>8. ASSUME NEW w \in Writers, InsertFails(w)
      PROVE  HistoryTypeOK'
  <2>1. pending[w] \in Readings
    BY <1>8 DEF InsertFails, Waiting
  <2> QED
    BY <1>8, <2>1 DEF InsertFails, Done, EventLeft, settings, pruning, Readings
<1>9. ASSUME NEW w \in Writers, NEW fault \in BOOLEAN, Store(w, fault)
      PROVE  HistoryTypeOK'
  <2> DEFINE p == pending[w]
             row == [series |-> p.series, ts |-> p.ts, gap |-> interval, era |-> era]
  <2>1. p \in Readings /\ p.ts \in Times /\ p.series \in Series
    BY <1>9, Numbers DEF Store, Waiting
  <2>2. row \in Rows
    BY <2>1 DEF Rows
  <2>3. MaybePrune(rows \cup {row}, p.ts, fault)
    BY <1>9 DEF Store
  <2>4. rows' \subseteq rows \cup {row} /\ lastPrune' \in Times /\ settled' \in BOOLEAN /\ due' \in Nat
    <3>1. rows' \subseteq rows \cup {row}
      BY <2>3, PruneDeletes
    <3>2. lastPrune \in Times /\ settled \in BOOLEAN /\ due \in Nat
      OBVIOUS
    <3> HIDE DEF p, row, HistoryTypeOK, HistoryAssumption
    <3>3. p.ts \in Times
      BY <2>1
    <3>4. lastPrune' \in Times /\ settled' \in BOOLEAN /\ due' \in Nat
      BY <1>0, <2>3, <3>2, <3>3, PruneTypes
    <3> QED
      BY <3>1, <3>4
  <2>5. rows' \subseteq Rows
    BY <2>2, <2>4
  <2>6. faults' \in 0..MaxEvents
    BY <1>9 DEF Store, EventLeft
  <2>7. lastStored' \in [Series -> Times \cup {None}]
    BY <1>9, <2>1 DEF Store
  <2>8. pending' \in [Writers -> Readings \cup {None}]
    BY <1>9 DEF Store, Done
  <2> QED
    BY <1>9, <2>4, <2>5, <2>6, <2>7, <2>8 DEF Store, settings
<1>10. CASE UNCHANGED vars
  BY <1>10 DEF vars, settings, counters, pruning
<1> QED
  BY <1>1, <1>2, <1>3, <1>4, <1>5, <1>6, <1>7, <1>8, <1>9, <1>10 DEF Next, Record

\* Every variable of the store keeps its type (history.py:48-50).
THEOREM HistoryTyping == HistoryAssumption => (Spec => []HistoryTypeOK)
<1> SUFFICES ASSUME HistoryAssumption PROVE Spec => []HistoryTypeOK
  OBVIOUS
<1>1. Init => HistoryTypeOK
  BY InitTyped
<1>2. HistoryTypeOK /\ [Next]_vars => HistoryTypeOK'
  BY HistoryTypesKept
<1> QED
  BY <1>1, <1>2, PTL DEF Spec

-----------------------------------------------------------------------------
\* Why rows keep their distance: no row of this life of the gateway is younger
\* than _last_stored says.
Spaced ==
    /\ HistoryTypeOK
    /\ \A r \in rows : r.era <= era
    /\ \A r \in rows : r.era = era =>
          lastStored[r.series] # None /\ r.ts <= lastStored[r.series]
    /\ SpacedOut

\* A step that adds no row, keeps the life, and lets no time of a last row go
\* back, keeps the distances.
LEMMA SpacedWithoutRows ==
    ASSUME Spaced, HistoryTypeOK', rows' \subseteq rows, era' = era,
           lastStored' = lastStored
    PROVE  Spaced'
  BY DEF Spaced, SpacedOut

\* The strengthened invariant is kept: only record writes a row, and it looks first.
LEMMA SpacedKept ==
    ASSUME HistoryAssumption, Spaced, [Next]_vars
    PROVE  Spaced'
<1>1. HistoryTypeOK'
  BY HistoryTypesKept DEF Spaced
<1>2. CASE Tick \/ SetBack \/ SetRetention \/ SetInterval \/ UNCHANGED vars
  BY <1>1, <1>2, SpacedWithoutRows
  DEF Tick, SetBack, SetRetention, SetInterval, vars, settings, counters, pruning
<1>3. CASE Restart
  <2>1. \A r \in rows : r.era <= era /\ r.era \in Nat /\ era \in Nat
    BY HistoryAssumption DEF Spaced, HistoryTypeOK, Rows, HistoryAssumption
  <2> QED
    BY <1>1, <1>3, <2>1 DEF Restart, Spaced, SpacedOut
<1>4. ASSUME NEW w \in Writers, Arrive(w) \/ Throttle(w)
      PROVE  Spaced'
  BY <1>1, <1>4, SpacedWithoutRows DEF Arrive, Throttle, settings, counters, pruning
<1>5. ASSUME NEW w \in Writers, ~TooSoon(pending[w]), w \in Waiting
      PROVE  \A r \in rows : r.era = era /\ r.series = pending[w].series =>
                 pending[w].ts - r.ts >= interval
  <2>1. pending[w] \in Readings
    BY <1>5 DEF Waiting, Spaced, HistoryTypeOK
  <2>2. \A r \in rows : r.ts \in Nat /\ pending[w].ts \in Nat /\ interval \in Nat
    BY <2>1, Numbers DEF Spaced
  <2>3. lastStored[pending[w].series] # None => lastStored[pending[w].series] \in Nat
    BY <2>1, Numbers DEF Spaced
  <2> QED
    BY <1>5, <2>2, <2>3 DEF TooSoon, Spaced
<1>6. ASSUME NEW w \in Writers, InsertFails(w)
      PROVE  Spaced'
  <2>1. pending[w] \in Readings
    BY <1>6 DEF InsertFails, Waiting, Spaced, HistoryTypeOK
  <2>2. \A r \in rows : r.ts \in Nat /\ pending[w].ts \in Nat /\ interval \in Nat
    BY <2>1, Numbers DEF Spaced
  <2>3. /\ rows' = rows /\ era' = era /\ None \notin Nat
        /\ lastStored' = [lastStored EXCEPT ![pending[w].series] = pending[w].ts]
        /\ \A r \in rows : r.era = era /\ r.series = pending[w].series =>
                pending[w].ts - r.ts >= interval
    BY <1>5, <1>6, HistoryAssumption DEF InsertFails, HistoryAssumption
  <2>4. \A r \in rows : r.era = era =>
            lastStored'[r.series] # None /\ r.ts <= lastStored'[r.series]
    BY <2>1, <2>2, <2>3 DEF Spaced, HistoryTypeOK, Rows, Readings
  <2> QED
    BY <1>1, <2>3, <2>4 DEF Spaced, SpacedOut
<1>7. ASSUME NEW w \in Writers, NEW fault \in BOOLEAN, Store(w, fault)
      PROVE  Spaced'
  <2> DEFINE p == pending[w]
             row == [series |-> p.series, ts |-> p.ts, gap |-> interval, era |-> era]
  <2>1. p \in Readings /\ p.ts \in Times /\ p.series \in Series
    <3>1. p \in Readings
      BY <1>7 DEF Store, Waiting, Spaced, HistoryTypeOK
    <3> QED
      BY <3>1, Numbers DEF Spaced
  <2>2. \A r \in rows : r.ts \in Nat /\ p.ts \in Nat /\ interval \in Nat \ {0}
    BY <2>1, Numbers DEF Spaced
  <2>3. rows' \subseteq rows \cup {row}
    BY <1>7, <2>1, PruneDeletes DEF Store
  <2>4. /\ era' = era /\ p.ts \in Nat /\ None \notin Nat /\ era \in Nat
        /\ lastStored' = [lastStored EXCEPT ![p.series] = p.ts]
        /\ \A r \in rows : r.era = era /\ r.series = p.series => p.ts - r.ts >= interval
    BY <1>5, <1>7, <2>1, HistoryAssumption
    DEF Store, Times, HistoryAssumption, Spaced, HistoryTypeOK
  <2>5. \A r \in rows' : r.era <= era
    BY <2>3, <2>4 DEF Spaced
  <2>6. \A r \in rows' : r.era = era =>
            lastStored'[r.series] # None /\ r.ts <= lastStored'[r.series]
    <3>1. lastStored'[p.series] = p.ts
      BY <2>1, <2>4 DEF Spaced, HistoryTypeOK
    <3>2. \A r \in rows : r.series # p.series => lastStored'[r.series] = lastStored[r.series]
      BY <2>4 DEF Spaced, HistoryTypeOK, Rows
    <3> QED
      BY <2>2, <2>3, <2>4, <3>1, <3>2 DEF Spaced
  <2>7. SpacedOut'
    <3> SUFFICES ASSUME NEW a \in rows', NEW b \in rows', a # b, a.series = b.series,
                        a.era = b.era, a.ts <= b.ts
                 PROVE  b.ts - a.ts >= b.gap
      BY DEF SpacedOut
    <3>1. CASE a \in rows /\ b \in rows
      BY <3>1 DEF Spaced, SpacedOut
    <3>2. CASE b = row
      BY <2>3, <2>4, <3>2
    <3>3. CASE a = row
      BY <2>2, <2>3, <2>4, <3>3
    <3> QED
      BY <2>3, <3>1, <3>2, <3>3
  <2> QED
    BY <1>1, <2>4, <2>5, <2>6, <2>7 DEF Spaced
<1> QED
  BY <1>2, <1>3, <1>4, <1>6, <1>7 DEF Next, Record

\* Rows of a series are at least sample_interval apart within one life of the
\* gateway (history.py:6-8, 69-87), whatever readers come late, and whatever
\* settings, clock and database do.
THEOREM Spacing == HistoryAssumption => (Spec => []SpacedOut)
<1> SUFFICES ASSUME HistoryAssumption PROVE Spec => []SpacedOut
  OBVIOUS
<1>1. Init => Spaced
  BY InitTyped DEF Init, Spaced, SpacedOut
<1>2. Spaced /\ [Next]_vars => Spaced'
  BY SpacedKept
<1>3. Spaced => SpacedOut
  BY DEF Spaced
<1> QED
  BY <1>1, <1>2, <1>3, PTL DEF Spec

-----------------------------------------------------------------------------
(* Age, and why a reading was dropped, while the clock is not set back.    *)

\* The times of the store, its settings and its bounds are numbers.
LEMMA Amounts ==
    ASSUME HistoryAssumption, HistoryTypeOK
    PROVE  /\ clock \in Nat /\ lastPrune \in Nat /\ retention \in Nat
           /\ PruneInterval \in Nat \ {0} /\ MaxWait \in Nat
           /\ \A i \in Intervals : i \in Nat /\ retention >= i + MaxWait
           /\ \A w \in Waiting : pending[w] \in Readings /\ pending[w].ts \in Nat
<1>1. \A w \in Waiting : pending[w] \in Readings
  BY DEF Waiting, HistoryTypeOK
<1>2. \A w \in Waiting : pending[w].ts \in Nat
  BY <1>1, Numbers
<1>3. clock \in Nat /\ lastPrune \in Nat
  BY TimesAndGaps DEF HistoryTypeOK
<1>4. interval \in Intervals /\ retention \in Retentions
  BY DEF HistoryTypeOK
<1> QED
  BY <1>1, <1>2, <1>3, <1>4 DEF HistoryAssumption

\* Nothing is from the future, and no reading waits longer than MaxWait.
OnTime ==
    setBacks = 0 =>
        /\ PruneInterval <= clock /\ lastPrune <= clock
        /\ \A r \in rows : r.ts <= clock
        /\ \A w \in Waiting :
              PruneInterval <= pending[w].ts /\ pending[w].ts <= clock /\ clock <= pending[w].ts + MaxWait

\* Rows are younger than the time between two prunes past the last one, unless
\* there was none since the gateway was started: then the next row prunes.
Pruned ==
    setBacks = 0 =>
        /\ \/ lastPrune = 0 /\ ~settled /\ \A w \in Waiting, r \in rows : r.ts <= pending[w].ts
           \/ \A r \in rows : r.ts - lastPrune < PruneInterval
        /\ settled => \A r \in rows : r.ts >= lastPrune - retention

\* What _last_stored names is a row or a refused one, or so long past that it
\* keeps no reading out.
Known ==
    setBacks = 0 => \A s \in Series : lastStored[s] # None =>
        /\ lastStored[s] <= clock
        /\ \/ \E r \in rows \cup failed : r.series = s /\ r.ts = lastStored[s]
           \/ \A i \in Intervals : lastStored[s] + i + MaxWait < clock

AgeInv == HistoryTypeOK /\ OnTime /\ Pruned /\ Known

\* A recorded row keeps what is said of times, ages and last rows.
LEMMA StoreKeepsAge ==
    ASSUME HistoryAssumption, AgeInv, NEW w \in Writers, NEW fault \in BOOLEAN, Store(w, fault)
    PROVE  (OnTime /\ Pruned /\ Known)'
<1> DEFINE p == pending[w]
           row == [series |-> p.series, ts |-> p.ts, gap |-> interval, era |-> era]
<1> USE DEF AgeInv
<1> SUFFICES ASSUME setBacks = 0 PROVE (OnTime /\ Pruned /\ Known)'
  BY DEF Store, OnTime, Pruned, Known
<1>1. w \in Waiting /\ p \in Readings /\ p.series \in Series /\ p.ts \in Nat /\ p.ts <= clock
      /\ PruneInterval <= p.ts /\ clock <= p.ts + MaxWait
  BY Amounts, Numbers DEF Store, OnTime
<1>2. /\ Waiting' = Waiting \ {w} /\ \A v \in Waiting' : pending'[v] = pending[v]
      /\ clock' = clock /\ retention' = retention /\ failed' = failed
      /\ lastStored' = [lastStored EXCEPT ![p.series] = p.ts]
  BY DEF Store, Done, Waiting, settings, HistoryTypeOK
<1>3. \/ /\ p.ts - lastPrune < PruneInterval
         /\ rows' = rows \cup {row} /\ lastPrune' = lastPrune /\ settled' = settled
      \/ /\ ~(p.ts - lastPrune < PruneInterval) /\ lastPrune' = p.ts
         /\ \/ rows' = rows \cup {row} /\ settled' = FALSE
            \/ rows' = {r \in rows \cup {row} : r.ts >= p.ts - retention} /\ settled' = TRUE
  BY DEF Store, MaybePrune, pruning
<1>4. \A r \in rows : r.ts \in Nat /\ r.ts <= clock
  BY Numbers DEF OnTime
<1>5. row.ts = p.ts /\ row.series = p.series
  OBVIOUS
<1> HIDE DEF p, row
<1>6. rows' \subseteq rows \cup {row} /\ row \in rows'
  <2>1. row.ts >= p.ts - retention
    <3>1. retention \in Nat
      BY Amounts
    <3> QED
      BY <1>1, <1>5, <3>1
  <2> QED
    BY <1>3, <2>1
<1>7. OnTime'
  BY <1>1, <1>2, <1>3, <1>4, <1>5, <1>6 DEF OnTime
<1>8. Pruned'
  <2>1. \/ lastPrune = 0 /\ ~settled /\ \A r \in rows : r.ts <= p.ts
        \/ \A r \in rows : r.ts - lastPrune < PruneInterval
    BY <1>1 DEF Pruned, p
  <2>2. CASE p.ts - lastPrune < PruneInterval
    <3>1. rows' = rows \cup {row} /\ lastPrune' = lastPrune /\ settled' = settled
      BY <1>3, <2>2
    <3>2. ~(lastPrune = 0)
      BY <1>1, <2>2, Amounts
    <3>3. \A r \in rows' : r.ts - lastPrune' < PruneInterval
      BY <1>5, <2>1, <2>2, <3>1, <3>2
    <3>4. settled' => \A r \in rows' : r.ts >= lastPrune' - retention'
      <4>1. lastPrune <= clock /\ MaxWait <= retention
        <5>1. interval \in Intervals /\ lastPrune <= clock
          BY DEF HistoryTypeOK, OnTime
        <5> QED
          BY <5>1, Amounts
      <4>2. p.ts >= lastPrune - retention
        BY <1>1, <4>1, Amounts
      <4> QED
        BY <1>2, <1>5, <3>1, <4>2 DEF Pruned
    <3> QED
      BY <3>3, <3>4 DEF Pruned
  <2>3. CASE ~(p.ts - lastPrune < PruneInterval)
    <3>1. /\ lastPrune' = p.ts
          /\ settled' => rows' = {r \in rows \cup {row} : r.ts >= p.ts - retention}
      BY <1>3, <2>3
    <3>2. \A r \in rows : r.ts <= p.ts
      BY <1>1, <1>4, <2>1, <2>3, Amounts
    <3>3. \A r \in rows' : r.ts - lastPrune' < PruneInterval
      BY <1>1, <1>4, <1>5, <1>6, <3>1, <3>2, Amounts
    <3>4. settled' => \A r \in rows' : r.ts >= lastPrune' - retention'
      BY <1>2, <3>1
    <3> QED
      BY <3>3, <3>4 DEF Pruned
  <2> QED
    BY <2>2, <2>3
<1>9. Known'
  <2> SUFFICES ASSUME NEW s \in Series, lastStored'[s] # None
               PROVE  /\ lastStored'[s] <= clock
                      /\ \/ \E r \in rows' \cup failed : r.series = s /\ r.ts = lastStored'[s]
                         \/ \A i \in Intervals : lastStored'[s] + i + MaxWait < clock
    BY <1>2 DEF Known
  <2>1. CASE s = p.series
    <3>1. lastStored'[s] = p.ts
      BY <1>1, <1>2, <2>1 DEF HistoryTypeOK
    <3> QED
      BY <1>1, <1>5, <1>6, <2>1, <3>1
  <2>2. CASE s # p.series
    <3>1. lastStored'[s] = lastStored[s]
      BY <1>1, <1>2, <2>2 DEF HistoryTypeOK
    <3>2. lastStored[s] \in Nat /\ lastStored[s] <= clock
      BY <3>1, Numbers DEF Known
    <3>3. CASE \A i \in Intervals : lastStored[s] + i + MaxWait < clock
      BY <3>1, <3>2, <3>3
    <3>4. ASSUME NEW r \in rows \cup failed, r.series = s, r.ts = lastStored[s], r \notin rows' \cup failed
          PROVE  \A i \in Intervals : lastStored[s] + i + MaxWait < clock
      <4>1. r \in rows /\ ~(r.ts >= p.ts - retention)
        BY <1>2, <1>3, <3>4
      <4>2. \A i \in Intervals : i \in Nat /\ lastStored[s] + i + MaxWait <= lastStored[s] + retention
        <5>1. MaxWait \in Nat /\ retention \in Nat /\ \A i \in Intervals : i \in Nat /\ retention >= i + MaxWait
          BY Amounts
        <5>2. ASSUME NEW i \in Intervals
              PROVE  i \in Nat /\ lastStored[s] + i + MaxWait <= lastStored[s] + retention
          <6>1. i \in Nat /\ retention >= i + MaxWait
            BY <5>1
          <6>2. lastStored[s] \in Nat /\ MaxWait \in Nat /\ retention \in Nat
            BY <3>2, <5>1
          <6> QED
            BY <6>1, <6>2
        <5> QED
          BY <5>2
      <4>3. retention \in Nat /\ clock \in Nat /\ MaxWait \in Nat
        BY Amounts
      <4>4. lastStored[s] + retention < clock
        BY <1>1, <1>4, <3>2, <3>4, <4>1, <4>3
      <4> SUFFICES ASSUME NEW i \in Intervals PROVE lastStored[s] + i + MaxWait < clock
        OBVIOUS
      <4>5. i \in Nat /\ lastStored[s] + i + MaxWait <= lastStored[s] + retention
        BY <4>2
      <4> QED
        BY <3>2, <4>3, <4>4, <4>5
    <3> QED
      BY <3>1, <3>2, <3>3, <3>4 DEF Known
  <2> QED
    BY <2>1, <2>2
<1> QED
  BY <1>7, <1>8, <1>9

\* A step that leaves rows, prune, last rows and settings alone, and lets no
\* reading wait too long, keeps what is said of ages.
LEMMA QuietStepKeepsAge ==
    ASSUME HistoryAssumption, AgeInv, setBacks' = setBacks, rows' = rows, clock' = clock,
           lastPrune' = lastPrune, lastStored' = lastStored, failed' = failed,
           \/ UNCHANGED <<retention, settled>>
           \/ ~settled',
           \A w \in Waiting' : \/ w \in Waiting /\ pending'[w] = pending[w]
                              \/ pending'[w].ts = clock
    PROVE  (OnTime /\ Pruned /\ Known)'
<1> USE DEF AgeInv
<1>1. clock \in Nat /\ MaxWait \in Nat
  BY Amounts
<1>2. OnTime'
  BY <1>1 DEF OnTime
<1>3. Pruned'
  <2> SUFFICES ASSUME setBacks = 0 PROVE Pruned'
    BY DEF Pruned
  <2>1. CASE lastPrune = 0 /\ ~settled /\ \A w \in Waiting, r \in rows : r.ts <= pending[w].ts
    <3>1. \A w \in Waiting', r \in rows : r.ts <= pending'[w].ts
      BY <2>1 DEF OnTime
    <3> QED
      BY <2>1, <3>1 DEF Pruned
  <2>2. CASE \A r \in rows : r.ts - lastPrune < PruneInterval
    BY <2>2 DEF Pruned
  <2> QED
    BY <2>1, <2>2 DEF Pruned
<1>4. Known'
  BY DEF Known
<1> QED
  BY <1>2, <1>3, <1>4

LEMMA AgeKept ==
    ASSUME HistoryAssumption, AgeInv, [Next]_vars
    PROVE  AgeInv'
<1> USE DEF AgeInv
<1>0. HistoryTypeOK'
  BY HistoryTypesKept
<1>1. CASE Tick
  <2>1. /\ UNCHANGED <<rows, lastPrune, lastStored, failed, settled, retention, setBacks, pending>>
        /\ clock' = clock + 1 /\ Waiting' = Waiting
        /\ \A w \in Waiting : clock < pending[w].ts + MaxWait
    BY <1>1 DEF Tick, Waiting, settings, counters, pruning
  <2>2. clock \in Nat /\ MaxWait \in Nat /\ lastPrune \in Nat /\ PruneInterval \in Nat
    BY Amounts
  <2>3. \A w \in Waiting : pending[w].ts \in Nat
    BY Amounts
  <2>4. \A r \in rows : r.ts \in Nat
    BY Numbers
  <2>5. OnTime'
    BY <2>1, <2>2, <2>3, <2>4 DEF OnTime
  <2>6. Pruned'
    BY <2>1 DEF Pruned
  <2>7. Known'
    <3> SUFFICES ASSUME setBacks = 0, NEW s \in Series, lastStored[s] # None
                 PROVE  /\ lastStored[s] <= clock + 1
                        /\ \/ \E r \in rows \cup failed : r.series = s /\ r.ts = lastStored[s]
                           \/ \A i \in Intervals : lastStored[s] + i + MaxWait < clock + 1
      BY <2>1 DEF Known
    <3>1. lastStored[s] \in Nat /\ \A i \in Intervals : i \in Nat
      BY Numbers, Amounts
    <3>2. lastStored[s] <= clock + 1
      BY <2>2, <3>1 DEF Known
    <3>3. CASE \A i \in Intervals : lastStored[s] + i + MaxWait < clock
      <4> SUFFICES ASSUME NEW i \in Intervals PROVE lastStored[s] + i + MaxWait < clock + 1
        BY <3>2
      <4>1. lastStored[s] + i + MaxWait < clock
        BY <3>3
      <4> QED
        BY <2>2, <3>1, <4>1
    <3> QED
      BY <3>2, <3>3 DEF Known
  <2> QED
    BY <1>0, <2>5, <2>6, <2>7
<1>2. CASE SetBack
  <2>1. setBacks' # 0
    BY <1>2 DEF SetBack, HistoryTypeOK
  <2> QED
    BY <1>0, <2>1 DEF OnTime, Pruned, Known
<1>3. CASE SetRetention \/ SetInterval \/ UNCHANGED vars
  BY <1>0, <1>3, QuietStepKeepsAge DEF SetRetention, SetInterval, vars, settings, counters, pruning, Waiting
<1>4. CASE Restart
  <2>1. /\ Waiting' = {} /\ lastPrune' = 0 /\ ~settled' /\ lastStored' = [s \in Series |-> None]
        /\ UNCHANGED <<clock, rows, setBacks>>
    BY <1>4 DEF Restart, Waiting
  <2>2. clock \in Nat
    BY Amounts
  <2> QED
    BY <1>0, <2>1, <2>2 DEF OnTime, Pruned, Known
<1>5. ASSUME NEW w \in Writers, Arrive(w) \/ Throttle(w)
      PROVE  AgeInv'
  <2>1. \A v \in Waiting' : \/ v \in Waiting /\ pending'[v] = pending[v]
                           \/ pending'[v].ts = clock
    BY <1>5 DEF Arrive, Throttle, Done, Waiting, HistoryTypeOK
  <2> QED
    BY <1>0, <1>5, <2>1, QuietStepKeepsAge DEF Arrive, Throttle, settings, counters, pruning
<1>6. ASSUME NEW w \in Writers, InsertFails(w)
      PROVE  AgeInv'
  <2>1. /\ Waiting' = Waiting \ {w} /\ \A v \in Waiting' : pending'[v] = pending[v]
        /\ UNCHANGED <<clock, rows, lastPrune, retention, settled, setBacks>>
        /\ w \in Waiting /\ failed' = failed \cup {pending[w]}
        /\ lastStored' = [lastStored EXCEPT ![pending[w].series] = pending[w].ts]
    BY <1>6 DEF InsertFails, Done, Waiting, settings, pruning, HistoryTypeOK
  <2>2. OnTime' /\ Pruned'
    BY <2>1 DEF OnTime, Pruned
  <2>3. Known'
    BY <2>1 DEF Known, OnTime, HistoryTypeOK
  <2> QED
    BY <1>0, <2>2, <2>3
<1>7. ASSUME NEW w \in Writers, NEW fault \in BOOLEAN, Store(w, fault)
      PROVE  AgeInv'
  BY <1>0, <1>7, StoreKeepsAge
<1> QED
  BY <1>1, <1>2, <1>3, <1>4, <1>5, <1>6, <1>7 DEF Next, Record

LEMMA AgeInvariant == HistoryAssumption => (Spec => []AgeInv)
<1> SUFFICES ASSUME HistoryAssumption PROVE Spec => []AgeInv
  OBVIOUS
<1>1. ASSUME Init PROVE AgeInv
  <2>1. HistoryTypeOK
    BY <1>1, InitTyped
  <2>2. Waiting = {} /\ clock = PruneInterval /\ PruneInterval \in Nat
    BY <1>1, <2>1, Amounts DEF Init, Waiting
  <2> QED
    BY <1>1, <2>1, <2>2 DEF Init, AgeInv, OnTime, Pruned, Known
<1>2. AgeInv /\ [Next]_vars => AgeInv'
  BY AgeKept
<1> QED
  BY <1>1, <1>2, PTL DEF Spec

\* Until the table has been pruned under the present retention, no row of this
\* life of the gateway is from the time at which that is to have happened.
Swept ==
    /\ \A r \in rows : r.era <= era
    /\ setBacks = 0 /\ ~settled =>
          /\ lastPrune + PruneInterval <= due
          /\ \A r \in rows : r.era = era => r.ts < due

\* A recorded row is from before that time, or it prunes.
LEMMA StoreKeepsSwept ==
    ASSUME HistoryAssumption, AgeInv, Swept, NEW w \in Writers, NEW fault \in BOOLEAN, Store(w, fault)
    PROVE  Swept'
<1> DEFINE p == pending[w]
           row == [series |-> p.series, ts |-> p.ts, gap |-> interval, era |-> era]
<1>1. w \in Waiting /\ p.ts \in Nat /\ (setBacks = 0 => p.ts <= clock)
  BY Amounts DEF Store, AgeInv, OnTime
<1>2. era' = era /\ setBacks' = setBacks /\ era \in Nat
  BY DEF Store, AgeInv, HistoryTypeOK
<1>3. row.ts = p.ts /\ row.era = era
  OBVIOUS
<1>4. \/ /\ p.ts - lastPrune < PruneInterval
         /\ rows' = rows \cup {row} /\ lastPrune' = lastPrune /\ settled' = settled /\ due' = due
      \/ /\ lastPrune' = p.ts
         /\ \/ rows' = rows \cup {row} /\ settled' = FALSE /\ due' = clock + PruneInterval
            \/ rows' = {r \in rows \cup {row} : r.ts >= p.ts - retention} /\ settled' = TRUE
  BY DEF Store, MaybePrune, pruning
<1>5. /\ clock \in Nat /\ lastPrune \in Nat /\ PruneInterval \in Nat \ {0} /\ due \in Nat
      /\ \A r \in rows : r.ts \in Nat /\ (setBacks = 0 => r.ts <= clock)
  BY Amounts, Numbers DEF AgeInv, HistoryTypeOK, OnTime
<1> HIDE DEF p, row
<1>6. \A r \in rows' : r.era <= era'
  BY <1>2, <1>3, <1>4 DEF Swept
<1>7. ASSUME setBacks = 0, ~settled'
      PROVE  lastPrune' + PruneInterval <= due' /\ \A r \in rows' : r.era = era' => r.ts < due'
  <2>1. CASE /\ p.ts - lastPrune < PruneInterval
             /\ rows' = rows \cup {row} /\ lastPrune' = lastPrune /\ settled' = settled /\ due' = due
    <3>1. lastPrune + PruneInterval <= due /\ \A r \in rows : r.era = era => r.ts < due
      BY <1>7, <2>1 DEF Swept
    <3>2. p.ts < due
      BY <1>1, <1>5, <2>1, <3>1
    <3> QED
      BY <1>2, <1>3, <2>1, <3>1, <3>2
  <2>2. CASE rows' = rows \cup {row} /\ due' = clock + PruneInterval /\ lastPrune' = p.ts
    <3>1. \A r \in rows' : r.ts < due'
      BY <1>1, <1>3, <1>5, <1>7, <2>2
    <3> QED
      BY <1>1, <1>5, <1>7, <2>2, <3>1
  <2> QED
    BY <1>4, <1>7, <2>1, <2>2
<1> QED
  BY <1>2, <1>6, <1>7 DEF Swept

\* A new retention, a restart and the other steps give the next prune its time.
LEMMA SweptKept ==
    ASSUME HistoryAssumption, AgeInv, Swept, [Next]_vars
    PROVE  Swept'
<1>1. /\ clock \in Nat /\ lastPrune \in Nat /\ PruneInterval \in Nat \ {0} /\ era \in Nat
      /\ \A r \in rows : r.ts \in Nat /\ (setBacks = 0 => r.ts <= clock)
      /\ setBacks = 0 => lastPrune <= clock
  BY Amounts, Numbers DEF AgeInv, HistoryTypeOK, OnTime
<1>2. CASE Tick \/ SetInterval \/ UNCHANGED vars \/ \E w \in Writers : Arrive(w) \/ Throttle(w) \/ InsertFails(w)
  <2>1. UNCHANGED <<rows, lastPrune, settled, due, era, setBacks>>
    BY <1>2 DEF Tick, SetInterval, vars, Arrive, Throttle, InsertFails, settings, counters, pruning
  <2> QED
    BY <2>1 DEF Swept
<1>3. CASE SetBack
  <2>1. setBacks' # 0 /\ rows' = rows /\ era' = era
    BY <1>3 DEF SetBack, AgeInv, HistoryTypeOK
  <2> QED
    BY <2>1 DEF Swept
<1>4. CASE SetRetention
  <2>1. due' = clock + PruneInterval /\ UNCHANGED <<rows, lastPrune, era, setBacks>>
    BY <1>4 DEF SetRetention
  <2> QED
    BY <1>1, <2>1 DEF Swept
<1>5. CASE Restart
  <2>1. /\ era' = era + 1 /\ lastPrune' = 0 /\ due' = PruneInterval
        /\ rows' = rows /\ setBacks' = setBacks
    BY <1>5 DEF Restart
  <2>2. \A r \in rows : r.era \in Nat
    BY DEF AgeInv, HistoryTypeOK, Rows
  <2> QED
    BY <1>1, <2>1, <2>2 DEF Swept
<1>6. ASSUME NEW w \in Writers, NEW fault \in BOOLEAN, Store(w, fault)
      PROVE  Swept'
  BY <1>6, StoreKeepsSwept
<1> QED
  BY <1>2, <1>3, <1>4, <1>5, <1>6 DEF Next, Record

\* While the clock is not set back, no row is older than the newest by more
\* than the retention and the time between two prunes (history.py:89-95): from
\* the first row on that a gateway writes, and again by the time between two
\* prunes after a new retention or a DELETE that was refused.
THEOREM Ageing == HistoryAssumption => (Spec => []AgeBounded)
<1> SUFFICES ASSUME HistoryAssumption PROVE Spec => []AgeBounded
  OBVIOUS
<1>1. ASSUME Init PROVE Swept
  <2>1. PruneInterval \in Nat
    BY <1>1, InitTyped, Amounts
  <2> QED
    BY <1>1, <2>1 DEF Init, Swept
<1>2. AgeInv /\ Swept /\ [Next]_vars => Swept'
  BY SweptKept
<1>3. ASSUME AgeInv, Swept PROVE AgeBounded
  <2> SUFFICES ASSUME setBacks = 0, settled \/ \E r \in rows : r.era = era /\ r.ts >= due,
                      NEW a \in rows, NEW b \in rows
               PROVE  a.ts - b.ts < retention + PruneInterval
    BY DEF AgeBounded
  <2>1. settled
    <3>1. due \in Nat /\ \A r \in rows : r.ts \in Nat
      BY <1>3, Numbers DEF AgeInv, HistoryTypeOK
    <3> QED
      BY <1>3, <3>1 DEF Swept
  <2>2. a.ts - lastPrune < PruneInterval /\ b.ts >= lastPrune - retention
    BY <1>3, <2>1 DEF AgeInv, Pruned
  <2>3. a.ts \in Nat /\ b.ts \in Nat
    BY <1>3, Numbers DEF AgeInv
  <2>4. lastPrune \in Nat /\ retention \in Nat /\ PruneInterval \in Nat
    BY <1>3, Amounts DEF AgeInv
  <2> QED
    BY <2>2, <2>3, <2>4
<1> QED
  BY <1>1, <1>2, <1>3, AgeInvariant, PTL DEF Spec

\* While the clock is not set back, a reading is dropped only for a row, or a
\* refused one, of its series that is near it in time (history.py:66-79).
THEOREM Throttling == HistoryAssumption => (Spec => ThrottledForAReason)
<1> SUFFICES ASSUME HistoryAssumption PROVE Spec => ThrottledForAReason
  OBVIOUS
<1> DEFINE Reason(w) == \E r \in rows \cup failed :
                           /\ r.series = pending[w].series
                           /\ pending[w].ts - interval < r.ts /\ r.ts <= pending[w].ts + MaxWait
<1>1. ASSUME AgeInv, NEW w \in Writers, Throttle(w), setBacks = 0 PROVE Reason(w)
  <2>1. w \in Waiting /\ TooSoon(pending[w])
    BY <1>1 DEF Throttle
  <2> DEFINE s == pending[w].series
  <2>2. s \in Series /\ lastStored[s] # None /\ pending[w].ts - lastStored[s] < interval
    BY <1>1, <2>1, Amounts, Numbers DEF TooSoon, AgeInv
  <2>3. lastStored[s] \in Nat /\ interval \in Nat /\ interval \in Intervals
    BY <1>1, <2>2, Numbers DEF AgeInv, HistoryTypeOK
  <2>4. pending[w].ts \in Nat /\ clock \in Nat /\ MaxWait \in Nat
    BY <1>1, <2>1, Amounts DEF AgeInv
  <2>5. clock <= pending[w].ts + MaxWait
    BY <1>1, <2>1 DEF AgeInv, OnTime
  <2>6. ~(lastStored[s] + interval + MaxWait < clock)
    BY <2>2, <2>3, <2>4, <2>5
  <2>7. PICK r \in rows \cup failed : r.series = s /\ r.ts = lastStored[s]
    BY <1>1, <2>2, <2>3, <2>6 DEF AgeInv, Known
  <2>8. lastStored[s] <= clock
    BY <1>1, <2>2 DEF AgeInv, Known
  <2>9. pending[w].ts - interval < r.ts /\ r.ts <= pending[w].ts + MaxWait
    BY <2>2, <2>3, <2>4, <2>5, <2>7, <2>8
  <2> QED
    BY <2>7, <2>9
<1>2. AgeInv /\ [Next]_vars => [\A w \in Writers : Throttle(w) /\ setBacks = 0 => Reason(w)]_vars
  BY <1>1
<1> QED
  BY <1>2, AgeInvariant, PTL DEF Spec, ThrottledForAReason

-----------------------------------------------------------------------------
(* Charts.                                                                 *)

\* A larger number holds k at least as often.
LEMMA DivGrows ==
    ASSUME NEW x \in Nat, NEW y \in Nat, NEW k \in Nat \ {0}, x <= y
    PROVE  x \div k \in Nat /\ y \div k \in Nat /\ x \div k <= y \div k
<1> DEFINE a == x \div k
           b == y \div k
<1>1. a \in Int /\ k * a <= x /\ x < k * a + k
  OBVIOUS
<1>2. b \in Int /\ k * b <= y /\ y < k * b + k
  OBVIOUS
<1> HIDE DEF a, b
<1>3. a <= b
  <2> SUFFICES ASSUME b + 1 <= a PROVE FALSE
    BY <1>1, <1>2
  <2>1. k * (b + 1) <= k * a
    BY <1>1, <1>2
  <2>2. k * (b + 1) = k * b + k
    BY <1>2
  <2> QED
    BY <1>1, <1>2, <2>1, <2>2
<1>4. 0 <= a /\ 0 <= b
  <2>1. ASSUME NEW c \in Int, NEW z \in Nat, z < k * c + k PROVE 0 <= c
    <3> SUFFICES ASSUME c + 1 <= 0 PROVE FALSE
      BY <2>1
    <3>1. k * (c + 1) <= 0 /\ k * (c + 1) = k * c + k
      OBVIOUS
    <3> QED
      BY <2>1, <3>1
  <2> QED
    BY <1>1, <1>2, <2>1
<1> QED
  BY <1>1, <1>2, <1>3, <1>4 DEF a, b

\* Numbers up to a bound have a least and a greatest one.
LEMMA LeastAndGreatest ==
    ASSUME NEW n \in Nat, NEW T \in SUBSET (0..n), T # {}
    PROVE  /\ \E t \in T : \A u \in T : t <= u
           /\ \E t \in T : \A u \in T : u <= t
<1> DEFINE U == {n - t : t \in T}
<1>1. \A t \in T : t \in 0..n
  OBVIOUS
<1>2. T \subseteq Nat
  BY <1>1
<1>3. U \subseteq Nat /\ U # {}
  <2>1. \A t \in T : n - t \in Nat
    BY <1>1
  <2> QED
    BY <2>1
<1>4. \A V \in SUBSET Nat : V # {} => \E v \in V : \A w \in V : ~(<<w, v>> \in OpToRel(<, Nat))
  BY WFMin, NatLessThanWellFounded
<1>5. \A V \in SUBSET Nat : V # {} => \E v \in V : \A w \in V : ~(w < v)
  BY <1>4 DEF OpToRel
<1>6. \E t \in T : \A u \in T : t <= u
  BY <1>2, <1>5
<1>7. PICK v \in U : \A w \in U : ~(w < v)
  BY <1>3, <1>5
<1>8. PICK t \in T : v = n - t
  OBVIOUS
<1>9. ASSUME NEW u \in T PROVE u <= t
  <2>1. n - u \in U
    OBVIOUS
  <2>2. ~(n - u < n - t)
    BY <1>7, <1>8, <2>1
  <2>3. u \in Nat /\ t \in Nat
    BY <1>2
  <2> QED
    BY <2>2, <2>3
<1> QED
  BY <1>6, <1>9

\* The images of a finite set are not more than its elements.
LEMMA ImagesBounded ==
    ASSUME NEW S, IsFiniteSet(S), NEW f, DOMAIN f = S, f = [x \in S |-> f[x]]
    PROVE  IsFiniteSet({f[x] : x \in S}) /\ Cardinality({f[x] : x \in S}) <= Cardinality(S)
<1>1. f \in Surjection(S, {f[x] : x \in S})
  BY DEF Surjection
<1> QED
  BY <1>1, FS_Surjection

\* Where a window of samples begins and ends.
LEMMA Ends ==
    ASSUME HistoryAssumption, NEW S, S # {}, \A r \in S : r.ts \in Times
    PROVE  /\ Earliest(S) \in Nat /\ Latest(S) \in Nat /\ Span(S) \in Nat \ {0}
           /\ \A r \in S : r.ts \in Nat /\ Earliest(S) <= r.ts /\ r.ts <= Latest(S)
<1> DEFINE T == {r.ts : r \in S}
<1>1. MaxTime \in Nat /\ T \in SUBSET (0..MaxTime) /\ T # {}
  BY DEF HistoryAssumption, Times
<1>2. (\E t \in T : \A u \in T : t <= u) /\ (\E t \in T : \A u \in T : u <= t)
  BY <1>1, LeastAndGreatest
<1>3. Earliest(S) \in T /\ \A r \in S : Earliest(S) <= r.ts
  BY <1>2 DEF Earliest
<1>4. Latest(S) \in T /\ \A r \in S : r.ts <= Latest(S)
  BY <1>2 DEF Latest
<1>5. \A t \in T : t \in Nat
  BY <1>1
<1>6. Earliest(S) <= Latest(S)
  BY <1>3, <1>4
<1>7. Earliest(S) \in Nat /\ Latest(S) \in Nat /\ \A r \in S : r.ts \in Nat
  BY <1>3, <1>4, <1>5
<1>8. Span(S) \in Nat \ {0}
  BY <1>6, <1>7 DEF Span
<1> QED
  BY <1>3, <1>4, <1>7, <1>8

\* There are as many buckets as points, and a later sample is in no earlier one.
LEMMA BucketsInOrder ==
    ASSUME HistoryAssumption, NEW S, \A r \in S : r.ts \in Times, NEW k \in Nat \ {0},
           NEW r \in S, NEW q \in S
    PROVE  /\ Bucket(r, S, k) \in 0..(k - 1)
           /\ r.ts <= q.ts => Bucket(r, S, k) <= Bucket(q, S, k)
<1> DEFINE x == (r.ts - Earliest(S)) * k
           y == (q.ts - Earliest(S)) * k
<1>1. /\ Earliest(S) \in Nat /\ Span(S) \in Nat \ {0} /\ r.ts \in Nat /\ q.ts \in Nat
      /\ Earliest(S) <= r.ts /\ Earliest(S) <= q.ts
  BY Ends
<1>2. r.ts - Earliest(S) \in Nat /\ q.ts - Earliest(S) \in Nat
  BY <1>1
<1>3. x \in Nat /\ y \in Nat
  BY <1>2
<1>4. r.ts <= q.ts => x <= y
  <2> SUFFICES ASSUME NEW a \in Nat, NEW b \in Nat, a <= b PROVE a * k <= b * k
    BY <1>1, <1>2
  <2> QED
    OBVIOUS
<1> HIDE DEF x, y
<1>5. x \div Span(S) \in Nat /\ y \div Span(S) \in Nat
  BY <1>1, <1>3, DivGrows
<1>6. r.ts <= q.ts => x \div Span(S) <= y \div Span(S)
  BY <1>1, <1>3, <1>4, DivGrows
<1>7. /\ Bucket(r, S, k) = IF x \div Span(S) >= k THEN k - 1 ELSE x \div Span(S)
      /\ Bucket(q, S, k) = IF y \div Span(S) >= k THEN k - 1 ELSE y \div Span(S)
  BY DEF Bucket, x, y
<1> DEFINE i == x \div Span(S)
           j == y \div Span(S)
<1> HIDE DEF i, j
<1>8. /\ i \in Nat /\ j \in Nat /\ (r.ts <= q.ts => i <= j)
      /\ Bucket(r, S, k) = (IF i >= k THEN k - 1 ELSE i)
      /\ Bucket(q, S, k) = (IF j >= k THEN k - 1 ELSE j)
  BY <1>5, <1>6, <1>7 DEF i, j
<1> QED
  BY <1>8

\* The points of a chart, for any finite set of samples.
LEMMA PointsFaithful ==
    ASSUME HistoryAssumption, NEW S, IsFiniteSet(S), \A r \in S : r.ts \in Times,
           NEW k \in Nat \ {0}, NEW D, D = Downsample(S, k)
    PROVE  /\ Cardinality(D) <= k
           /\ UNION D = S
           /\ \A B, C \in D : B # C => \/ \A b \in B, c \in C : b.ts <= c.ts
                                      \/ \A b \in B, c \in C : c.ts <= b.ts
<1>0. \A r \in S : r.ts \in Nat
  BY TimesAndGaps
<1>1. CASE Cardinality(S) <= k
  <2>1. D = {{r} : r \in S}
    BY <1>1 DEF Downsample
  <2>2. Cardinality(D) <= k
    <3> DEFINE f == [r \in S |-> {r}]
    <3>1. D = {f[r] : r \in S} /\ DOMAIN f = S /\ f = [r \in S |-> f[r]]
      BY <2>1
    <3> HIDE DEF f
    <3>2. IsFiniteSet(D) /\ Cardinality(D) <= Cardinality(S)
      BY <3>1, ImagesBounded
    <3>3. Cardinality(D) \in Nat /\ Cardinality(S) \in Nat
      BY <3>2, FS_CardinalityType
    <3> QED
      BY <1>1, <3>2, <3>3
  <2>3. \A B, C \in D : \/ \A b \in B, c \in C : b.ts <= c.ts
                       \/ \A b \in B, c \in C : c.ts <= b.ts
    BY <1>0, <2>1
  <2> QED
    BY <2>1, <2>2, <2>3
<1>2. CASE ~(Cardinality(S) <= k)
  <2> DEFINE I == {Bucket(r, S, k) : r \in S}
             G(i) == {r \in S : Bucket(r, S, k) = i}
  <2>1. D = {G(i) : i \in I}
    BY <1>2 DEF Downsample
  <2>2. I \subseteq 0..(k - 1)
    BY BucketsInOrder
  <2>3. Cardinality(D) <= k
    <3> DEFINE f == [i \in I |-> G(i)]
    <3>1. D = {f[i] : i \in I} /\ DOMAIN f = I /\ f = [i \in I |-> f[i]]
      BY <2>1
    <3> HIDE DEF f, I, G
    <3>2. IsFiniteSet(0..(k - 1)) /\ Cardinality(0..(k - 1)) = k
      <4>1. 0 \in Int /\ k - 1 \in Int
        OBVIOUS
      <4> DEFINE m == k - 1
      <4>2. m \in Int
        BY <4>1
      <4> HIDE DEF m
      <4>3. /\ IsFiniteSet(0..m)
            /\ Cardinality(0..m) = IF 0 > m THEN 0 ELSE m - 0 + 1
        BY <4>1, <4>2, FS_Interval
      <4>4. ~(0 > m) /\ m - 0 + 1 = k
        BY <4>2 DEF m
      <4> QED
        BY <4>3, <4>4 DEF m
    <3>3. IsFiniteSet(I) /\ Cardinality(I) <= Cardinality(0..(k - 1))
      BY <2>2, <3>2, FS_Subset
    <3>4. IsFiniteSet(D) /\ Cardinality(D) <= Cardinality(I)
      BY <3>1, <3>3, ImagesBounded
    <3>5. Cardinality(D) \in Nat /\ Cardinality(I) \in Nat
      BY <3>3, <3>4, FS_CardinalityType
    <3> QED
      BY <3>2, <3>3, <3>4, <3>5
  <2>4. UNION D = S
    BY <2>1
  <2>5. ASSUME NEW i \in I, NEW j \in I, i < j
        PROVE  \A b \in G(i), c \in G(j) : b.ts <= c.ts
    <3> SUFFICES ASSUME NEW b \in S, NEW c \in S, Bucket(b, S, k) = i, Bucket(c, S, k) = j, ~(b.ts <= c.ts)
                 PROVE  FALSE
      OBVIOUS
    <3>1. c.ts <= b.ts
      BY <1>0
    <3>2. j <= i
      BY <3>1, BucketsInOrder
    <3> QED
      BY <2>2, <2>5, <3>2
  <2>6. ASSUME NEW B \in D, NEW C \in D, B # C
        PROVE  \/ \A b \in B, c \in C : b.ts <= c.ts
               \/ \A b \in B, c \in C : c.ts <= b.ts
    <3>1. PICK i \in I, j \in I : B = G(i) /\ C = G(j)
      BY <2>1
    <3>2. i < j \/ j < i
      <4>1. i # j
        BY <2>6, <3>1
      <4>2. i \in 0..(k - 1) /\ j \in 0..(k - 1)
        BY <2>2
      <4> HIDE DEF I, G
      <4> QED
        BY <4>1, <4>2
    <3> QED
      BY <2>5, <3>1, <3>2
  <2> QED
    BY <2>3, <2>4, <2>6
<1>3. IsFiniteSet(S) => Cardinality(S) \in Nat
  BY FS_CardinalityType
<1> QED
  BY <1>1, <1>2

\* A database written row by row is finite.
LEMMA RowsFinite == HistoryAssumption => (Spec => [](HistoryTypeOK /\ IsFiniteSet(rows)))
<1> SUFFICES ASSUME HistoryAssumption PROVE Spec => [](HistoryTypeOK /\ IsFiniteSet(rows))
  OBVIOUS
<1>1. Init => IsFiniteSet(rows)
  BY FS_EmptySet DEF Init
<1>2. HistoryTypeOK /\ IsFiniteSet(rows) /\ [Next]_vars => IsFiniteSet(rows)'
  <2> SUFFICES ASSUME HistoryTypeOK, IsFiniteSet(rows), [Next]_vars PROVE IsFiniteSet(rows')
    OBVIOUS
  <2>1. ASSUME NEW w \in Writers, NEW fault \in BOOLEAN, Store(w, fault)
        PROVE  \E row : rows' \subseteq rows \cup {row}
    BY <2>1 DEF Store, MaybePrune
  <2>2. rows' = rows \/ \E row : rows' \subseteq rows \cup {row}
    BY <2>1 DEF Next, Record, Tick, SetBack, SetRetention, SetInterval, Restart, Arrive, Throttle,
       InsertFails, vars
  <2> QED
    BY <2>2, FS_AddElement, FS_Subset
<1> QED
  BY <1>1, <1>2, HistoryTyping, PTL DEF Spec

\* A chart of a window of any database is faithful: it has no more points than
\* were asked for, counts each sample once, and keeps their order
\* (history.py:151-171).
THEOREM Charts == HistoryAssumption => (Spec => []ChartIsFaithful)
<1> SUFFICES ASSUME HistoryAssumption PROVE Spec => []ChartIsFaithful
  OBVIOUS
<1>1. ASSUME HistoryTypeOK, IsFiniteSet(rows) PROVE ChartIsFaithful
  <2> SUFFICES ASSUME NEW s \in Series, NEW since \in Retentions, NEW maxPoints \in 1..3
               PROVE  LET S == Window(s, since, clock)
                          D == Downsample(S, maxPoints)
                      IN /\ Cardinality(D) <= maxPoints
                         /\ UNION D = S
                         /\ \A B, C \in D : B # C =>
                              \/ \A b \in B, c \in C : b.ts <= c.ts
                              \/ \A b \in B, c \in C : c.ts <= b.ts
    BY DEF ChartIsFaithful
  <2>1. Window(s, since, clock) \subseteq rows
    BY DEF Window
  <2>2. IsFiniteSet(Window(s, since, clock)) /\ \A r \in Window(s, since, clock) : r.ts \in Times
    BY <1>1, <2>1, FS_Subset DEF HistoryTypeOK, Rows
  <2>3. maxPoints \in Nat \ {0}
    OBVIOUS
  <2> QED
    BY <2>2, <2>3, PointsFaithful
<1> QED
  BY <1>1, RowsFinite, PTL
=============================================================================
