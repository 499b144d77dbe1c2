---------------------------- MODULE HistoryStore ----------------------------
(***************************************************************************)
(* The time series of history.py: which readings become rows of the        *)
(* database, which rows are deleted, and how a query thins them out.       *)
(*                                                                         *)
(* Reader threads take the time of a reading before they come to the       *)
(* store's lock, so a reading may be recorded after one that is younger.   *)
(* Settings change from the web thread without the lock, the gateway is    *)
(* restarted on the same database, the database refuses a statement, and   *)
(* the wall clock is set back.                                             *)
(***************************************************************************)
EXTENDS Integers, FiniteSets

CONSTANTS
    Writers,        \* reader threads
    Series,         \* (meter, obis) pairs
    Intervals,      \* values of sample_interval
    Retentions,     \* values of retention_hours, as a time
    PruneInterval,  \* _PRUNE_INTERVAL
    MaxTime,        \* the clock's last value (bound)
    MaxWait,        \* how long a thread waits for the lock (bound)
    MaxEvents,      \* restarts, faults, clocks set back, new settings (bound)
    None            \* no time, no reading

ASSUME HistoryAssumption ==
    /\ Intervals \subseteq Nat \ {0}
    /\ \A r \in Retentions, i \in Intervals : r \in Nat /\ r >= i + MaxWait
    /\ PruneInterval \in 1..MaxTime
    /\ {MaxTime, MaxWait, MaxEvents} \subseteq Nat
    /\ None \notin Nat

VARIABLES
    clock,       \* time.time()
    rows,        \* table samples; gap and era are history: the sample_interval
                 \* in force and the life of the gateway that wrote the row
    lastStored,  \* _last_stored
    lastPrune,   \* _last_prune
    interval,    \* sample_interval
    retention,   \* retention_hours
    pending,     \* the reading each thread is about to record
    era,         \* restarts so far
    faults,      \* statements refused so far
    setBacks,    \* times the clock was set back so far
    changes,     \* settings changed so far
    failed,      \* history: readings whose row was refused
    settled,     \* history: pruned under the present retention_hours?
    due          \* history: the latest time at which it is to be, if it is not

settings == <<interval, retention>>
counters == <<era, faults, setBacks, changes>>
pruning == <<settled, due>>
vars == <<clock, rows, lastStored, lastPrune, settings, pending, counters, failed, pruning>>

Times == 0..MaxTime
Readings == [series : Series, ts : Times]
Rows == [series : Series, ts : Times, gap : Intervals, era : Nat]

\* Every variable has its type.
HistoryTypeOK ==
    /\ clock \in Times
    /\ rows \subseteq Rows
    /\ lastStored \in [Series -> Times \cup {None}]
    /\ lastPrune \in Times
    /\ interval \in Intervals
    /\ retention \in Retentions
    /\ pending \in [Writers -> Readings \cup {None}]
    /\ era \in 0..MaxEvents /\ faults \in 0..MaxEvents
    /\ setBacks \in 0..MaxEvents /\ changes \in 0..MaxEvents
    /\ failed \subseteq Readings
    /\ settled \in BOOLEAN
    /\ due \in Nat

\* An empty database, and a clock that is past the first prune.
Init ==
    /\ clock = PruneInterval
    /\ rows = {}
    /\ lastStored = [s \in Series |-> None]
    /\ lastPrune = 0
    /\ interval \in Intervals
    /\ retention \in Retentions
    /\ pending = [w \in Writers |-> None]
    /\ era = 0
    /\ faults = 0
    /\ setBacks = 0
    /\ changes = 0
    /\ failed = {}
    /\ settled = FALSE
    /\ due = PruneInterval

-----------------------------------------------------------------------------
\* The bound on events lets another one happen.
EventLeft == era + faults + setBacks + changes < MaxEvents

Waiting == {w \in Writers : pending[w] # None}

\* Time passes, but no thread waits for the lock longer than MaxWait.
Tick ==
    /\ clock < MaxTime
    /\ \A w \in Waiting : clock < pending[w].ts + MaxWait
    /\ clock' = clock + 1
    /\ UNCHANGED <<rows, lastStored, lastPrune, settings, pending, counters, failed, pruning>>

SetBack ==
    /\ EventLeft
    /\ \E t \in 0..(clock - 1) : clock' = t
    /\ setBacks' = setBacks + 1
    /\ UNCHANGED <<rows, lastStored, lastPrune, settings, pending, era, faults, changes, failed, pruning>>

\* A reader has a reading, and the time it came.
Arrive(w) ==
    /\ w \notin Waiting
    /\ \E s \in Series : pending' = [pending EXCEPT ![w] = [series |-> s, ts |-> clock]]
    /\ UNCHANGED <<clock, rows, lastStored, lastPrune, settings, counters, failed, pruning>>

\* Mistake: the readings of all registers of a meter are spaced together.
TooSoonAny(p) == \E s \in Series : lastStored[s] # None /\ p.ts - lastStored[s] < interval

\* Mistake: the time since the last row is compared the wrong way at the edge.
TooSoonOffByOne(p) == lastStored[p.series] # None /\ p.ts - lastStored[p.series] < interval - 1

TooSoon(p) == lastStored[p.series] # None /\ p.ts - lastStored[p.series] < interval

\* The reading of w has been dealt with.
Done(w) == pending' = [pending EXCEPT ![w] = None]

\* record returns False.
Throttle(w) ==
    /\ w \in Waiting /\ TooSoon(pending[w])
    /\ Done(w)
    /\ UNCHANGED <<clock, rows, lastStored, lastPrune, settings, counters, failed, pruning>>

\* The INSERT is refused; _last_stored has been set by then.
InsertFails(w) ==
    /\ w \in Waiting /\ ~TooSoon(pending[w])
    /\ EventLeft
    /\ faults' = faults + 1
    /\ lastStored' = [lastStored EXCEPT ![pending[w].series] = pending[w].ts]
    /\ failed' = failed \cup {pending[w]}
    /\ Done(w)
    /\ UNCHANGED <<clock, rows, lastPrune, settings, era, setBacks, changes, pruning>>

\* What _maybe_prune(now) leaves of table; a fault keeps the DELETE from working.
MaybePrune(table, now, fault) ==
    IF now - lastPrune < PruneInterval
      THEN ~fault /\ rows' = table /\ UNCHANGED <<lastPrune, pruning>>
      ELSE /\ lastPrune' = now
           /\ IF fault THEN rows' = table /\ settled' = FALSE /\ due' = clock + PruneInterval
                       ELSE rows' = {r \in table : r.ts >= now - retention} /\ settled' = TRUE /\ due' = due

\* record writes a row, and prunes when it is time to.
Store(w, fault) ==
    LET p == pending[w] IN
    /\ w \in Waiting /\ ~TooSoon(p)
    /\ (fault => EventLeft)
    /\ lastStored' = [lastStored EXCEPT ![p.series] = p.ts]
    /\ MaybePrune(rows \cup {[series |-> p.series, ts |-> p.ts, gap |-> interval, era |-> era]}, p.ts, fault)
    /\ faults' = faults + (IF fault THEN 1 ELSE 0)
    /\ Done(w)
    /\ UNCHANGED <<clock, settings, era, setBacks, changes, failed>>

\* update_settings: two assignments, neither under the lock.
SetRetention ==
    /\ EventLeft
    /\ changes' = changes + 1
    /\ \E r \in Retentions \ {retention} : retention' = r
    /\ settled' = FALSE
    /\ due' = clock + PruneInterval
    /\ UNCHANGED <<clock, rows, lastStored, lastPrune, interval, pending, era, faults, setBacks, failed>>

SetInterval ==
    /\ EventLeft
    /\ changes' = changes + 1
    /\ \E i \in Intervals \ {interval} : interval' = i
    /\ UNCHANGED <<clock, rows, lastStored, lastPrune, retention, pending, era, faults, setBacks, failed, pruning>>

\* Mistake: a new store has no time of its last prune.
RestartUnpruned ==
    /\ EventLeft
    /\ era' = era + 1
    /\ lastStored' = [s \in Series |-> None]
    /\ lastPrune' = None
    /\ pending' = [w \in Writers |-> None]
    /\ settled' = FALSE
    /\ due' = PruneInterval
    /\ UNCHANGED <<clock, rows, settings, faults, setBacks, changes, failed>>

\* Mistake: a new store takes the time it was opened for that of its last prune.
RestartPrunedNow ==
    /\ EventLeft
    /\ era' = era + 1
    /\ lastStored' = [s \in Series |-> None]
    /\ lastPrune' = clock
    /\ pending' = [w \in Writers |-> None]
    /\ settled' = FALSE
    /\ due' = PruneInterval
    /\ UNCHANGED <<clock, rows, settings, faults, setBacks, changes, failed>>

\* The gateway stops and a new one opens the same database.
Restart ==
    /\ EventLeft
    /\ era' = era + 1
    /\ lastStored' = [s \in Series |-> None]
    /\ lastPrune' = 0
    /\ pending' = [w \in Writers |-> None]
    /\ settled' = FALSE
    /\ due' = PruneInterval
    /\ UNCHANGED <<clock, rows, settings, faults, setBacks, changes, failed>>

Record(w) == Throttle(w) \/ InsertFails(w) \/ \E fault \in BOOLEAN : Store(w, fault)

Next ==
    \/ Tick \/ SetBack \/ SetRetention \/ SetInterval \/ Restart
    \/ \E w \in Writers : Arrive(w) \/ Record(w)

Spec == Init /\ [][Next]_vars

-----------------------------------------------------------------------------
(* query and _downsample, for a set of rows of one series.                 *)

Earliest(S) == CHOOSE t \in {r.ts : r \in S} : \A r \in S : t <= r.ts
Latest(S) == CHOOSE t \in {r.ts : r \in S} : \A r \in S : r.ts <= t

Span(S) == IF Latest(S) = Earliest(S) THEN 1 ELSE Latest(S) - Earliest(S)

\* Mistake: the last sample gets a bucket of its own.
BucketUnclamped(r, S, maxPoints) == ((r.ts - Earliest(S)) * maxPoints) \div Span(S)

\* The bucket of sample r, counted from 0.
Bucket(r, S, maxPoints) ==
    LET i == ((r.ts - Earliest(S)) * maxPoints) \div Span(S)
    IN IF i >= maxPoints THEN maxPoints - 1 ELSE i

\* The groups of samples _downsample averages.
Downsample(S, maxPoints) ==
    IF maxPoints <= 0 \/ Cardinality(S) <= maxPoints
      THEN {{r} : r \in S}
      ELSE {{r \in S : Bucket(r, S, maxPoints) = i} :
                i \in {Bucket(r, S, maxPoints) : r \in S}}

Window(s, since, until) == {r \in rows : r.series = s /\ until - since <= r.ts /\ r.ts <= until}

-----------------------------------------------------------------------------
\* Rows of a series are at least the sample_interval apart that was in force
\* when the later one was written, in one life of the gateway, whichever thread
\* is late and however the clock is set (history.py:6-8).
SpacedOut ==
    \A a, b \in rows :
        a # b /\ a.series = b.series /\ a.era = b.era /\ a.ts <= b.ts => b.ts - a.ts >= b.gap

\* The database is bounded: no row is older than the newest by more than the
\* present retention and the time between two prunes (history.py:9, 89-95).
\* That is so from the first row of a gateway on, whatever an earlier one has left,
\* and not later than the time between two prunes after a new retention or a
\* DELETE that was refused.  Holds while the clock is not set back.
AgeBounded ==
    setBacks = 0 /\ (settled \/ \E r \in rows : r.era = era /\ r.ts >= due) =>
        \A a, b \in rows : a.ts - b.ts < retention + PruneInterval

\* A reading is dropped only if one of the same series was stored, or failed to
\* be, less than sample_interval before it or while it waited for the lock
\* (history.py:66-79).  Holds while the clock is not set back.
ThrottledForAReason ==
    [][\A w \in Writers : Throttle(w) /\ setBacks = 0 =>
          \E r \in rows \cup failed :
              /\ r.series = pending[w].series
              /\ pending[w].ts - interval < r.ts /\ r.ts <= pending[w].ts + MaxWait]_vars

\* A chart has at most as many points as were asked for, every sample counts in
\* exactly one of them, and the points do not overlap in time (history.py:151-171).
ChartIsFaithful ==
    \A s \in Series, since \in Retentions, maxPoints \in 1..3 :
        LET S == Window(s, since, clock)
            D == Downsample(S, maxPoints)
        IN /\ Cardinality(D) <= maxPoints
           /\ UNION D = S
           /\ \A B, C \in D : B # C =>
                \/ \A b \in B, c \in C : b.ts <= c.ts
                \/ \A b \in B, c \in C : c.ts <= b.ts
=============================================================================
