---------------------------- MODULE MeterManager ----------------------------
(***************************************************************************)
(* MeterManager of manager.py: which reader threads exist, and who may use *)
(* the port of a meter.                                                    *)
(*                                                                         *)
(* Three kinds of actor share a meter's port: the reader threads (module   *)
(* MeterReader), a caller of start, apply_config or stop, which holds the  *)
(* manager's lock throughout, and the PIN jobs, each inside the context    *)
(* manager exclusive_transport, which holds the lock only to enter and to  *)
(* leave.                                                                  *)
(*                                                                         *)
(* MeterWorker.stop sets the stop event and joins the thread for at most   *)
(* five seconds.  SlowCalls are the places where a thread may stay longer  *)
(* than that: with SlowCalls = {} every join sees the thread end, with     *)
(* "open" in it a network port (socket://, rfc2217://) that does not       *)
(* answer makes the join give up while the thread lives on.                *)
(***************************************************************************)
EXTENDS MeterReader

CONSTANTS
    Jobs,             \* threads that enter exclusive_transport
    EnabledConfigs,   \* values of a MeterConfig whose enabled flag is set
    DisabledConfigs,  \* values of a MeterConfig whose enabled flag is not set
    None,             \* no meter, no worker, no transport
    SlowCalls,        \* phases in which a reader may outlast a join
    LateEdits         \* may apply_config be called after stop?

MeterConfigs == EnabledConfigs \cup DisabledConfigs

ASSUME ConstantsAssumption ==
    /\ EnabledConfigs \cap DisabledConfigs = {}
    /\ None \notin Slots \cup Meters \cup MeterConfigs
    /\ Workers \cap Jobs = {}
    /\ SlowCalls \subseteq Phases \ {"off"}
    /\ LateEdits \in BOOLEAN

VARIABLES
    config,     \* manager.config: the MeterConfig of each meter, None if absent
    workers,    \* manager._workers: the slot of each meter's registered worker
    madeFor,    \* worker.config of each meter's registered worker
    reserved,   \* manager._reserved
    stopped,    \* manager._stopped
    lock,       \* what holds manager._lock from one step to the next
    halting,    \* meters whose worker the holder of the lock has yet to stop
    job         \* where each PIN job is, and what it took

managerVars == <<config, workers, madeFor, reserved, stopped, lock, halting, job>>
vars == <<readerVars, managerVars>>

JobPhases == {"idle", "halt", "join", "open", "using", "close", "release"}

\* A caller of exclusive_transport: its meter, the worker it popped (None if it
\* made a transport of its own) and the local was_running.
JobRecord == [pc : JobPhases, meter : Meters \cup {None},
              slot : Slots \cup {None}, wasRunning : BOOLEAN]

IdleJob == [pc |-> "idle", meter |-> None, slot |-> None, wasRunning |-> FALSE]

ManagerTypeOK ==
    /\ config \in [Meters -> MeterConfigs \cup {None}]
    /\ workers \in [Meters -> Slots \cup {None}]
    /\ madeFor \in [Meters -> EnabledConfigs \cup {None}]
    /\ reserved \in SUBSET Meters
    /\ stopped \in BOOLEAN
    /\ lock \in {"free", "start", "apply", "stop"}
    /\ halting \in SUBSET Meters
    /\ job \in [Jobs -> JobRecord]

\* Every variable has its type; a worker is made only for an enabled meter.
TypeOK == ReaderTypeOK /\ ManagerTypeOK

-----------------------------------------------------------------------------
\* Mistake: the enabled flag is not looked at.
WantedIfKnown(m) == config[m] # None

Wanted(m) == config[m] \in EnabledConfigs

Registered(m) == workers[m] # None

\* The worker object whose transport job j took over, if it took one.
Held(j) == <<job[j].meter, job[j].slot>>
Holds(j, r) == job[j].slot # None /\ Held(j) = r

\* No thread runs in the object of this slot and nothing refers to it.
Fresh(m, s) ==
    /\ ~Live(<<m, s>>)
    /\ workers[m] # s
    /\ \A j \in Jobs : ~Holds(j, <<m, s>>)

\* The bound on worker objects: one more of meter m can be made.
Room(m) == \E s \in Slots : Fresh(m, s)

\* Mistake: a join without a timeout.
JoinReturnsAtEnd(r) == ~Live(r)

\* thread.join(5.0) returns: the thread is over, or the five seconds are.
JoinReturns(r) == ~Live(r) \/ rpc[r] \in SlowCalls

-----------------------------------------------------------------------------
\* MeterManager.start has just taken the lock.
Init ==
    /\ ReaderInit
    /\ config \in [Meters -> MeterConfigs \cup {None}]
    /\ workers = [m \in Meters |-> None]
    /\ madeFor = [m \in Meters |-> None]
    /\ reserved = {}
    /\ stopped = FALSE
    /\ lock = "start"
    /\ halting = {}
    /\ job = [j \in Jobs |-> IdleJob]

-----------------------------------------------------------------------------
(* The holder of the lock: start, apply_config and stop.                   *)

\* _start_worker: register a new worker object and start its thread.
StartWorker(m, s) ==
    /\ Fresh(m, s)
    /\ Launch(<<m, s>>)
    /\ workers' = [workers EXCEPT ![m] = s]
    /\ madeFor' = [madeFor EXCEPT ![m] = config[m]]

\* Mistake: a meter whose config merely changed keeps its worker.
OutdatedIfGone(new) == {m \in Meters \ reserved : Registered(m) /\ new[m] \notin EnabledConfigs}

\* Registered workers that new does not want as they are.
Outdated(new) ==
    {m \in Meters \ reserved : Registered(m) /\ (new[m] \notin EnabledConfigs \/ new[m] # madeFor[m])}

\* apply_config takes the lock and puts the new config in place.  An edit
\* is made only while every meter has Room for the worker it may start.
ApplyBegin ==
    /\ lock = "free"
    /\ LateEdits \/ ~stopped
    /\ \A m \in Meters : Room(m)
    /\ lock' = "apply"
    /\ \E new \in [Meters -> MeterConfigs \cup {None}] :
        /\ config' = new
        /\ halting' = Outdated(new)
    /\ UNCHANGED <<readerVars, workers, madeFor, reserved, stopped, job>>

\* worker.stop on the next worker of the loop, up to its join; the worker
\* before it has been joined.
HaltWorker(m) ==
    /\ m \in halting
    /\ \A n \in halting : ~stopEvent[<<n, workers[n]>>]
    /\ SetStop(<<m, workers[m]>>)
    /\ UNCHANGED managerVars

\* The join returns; apply_config then deletes the entry, stop keeps it.
Joined(m) ==
    /\ m \in halting
    /\ stopEvent[<<m, workers[m]>>]
    /\ JoinReturns(<<m, workers[m]>>)
    /\ halting' = halting \ {m}
    /\ IF lock = "apply"
         THEN /\ workers' = [workers EXCEPT ![m] = None]
              /\ madeFor' = [madeFor EXCEPT ![m] = None]
         ELSE UNCHANGED <<workers, madeFor>>
    /\ UNCHANGED <<readerVars, config, reserved, stopped, lock, job>>

\* Mistake: reserved meters are started too.
ToStartReservedToo == {m \in Meters : Wanted(m) /\ ~Registered(m)}

\* Mistake: meters whose worker runs are started again.
ToStartRunningToo == {m \in Meters \ reserved : Wanted(m)}

\* Meters the second loop of apply_config, or the loop of start, must start.
ToStart == {m \in Meters \ reserved : Wanted(m) /\ ~Registered(m)}

StartNext(m, s) ==
    /\ lock \in {"start", "apply"}
    /\ halting = {}
    /\ m \in ToStart
    /\ StartWorker(m, s)
    /\ UNCHANGED <<config, reserved, stopped, lock, halting, job>>

EndUpdate ==
    /\ lock \in {"start", "apply"}
    /\ halting = {}
    /\ ToStart = {}
    /\ lock' = "free"
    /\ UNCHANGED <<readerVars, config, workers, madeFor, reserved, stopped, halting, job>>

\* stop may be called again: by the signal handler, then by cmd_run's finally.
StopBegin ==
    /\ lock = "free"
    /\ lock' = "stop"
    /\ stopped' = TRUE
    /\ halting' = {m \in Meters : Registered(m)}
    /\ UNCHANGED <<readerVars, config, workers, madeFor, reserved, job>>

StopEnd ==
    /\ lock = "stop"
    /\ halting = {}
    /\ lock' = "free"
    /\ workers' = [m \in Meters |-> None]
    /\ madeFor' = [m \in Meters |-> None]
    /\ UNCHANGED <<readerVars, config, reserved, stopped, halting, job>>

-----------------------------------------------------------------------------
(* A PIN job inside exclusive_transport.                                   *)

SetJob(j, pc) == job' = [job EXCEPT ![j].pc = pc]

\* Under the lock: the meter is known; reserve it and take its worker out of
\* the register, keeping hold of slot.  Room(m) is for the restart at the end.
ReserveKeeping(j, m, slot) ==
    /\ job[j].pc = "idle"
    /\ lock = "free"
    /\ config[m] # None
    /\ Room(m)
    /\ reserved' = reserved \cup {m}
    /\ workers' = [workers EXCEPT ![m] = None]
    /\ madeFor' = [madeFor EXCEPT ![m] = None]
    /\ job' = [job EXCEPT ![j] =
                  [pc |-> "halt", meter |-> m, slot |-> slot, wasRunning |-> FALSE]]
    /\ UNCHANGED <<readerVars, config, stopped, lock, halting>>

\* Mistake: a meter that is busy with another PIN operation is lent again.
ReserveBusy(j, m) == ReserveKeeping(j, m, workers[m])

\* A meter that another PIN operation has reserved is refused.
Reserve(j, m) == m \notin reserved /\ ReserveKeeping(j, m, workers[m])

\* Outside the lock: was_running is read, then the worker is told to stop.
JobHalt(j) ==
    /\ job[j].pc = "halt"
    /\ job[j].slot # None
    /\ job' = [job EXCEPT ![j].pc = "join", ![j].wasRunning = Live(Held(j))]
    /\ SetStop(Held(j))
    /\ UNCHANGED <<config, workers, madeFor, reserved, stopped, lock, halting>>

\* No worker was registered: the job makes a transport of its own.
JobMakesTransport(j) ==
    /\ job[j].pc = "halt"
    /\ job[j].slot = None
    /\ SetJob(j, "open")
    /\ UNCHANGED <<readerVars, config, workers, madeFor, reserved, stopped, lock, halting>>

\* Mistake: the job goes on without waiting for the reader to leave.
JobDoesNotJoin(j) ==
    /\ job[j].pc = "join"
    /\ SetJob(j, "open")
    /\ UNCHANGED <<readerVars, config, workers, madeFor, reserved, stopped, lock, halting>>

\* Mistake: was_running is read after the worker has been stopped.
JobReadsRunningLate(j) ==
    /\ job[j].pc = "join"
    /\ JoinReturns(Held(j))
    /\ job' = [job EXCEPT ![j].pc = "open", ![j].wasRunning = Live(Held(j))]
    /\ UNCHANGED <<readerVars, config, workers, madeFor, reserved, stopped, lock, halting>>

JobJoined(j) ==
    /\ job[j].pc = "join"
    /\ JoinReturns(Held(j))
    /\ SetJob(j, "open")
    /\ UNCHANGED <<readerVars, config, workers, madeFor, reserved, stopped, lock, halting>>

\* transport.open() unless is_open; if it raises, the finally clause runs.
OpenPort(j) ==
    /\ job[j].pc = "open"
    /\ \/ /\ SetJob(j, "using")
          /\ isOpen' = [r \in Workers |-> isOpen[r] \/ Holds(j, r)]
       \/ /\ ~(job[j].slot # None /\ isOpen[Held(j)])
          /\ SetJob(j, "close")
          /\ UNCHANGED isOpen
    /\ UNCHANGED <<rpc, stopEvent, rstate, config, workers, madeFor, reserved, stopped, lock, halting>>

\* The body of the with statement ends, normally or by an exception.
FinishUse(j) ==
    /\ job[j].pc = "using"
    /\ SetJob(j, "close")
    /\ UNCHANGED <<readerVars, config, workers, madeFor, reserved, stopped, lock, halting>>

ClosePort(j) ==
    /\ job[j].pc = "close"
    /\ isOpen' = [r \in Workers |-> isOpen[r] /\ ~Holds(j, r)]
    /\ job' = [job EXCEPT ![j].pc = "release", ![j].slot = None]
    /\ UNCHANGED <<rpc, stopEvent, rstate, config, workers, madeFor, reserved, stopped, lock, halting>>

\* Under the lock again: restart says whether a new worker is started, left is
\* what remains reserved.
ReleaseLeaving(j, restart, left) ==
    /\ job[j].pc = "release"
    /\ lock = "free"
    /\ reserved' = left
    /\ IF restart
         THEN \E s \in Slots : StartWorker(job[j].meter, s)
         ELSE UNCHANGED <<readerVars, workers, madeFor>>
    /\ job' = [job EXCEPT ![j] = IdleJob]
    /\ UNCHANGED <<config, stopped, lock, halting>>

\* Mistake: the reader is restarted although the manager has been stopped.
ReleaseAfterStop(j) ==
    ReleaseLeaving(j, job[j].wasRunning /\ Wanted(job[j].meter), reserved \ {job[j].meter})

\* Mistake: the current config is not consulted before the restart.
ReleaseUnwanted(j) ==
    ReleaseLeaving(j, ~stopped /\ job[j].wasRunning, reserved \ {job[j].meter})

\* Mistake: the reservation is never given back.
ReleaseKeepsReservation(j) ==
    ReleaseLeaving(j, ~stopped /\ job[j].wasRunning /\ Wanted(job[j].meter), reserved)

\* The reservation ends, and the reader is started anew if it ran before, the
\* current config still wants it and the manager has not been stopped.
Release(j) ==
    ReleaseLeaving(j, ~stopped /\ job[j].wasRunning /\ Wanted(job[j].meter), reserved \ {job[j].meter})

-----------------------------------------------------------------------------
LockHolderStep ==
    \/ \E m \in Meters : HaltWorker(m) \/ Joined(m)
    \/ \E m \in Meters, s \in Slots : StartNext(m, s)
    \/ EndUpdate \/ StopEnd

JobStep(j) ==
    \/ JobHalt(j) \/ JobMakesTransport(j) \/ JobJoined(j)
    \/ OpenPort(j) \/ FinishUse(j) \/ ClosePort(j) \/ Release(j)

ReaderThread(r) == ReaderStep(r) /\ UNCHANGED managerVars

Next ==
    \/ ApplyBegin \/ StopBegin \/ LockHolderStep
    \/ \E j \in Jobs, m \in Meters : Reserve(j, m)
    \/ \E j \in Jobs : JobStep(j)
    \/ \E r \in Workers : ReaderThread(r)

Spec == Init /\ [][Next]_vars

-----------------------------------------------------------------------------
(* Safety.                                                                 *)

UsesPort(j) == job[j].pc \in {"open", "using", "close"}

\* Who may touch the port of meter m now: reader threads and PIN jobs.
PortUsers(m) ==
    {r \in Workers : r[1] = m /\ Live(r)} \cup {j \in Jobs : job[j].meter = m /\ UsesPort(j)}

\* No two threads use the port of a meter at the same time: neither two
\* readers (manager.py:97-99) nor a reader and a PIN job (manager.py:304-309)
\* nor two PIN jobs.  Holds when every join sees its thread end.
ExclusiveUse == \A m \in Meters : \A u, v \in PortUsers(m) : u = v

\* While a PIN job writes to and reads from a port, no reader is about to read
\* from it (manager.py:304-305).  Not so when a reader outlasts the join.
PinJobHasPortAlone ==
    \A j \in Jobs, s \in Slots : job[j].pc = "using" => rpc[<<job[j].meter, s>>] # "read"

\* The transport lent to a PIN job is not closed under it by the reader it was
\* taken from (manager.py:301-309).  Holds when every join sees its thread end.
LentPortStaysOpen ==
    \A j \in Jobs : job[j].pc = "using" /\ job[j].slot # None => isOpen[Held(j)]

\* A reader nobody can stop any more does not exist: a thread that runs on
\* without having been told to stop is registered, or in the hands of a PIN
\* job that is about to stop it.
NoOrphanReader ==
    \A r \in Workers :
        Live(r) /\ ~stopEvent[r] =>
            \/ workers[r[1]] = r[2]
            \/ \E j \in Jobs : job[j].pc = "halt" /\ Holds(j, r)

\* A meter is reserved exactly while one PIN job is inside
\* exclusive_transport for it, so no reservation leaks and none is shared.
ReservedByOneJob ==
    /\ \A m \in reserved : \E j \in Jobs : job[j].meter = m
    /\ \A j \in Jobs : job[j].pc # "idle" => job[j].meter \in reserved
    /\ \A i, j \in Jobs : job[i].meter # None /\ job[i].meter = job[j].meter => i = j

\* Once an edit is applied, or a PIN operation over, no reader goes on with a
\* config that has been replaced since, edits made while the meter was
\* reserved included (manager.py:251-252, 308-309).
RunsCurrentConfig ==
    lock = "free" => \A m \in Meters : Registered(m) => m \notin reserved /\ madeFor[m] = config[m]

\* An enabled meter that no PIN job holds has its reader (manager.py:1).
EnabledMeterServed ==
    lock = "free" /\ ~stopped => \A m \in Meters \ reserved : Wanted(m) => Registered(m)

\* The state shown of reader r says of its port what the port is.
ShowsPort(r) == isOpen[r] <=> rstate[r] \in {"connected", "reading"}

\* The page shows the port of a registered meter as it is, or as it was before
\* the last thing its reader did: a reader that has closed or lost the port, or
\* has just opened it, shows so before it does anything else (reader.py:85-118).
\* In between a page may be drawn that shows an open port as error or
\* connecting, or a closed one as connected or reading.
ShownStateCatchesUp ==
    [][\A m \in Meters, s \in Slots :
          workers[m] = s /\ ~ShowsPort(<<m, s>>) /\ rpc'[<<m, s>>] # rpc[<<m, s>>] =>
              ShowsPort(<<m, s>>)']_vars

\* After stop only a reader that a PIN job is just stopping is still alive, and
\* none is started again when that job ends (manager.py:334).  Holds when every
\* join sees its thread end and no edit is applied after stop.
StopLeavesNoReader ==
    stopped /\ lock = "free" =>
        \A r \in Workers :
            Live(r) => \E j \in Jobs : job[j].pc \in {"halt", "join"} /\ Holds(j, r)

-----------------------------------------------------------------------------
(* The abstract specification MeterManager implements.                     *)

BusyReader(m) == \E s \in Slots : Live(<<m, s>>)
BusyJob(m) == \E j \in Jobs : job[j].meter = m /\ UsesPort(j)

\* A port both a reader and a PIN job use counts as the reader's, so that a
\* job which does not wait for the reader to leave is no step of the lease.
portHolder ==
    [m \in Meters |-> IF BusyReader(m) THEN "reader" ELSE IF BusyJob(m) THEN "pin" ELSE "nobody"]

Lease == INSTANCE PortLease WITH
    holder <- portHolder, wanted <- {m \in Meters : Wanted(m)}, down <- stopped

\* The manager keeps the promises of PortLease (manager.py:301-335): every step
\* of every thread is a step of the lease or leaves the ports as they were.
\* Holds when joins see threads end and no edit is applied after stop.
ImplementsLease == Lease!LeaseSpec
=============================================================================
