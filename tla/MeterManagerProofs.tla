------------------------- MODULE MeterManagerProofs -------------------------
(***************************************************************************)
(* What holds of MeterManager for every set of meters, worker objects,     *)
(* jobs and configs.                                                       *)
(***************************************************************************)
EXTENDS MeterManager, TLAPS

-----------------------------------------------------------------------------
(* Types.                                                                  *)

\* A step of a reader thread keeps the types of the reader variables, starts
\* no thread, gives no stop order, and closes or opens no port but its own.
LEMMA ReaderStepEffect ==
    ASSUME ReaderTypeOK, NEW r \in Workers, ReaderStep(r)
    PROVE  /\ ReaderTypeOK'
           /\ Live(r)
           /\ stopEvent' = stopEvent
           /\ \A q \in Workers : Live(q)' => Live(q)
           /\ \A q \in Workers \ {r} : isOpen'[q] = isOpen[q]
<1> USE DEF ReaderTypeOK, Live, Phases, States, Go
<1>1. CASE LoopTest(r)
    BY <1>1 DEF LoopTest
<1>2. CASE OpenOk(r)
    BY <1>2 DEF OpenOk, PortOpened
<1>3. CASE OpenFails(r)
    BY <1>3 DEF OpenFails
<1>4. CASE ReadResults(r)
    BY <1>4 DEF ReadResults
<1>5. CASE Deliver(r)
    BY <1>5 DEF Deliver
<1>6. CASE ReadNothing(r)
    BY <1>6 DEF ReadNothing
<1>7. CASE ReadFails(r)
    BY <1>7 DEF ReadFails
<1>8. CASE Drop(r)
    BY <1>8 DEF Drop, PortClosed
<1>9. CASE Exit(r)
    BY <1>9 DEF Exit, PortClosed
<1>10. CASE ShowConnected(r) \/ ShowStopped(r)
    BY <1>10 DEF ShowConnected, ShowStopped
<1> QED
    BY <1>1, <1>2, <1>3, <1>4, <1>5, <1>6, <1>7, <1>8, <1>9, <1>10 DEF ReaderStep

\* Launching a reader keeps the types and touches only that reader.
LEMMA LaunchEffect ==
    ASSUME ReaderTypeOK, NEW r \in Workers, Launch(r)
    PROVE  /\ ReaderTypeOK'
           /\ ~Live(r) /\ Live(r)' /\ ~stopEvent'[r]
           /\ \A q \in Workers \ {r} :
                /\ Live(q)' <=> Live(q)
                /\ stopEvent'[q] = stopEvent[q]
                /\ isOpen'[q] = isOpen[q]
    BY DEF ReaderTypeOK, Live, Phases, States, Go, Launch, PortClosed

\* A stop order keeps the types and touches only the stop event.
LEMMA SetStopEffect ==
    ASSUME ReaderTypeOK, NEW r \in Workers, SetStop(r)
    PROVE  /\ ReaderTypeOK'
           /\ rpc' = rpc /\ isOpen' = isOpen
           /\ stopEvent'[r]
           /\ \A q \in Workers \ {r} : stopEvent'[q] = stopEvent[q]
    BY DEF ReaderTypeOK, SetStop

LEMMA InitTypeOK == Init => TypeOK
<1> SUFFICES ASSUME Init PROVE TypeOK
    OBVIOUS
<1>1. ReaderTypeOK
    BY DEF Init, ReaderInit, ReaderTypeOK, Phases, States
<1>2. IdleJob \in JobRecord
    BY DEF IdleJob, JobRecord, JobPhases
<1>3. ManagerTypeOK
    BY <1>2 DEF Init, ManagerTypeOK
<1> QED
    BY <1>1, <1>3 DEF TypeOK

\* The worker a job holds, when it holds one, is a worker.
LEMMA HeldIsWorker ==
    ASSUME TypeOK, NEW j \in Jobs, job[j].slot # None, job[j].meter # None
    PROVE  Held(j) \in Workers
    BY DEF TypeOK, ManagerTypeOK, JobRecord, Held, Workers

LEMMA StartWorkerTypes ==
    ASSUME TypeOK, NEW m \in Meters, NEW s \in Slots, Wanted(m), StartWorker(m, s)
    PROVE  /\ ReaderTypeOK'
           /\ workers' \in [Meters -> Slots \cup {None}]
           /\ madeFor' \in [Meters -> EnabledConfigs \cup {None}]
<1>1. <<m, s>> \in Workers
    BY DEF Workers
<1>2. ReaderTypeOK'
    BY <1>1, LaunchEffect DEF TypeOK, StartWorker
<1> QED
    BY <1>2 DEF TypeOK, ManagerTypeOK, StartWorker, Wanted

\* Every job that has left the idle state knows its meter, so what it halts and
\* joins is a worker.  TypeOK needs this to be inductive.
JobsWellFormed ==
    \A j \in Jobs :
        /\ job[j].pc = "idle" <=> job[j].meter = None
        /\ job[j].pc \in {"idle", "release"} => job[j].slot = None
        /\ job[j].pc = "join" => job[j].slot # None

\* The holder of the lock halts only workers that are registered.
HaltsRegistered ==
    \A m \in halting : Registered(m) /\ lock \in {"apply", "stop"}

TypeInv == TypeOK /\ JobsWellFormed /\ HaltsRegistered

LEMMA TypeInvStep ==
    ASSUME TypeInv, [Next]_vars
    PROVE  TypeInv'
<1> USE ConstantsAssumption
<1>. USE DEF TypeInv
<1>1. CASE ApplyBegin
    BY <1>1 DEF ApplyBegin, TypeOK, ManagerTypeOK, ReaderTypeOK, readerVars, JobsWellFormed,
        HaltsRegistered, Outdated, Registered
<1>2. CASE StopBegin
    BY <1>2 DEF StopBegin, TypeOK, ManagerTypeOK, ReaderTypeOK, readerVars, JobsWellFormed,
        HaltsRegistered, Registered
<1>3. ASSUME NEW m \in Meters, HaltWorker(m)
      PROVE  TypeInv'
  <2>1. <<m, workers[m]>> \in Workers
    BY <1>3 DEF HaltWorker, HaltsRegistered, Registered, TypeOK, ManagerTypeOK, Workers
  <2>2. ReaderTypeOK'
    BY <1>3, <2>1, SetStopEffect DEF HaltWorker, TypeOK
  <2> QED
    BY <1>3, <2>2 DEF HaltWorker, managerVars, TypeOK, ManagerTypeOK, JobsWellFormed,
        HaltsRegistered, Registered
<1>4. ASSUME NEW m \in Meters, Joined(m)
      PROVE  TypeInv'
    BY <1>4 DEF Joined, TypeOK, ManagerTypeOK, ReaderTypeOK, readerVars, JobsWellFormed,
        HaltsRegistered, Registered
<1>5. ASSUME NEW m \in Meters, NEW s \in Slots, StartNext(m, s)
      PROVE  TypeInv'
  <2>1. StartWorker(m, s) /\ Wanted(m)
    BY <1>5 DEF StartNext, ToStart
  <2> QED
    BY <1>5, <2>1, StartWorkerTypes DEF StartNext, TypeOK, ManagerTypeOK, JobsWellFormed,
        HaltsRegistered
<1>6. CASE EndUpdate
    BY <1>6 DEF EndUpdate, TypeOK, ManagerTypeOK, ReaderTypeOK, readerVars, JobsWellFormed,
        HaltsRegistered, Registered
<1>7. CASE StopEnd
    BY <1>7 DEF StopEnd, TypeOK, ManagerTypeOK, ReaderTypeOK, readerVars, JobsWellFormed,
        HaltsRegistered, Registered
<1>8. ASSUME NEW j \in Jobs, NEW m \in Meters, Reserve(j, m)
      PROVE  TypeInv'
    BY <1>8 DEF Reserve, ReserveKeeping, TypeOK, ManagerTypeOK, ReaderTypeOK, readerVars,
        JobsWellFormed, HaltsRegistered, Registered, JobRecord, JobPhases
<1>9. ASSUME NEW j \in Jobs, JobStep(j)
      PROVE  TypeInv'
  <2>1. CASE JobHalt(j)
    <3>1. Held(j) \in Workers
      BY <2>1, HeldIsWorker DEF JobHalt, JobsWellFormed
    <3>2. ReaderTypeOK'
      BY <2>1, <3>1, SetStopEffect DEF JobHalt, TypeOK
    <3>3. /\ [job[j] EXCEPT !.pc = "join", !.wasRunning = Live(Held(j))] \in JobRecord
          /\ job' = [job EXCEPT ![j] =
                          [job[j] EXCEPT !.pc = "join", !.wasRunning = Live(Held(j))]]
      BY <2>1, ZenonT(60) DEF JobHalt, TypeOK, ManagerTypeOK, JobRecord, JobPhases, Live
    <3>4. ManagerTypeOK'
      BY <2>1, <3>3 DEF JobHalt, TypeOK, ManagerTypeOK
    <3>5. /\ job'[j].pc = "join" /\ job'[j].meter = job[j].meter /\ job'[j].slot = job[j].slot
          /\ \A i \in Jobs \ {j} : job'[i] = job[i]
      BY <3>3 DEF TypeOK, ManagerTypeOK, JobRecord
    <3>6. JobsWellFormed'
      BY <2>1, <3>5, ZenonT(60) DEF JobHalt, JobsWellFormed
    <3> QED
      BY <2>1, <3>2, <3>4, <3>6 DEF JobHalt, TypeOK, HaltsRegistered, Registered
  <2>2. CASE JobMakesTransport(j)
    BY <2>2 DEF JobMakesTransport, SetJob, TypeOK, ManagerTypeOK, ReaderTypeOK, readerVars,
        JobsWellFormed, HaltsRegistered, Registered, JobRecord, JobPhases
  <2>3. CASE JobJoined(j)
    BY <2>3 DEF JobJoined, SetJob, TypeOK, ManagerTypeOK, ReaderTypeOK, readerVars,
        JobsWellFormed, HaltsRegistered, Registered, JobRecord, JobPhases
  <2>4. CASE OpenPort(j)
    <3>1. ReaderTypeOK'
      BY <2>4 DEF OpenPort, TypeOK, ReaderTypeOK
    <3> QED
      BY <2>4, <3>1 DEF OpenPort, SetJob, TypeOK, ManagerTypeOK,
          JobsWellFormed, HaltsRegistered, Registered, JobRecord, JobPhases
  <2>5. CASE FinishUse(j)
    BY <2>5 DEF FinishUse, SetJob, TypeOK, ManagerTypeOK, ReaderTypeOK, readerVars,
        JobsWellFormed, HaltsRegistered, Registered, JobRecord, JobPhases
  <2>6. CASE ClosePort(j)
    <3>1. ReaderTypeOK'
      BY <2>6 DEF ClosePort, TypeOK, ReaderTypeOK
    <3>2. /\ [job[j] EXCEPT !.pc = "release", !.slot = None] \in JobRecord
          /\ job' = [job EXCEPT ![j] = [job[j] EXCEPT !.pc = "release", !.slot = None]]
      BY <2>6 DEF ClosePort, TypeOK, ManagerTypeOK, JobRecord, JobPhases
    <3>3. ManagerTypeOK'
      BY <2>6, <3>2 DEF ClosePort, TypeOK, ManagerTypeOK
    <3>4. /\ job'[j].pc = "release" /\ job'[j].meter = job[j].meter /\ job'[j].slot = None
          /\ \A i \in Jobs \ {j} : job'[i] = job[i]
      BY <3>2 DEF TypeOK, ManagerTypeOK, JobRecord
    <3>5. JobsWellFormed'
      BY <2>6, <3>4 DEF ClosePort, JobsWellFormed
    <3> QED
      BY <2>6, <3>1, <3>3, <3>5 DEF ClosePort, TypeOK, HaltsRegistered, Registered
  <2>7. CASE Release(j)
    <3>1. job[j].meter \in Meters
      BY <2>7 DEF Release, ReleaseLeaving, TypeOK, ManagerTypeOK, JobRecord, JobsWellFormed
    <3>2. /\ ReaderTypeOK'
          /\ workers' \in [Meters -> Slots \cup {None}]
          /\ madeFor' \in [Meters -> EnabledConfigs \cup {None}]
      BY <2>7, <3>1, StartWorkerTypes
      DEF Release, ReleaseLeaving, TypeOK, ManagerTypeOK, ReaderTypeOK, readerVars
    <3>3. halting' = {} /\ halting = {}
      BY <2>7 DEF Release, ReleaseLeaving, HaltsRegistered
    <3> QED
      BY <2>7, <3>2, <3>3 DEF Release, ReleaseLeaving, TypeOK, ManagerTypeOK, JobsWellFormed,
          HaltsRegistered, JobRecord, JobPhases, IdleJob
  <2> QED
    BY <1>9, <2>1, <2>2, <2>3, <2>4, <2>5, <2>6, <2>7 DEF JobStep
<1>10. ASSUME NEW r \in Workers, ReaderThread(r)
       PROVE  TypeInv'
    BY <1>10, ReaderStepEffect DEF ReaderThread, managerVars, TypeOK, ManagerTypeOK,
        JobsWellFormed, HaltsRegistered, Registered
<1>11. CASE UNCHANGED vars
    BY <1>11 DEF vars, managerVars, readerVars, TypeOK, ManagerTypeOK, ReaderTypeOK,
        JobsWellFormed, HaltsRegistered, Registered
<1> QED
    BY <1>1, <1>2, <1>3, <1>4, <1>5, <1>6, <1>7, <1>8, <1>9, <1>10, <1>11
    DEF Next, LockHolderStep

\* Every variable keeps its type, whatever the threads and jobs do
\* (manager.py:177-180, reader.py:48): the states shown are the ones the API
\* documents, and a worker is never made for a meter that is disabled.
THEOREM Typing == Spec => []TypeOK
<1>1. Init => TypeInv
    BY InitTypeOK DEF Init, TypeInv, JobsWellFormed, HaltsRegistered, IdleJob
<1>2. TypeInv /\ [Next]_vars => TypeInv'
    BY TypeInvStep
<1>3. TypeInv => TypeOK
    BY DEF TypeInv
<1> QED
    BY <1>1, <1>2, <1>3, PTL DEF Spec

-----------------------------------------------------------------------------
(* Reservations, registration and stop orders, with joins that may time    *)
(* out: SlowCalls is any set of phases.                                    *)

\* Up to the release, a step of a job changes its own record only, keeps its
\* meter, drops its worker only when it closes the port, and leaves the
\* manager's register, config and lock alone.
LEMMA JobMoves ==
    ASSUME TypeInv, NEW j \in Jobs, JobStep(j), ~Release(j)
    PROVE  /\ UNCHANGED <<config, workers, madeFor, reserved, stopped, lock, halting>>
           /\ \A i \in Jobs \ {j} : job'[i] = job[i]
           /\ job[j].pc # "idle" /\ job'[j].pc \notin {"idle", "halt"}
           /\ job'[j].meter = job[j].meter
           /\ \/ job'[j].slot = job[j].slot
              \/ job[j].pc = "close" /\ job'[j].slot = None
<1> USE DEF TypeInv
<1>1. CASE JobHalt(j)
  <2>1. /\ job'[j].pc = "join" /\ job'[j].meter = job[j].meter /\ job'[j].slot = job[j].slot
        /\ \A i \in Jobs \ {j} : job'[i] = job[i]
    BY <1>1 DEF JobHalt, TypeOK, ManagerTypeOK, JobRecord
  <2> QED
    BY <1>1, <2>1 DEF JobHalt
<1>2. CASE JobMakesTransport(j)
  <2>1. /\ job'[j].pc = "open" /\ job'[j].meter = job[j].meter /\ job'[j].slot = job[j].slot
        /\ \A i \in Jobs \ {j} : job'[i] = job[i]
    BY <1>2 DEF JobMakesTransport, SetJob, TypeOK, ManagerTypeOK, JobRecord
  <2> QED
    BY <1>2, <2>1 DEF JobMakesTransport
<1>3. CASE JobJoined(j)
  <2>1. /\ job'[j].pc = "open" /\ job'[j].meter = job[j].meter /\ job'[j].slot = job[j].slot
        /\ \A i \in Jobs \ {j} : job'[i] = job[i]
    BY <1>3 DEF JobJoined, SetJob, TypeOK, ManagerTypeOK, JobRecord
  <2> QED
    BY <1>3, <2>1 DEF JobJoined
<1>4. CASE OpenPort(j)
  <2>1. /\ job'[j].pc \in {"using", "close"}
        /\ job'[j].meter = job[j].meter /\ job'[j].slot = job[j].slot
        /\ \A i \in Jobs \ {j} : job'[i] = job[i]
    BY <1>4 DEF OpenPort, SetJob, TypeOK, ManagerTypeOK, JobRecord
  <2> QED
    BY <1>4, <2>1 DEF OpenPort
<1>5. CASE FinishUse(j)
  <2>1. /\ job'[j].pc = "close" /\ job'[j].meter = job[j].meter /\ job'[j].slot = job[j].slot
        /\ \A i \in Jobs \ {j} : job'[i] = job[i]
    BY <1>5 DEF FinishUse, SetJob, TypeOK, ManagerTypeOK, JobRecord
  <2> QED
    BY <1>5, <2>1 DEF FinishUse
<1>6. CASE ClosePort(j)
  <2>1. /\ job'[j].pc = "release" /\ job'[j].meter = job[j].meter /\ job'[j].slot = None
        /\ \A i \in Jobs \ {j} : job'[i] = job[i]
    BY <1>6 DEF ClosePort, TypeOK, ManagerTypeOK, JobRecord
  <2> QED
    BY <1>6, <2>1 DEF ClosePort
<1> QED
    BY <1>1, <1>2, <1>3, <1>4, <1>5, <1>6 DEF JobStep

\* Among the steps of the lock holder and the jobs, only StartWorker launches a
\* reader, and no other step gives or takes back a stop order except SetStop.
LEMMA JobReaders ==
    ASSUME TypeInv, NEW j \in Jobs, JobStep(j), ~Release(j)
    PROVE  /\ rpc' = rpc
           /\ \A r \in Workers : stopEvent[r] => stopEvent'[r]
           /\ job[j].pc = "halt" /\ job[j].slot # None => stopEvent'[Held(j)]
<1>1. CASE JobHalt(j)
  <2>1. Held(j) \in Workers
    BY <1>1, HeldIsWorker DEF JobHalt, TypeInv, JobsWellFormed
  <2> QED
    BY <1>1, <2>1, SetStopEffect DEF JobHalt, TypeInv, TypeOK
<1>2. CASE ~JobHalt(j)
    BY <1>2 DEF JobStep, JobMakesTransport, JobJoined, OpenPort, FinishUse, ClosePort, readerVars
<1> QED
    BY <1>1, <1>2

ReservedUnregistered == \A m \in reserved : ~Registered(m)

Reservation == ReservedByOneJob /\ ReservedUnregistered

LEMMA ReservationStep ==
    ASSUME TypeInv, Reservation, [Next]_vars
    PROVE  Reservation'
<1> USE DEF TypeInv, TypeOK, ManagerTypeOK, Reservation, ReservedByOneJob,
            ReservedUnregistered, Registered
<1>1. CASE ApplyBegin \/ StopBegin
    BY <1>1 DEF ApplyBegin, StopBegin
<1>2. CASE LockHolderStep
  <2>1. ASSUME NEW m \in Meters, HaltWorker(m)
        PROVE  Reservation'
    BY <2>1 DEF HaltWorker, managerVars
  <2>2. ASSUME NEW m \in Meters, Joined(m)
        PROVE  Reservation'
    BY <2>2 DEF Joined
  <2>3. ASSUME NEW m \in Meters, NEW s \in Slots, StartNext(m, s)
        PROVE  Reservation'
    BY <2>3 DEF StartNext, StartWorker, ToStart
  <2>4. CASE EndUpdate \/ StopEnd
    BY <2>4 DEF EndUpdate, StopEnd
  <2> QED
    BY <1>2, <2>1, <2>2, <2>3, <2>4 DEF LockHolderStep
<1>3. ASSUME NEW j \in Jobs, NEW m \in Meters, Reserve(j, m)
      PROVE  Reservation'
  <2>1. /\ job'[j].pc = "halt" /\ job'[j].meter = m
        /\ \A i \in Jobs \ {j} : job'[i] = job[i]
    BY <1>3 DEF Reserve, ReserveKeeping
  <2>2. \A i \in Jobs \ {j} : job[i].meter # m
    BY <1>3, ConstantsAssumption DEF Reserve, JobsWellFormed
  <2>3. job[j].meter = None
    BY <1>3 DEF Reserve, ReserveKeeping, JobsWellFormed
  <2>4. ReservedByOneJob'
    BY <1>3, <2>1, <2>2, <2>3, ConstantsAssumption DEF Reserve, ReserveKeeping
  <2> QED
    BY <1>3, <2>4 DEF Reserve, ReserveKeeping
<1>4. ASSUME NEW j \in Jobs, JobStep(j), ~Release(j)
      PROVE  Reservation'
    BY <1>4, JobMoves
<1>5. ASSUME NEW j \in Jobs, Release(j)
      PROVE  Reservation'
  <2>1. /\ job'[j] = IdleJob
        /\ \A i \in Jobs \ {j} : job'[i] = job[i]
        /\ job[j].pc = "release" /\ job[j].meter \in Meters
        /\ reserved' = reserved \ {job[j].meter}
    BY <1>5 DEF Release, ReleaseLeaving, JobsWellFormed, JobRecord
  <2>2. \A m \in Meters \ {job[j].meter} : workers'[m] = workers[m]
    BY <1>5 DEF Release, ReleaseLeaving, StartWorker
  <2> QED
    BY <2>1, <2>2 DEF IdleJob, JobsWellFormed
<1>6. ASSUME NEW r \in Workers, ReaderThread(r)
      PROVE  Reservation'
    BY <1>6 DEF ReaderThread, managerVars
<1>7. CASE UNCHANGED vars
    BY <1>7 DEF vars, managerVars
<1> QED
    BY <1>1, <1>2, <1>3, <1>4, <1>5, <1>6, <1>7 DEF Next

\* While stop works through its list, the workers it has done with have been
\* told to stop.
HaltedInTurn ==
    lock = "stop" =>
        \A m \in Meters : Registered(m) /\ m \notin halting => stopEvent[<<m, workers[m]>>]

\* A registered worker that is not about to be stopped is up to date.
WorkersCurrent ==
    lock # "stop" => \A m \in Meters : Registered(m) /\ m \notin halting => madeFor[m] = config[m]

Ownership == Reservation /\ HaltedInTurn /\ WorkersCurrent /\ NoOrphanReader

\* The two ways a worker is started keep the ownership of all readers.
LEMMA StartWorkerOwnership ==
    ASSUME TypeInv, Ownership, NEW m \in Meters, NEW s \in Slots, StartWorker(m, s),
           ~Registered(m), config' = config, lock # "stop", lock' = lock, halting' = halting,
           \A j \in Jobs : job[j].pc = "halt" => job'[j] = job[j]
    PROVE  HaltedInTurn' /\ WorkersCurrent' /\ NoOrphanReader'
<1> USE DEF TypeInv, TypeOK, ManagerTypeOK, Ownership
<1>1. <<m, s>> \in Workers
    BY DEF Workers
<1>2. Launch(<<m, s>>) /\ workers' = [workers EXCEPT ![m] = s] /\ madeFor' = [madeFor EXCEPT ![m] = config[m]]
    BY DEF StartWorker
<1>3. \A q \in Workers \ {<<m, s>>} : (Live(q)' <=> Live(q)) /\ stopEvent'[q] = stopEvent[q]
    BY <1>1, <1>2, LaunchEffect
<1>4. HaltedInTurn' /\ WorkersCurrent'
    BY <1>2 DEF HaltedInTurn, WorkersCurrent, Registered
<1>5. NoOrphanReader'
  <2> SUFFICES ASSUME NEW r \in Workers, Live(r)', ~stopEvent'[r]
               PROVE  \/ workers'[r[1]] = r[2]
                      \/ \E j \in Jobs : job'[j].pc = "halt" /\ Holds(j, r)'
    BY DEF NoOrphanReader
  <2>1. CASE r = <<m, s>>
    BY <2>1, <1>2
  <2>2. CASE r # <<m, s>>
    <3>1. \/ workers[r[1]] = r[2]
          \/ \E j \in Jobs : job[j].pc = "halt" /\ Holds(j, r)
      BY <2>2, <1>3 DEF NoOrphanReader
    <3>2. workers[r[1]] = r[2] => r[1] # m
      BY ConstantsAssumption DEF Workers, Registered
    <3> QED
      BY <3>1, <3>2, <1>2 DEF Holds, Held, Workers
  <2> QED
    BY <2>1, <2>2
<1> QED
    BY <1>4, <1>5

LEMMA OwnershipStep ==
    ASSUME TypeInv, Ownership, [Next]_vars
    PROVE  Ownership'
<1>0. Reservation'
    BY ReservationStep DEF Ownership
<1> USE DEF TypeInv, TypeOK, ManagerTypeOK, Ownership
<1>1. CASE ApplyBegin \/ StopBegin
  <2>1. NoOrphanReader'
    BY <1>1 DEF ApplyBegin, StopBegin, readerVars, NoOrphanReader, Live, Holds, Held
  <2> QED
    BY <1>0, <1>1, <2>1 DEF ApplyBegin, StopBegin, readerVars, HaltedInTurn, WorkersCurrent,
        Outdated, Registered, Reservation, ReservedUnregistered
<1>2. CASE LockHolderStep
  <2>1. ASSUME NEW m \in Meters, HaltWorker(m)
        PROVE  Ownership'
    <3>1. <<m, workers[m]>> \in Workers
      BY <2>1 DEF HaltWorker, HaltsRegistered, Registered, Workers
    <3>2. /\ rpc' = rpc
          /\ \A q \in Workers : stopEvent[q] => stopEvent'[q]
      BY <2>1, <3>1, SetStopEffect DEF HaltWorker
    <3>3. \A n \in Meters : Registered(n) => <<n, workers[n]>> \in Workers
      BY DEF Registered, Workers
    <3> QED
      BY <1>0, <2>1, <3>2, <3>3 DEF HaltWorker, managerVars, HaltedInTurn, WorkersCurrent,
          NoOrphanReader, Registered, Live, Holds, Held
  <2>2. ASSUME NEW m \in Meters, Joined(m)
        PROVE  Ownership'
    <3>1. NoOrphanReader'
      BY <2>2 DEF Joined, readerVars, NoOrphanReader, Live, Holds, Held, Workers
    <3>2. lock \in {"apply", "stop"}
      BY <2>2 DEF Joined, HaltsRegistered
    <3>3. CASE lock = "apply"
      BY <1>0, <2>2, <3>1, <3>3 DEF Joined, readerVars, HaltedInTurn, WorkersCurrent, Registered
    <3>4. CASE lock = "stop"
      BY <1>0, <2>2, <3>1, <3>4 DEF Joined, readerVars, HaltedInTurn, WorkersCurrent, Registered
    <3> QED
      BY <3>2, <3>3, <3>4
  <2>3. ASSUME NEW m \in Meters, NEW s \in Slots, StartNext(m, s)
        PROVE  Ownership'
    BY <1>0, <2>3, StartWorkerOwnership DEF StartNext, ToStart
  <2>4. CASE EndUpdate
    BY <1>0, <2>4 DEF EndUpdate, readerVars, HaltedInTurn, WorkersCurrent, NoOrphanReader,
        Registered, Live, Holds, Held
  <2>5. CASE StopEnd
    <3>1. NoOrphanReader'
      BY <2>5, ConstantsAssumption DEF StopEnd, readerVars, NoOrphanReader, HaltedInTurn,
          Live, Holds, Held, Workers, Registered
    <3> QED
      BY <1>0, <2>5, <3>1 DEF StopEnd, HaltedInTurn, WorkersCurrent, Registered
  <2> QED
    BY <1>2, <2>1, <2>2, <2>3, <2>4, <2>5 DEF LockHolderStep
<1>3. ASSUME NEW j \in Jobs, NEW m \in Meters, Reserve(j, m)
      PROVE  Ownership'
  <2>1. /\ job[j].pc = "idle" /\ m \notin reserved
        /\ workers' = [workers EXCEPT ![m] = None]
        /\ job'[j].pc = "halt" /\ job'[j].meter = m /\ job'[j].slot = workers[m]
        /\ \A i \in Jobs \ {j} : job'[i] = job[i]
    BY <1>3 DEF Reserve, ReserveKeeping
  <2>2. NoOrphanReader'
    <3> SUFFICES ASSUME NEW r \in Workers, Live(r)', ~stopEvent'[r]
                 PROVE  \/ workers'[r[1]] = r[2]
                        \/ \E i \in Jobs : job'[i].pc = "halt" /\ Holds(i, r)'
      BY DEF NoOrphanReader
    <3>1. \/ workers[r[1]] = r[2]
          \/ \E i \in Jobs \ {j} : job[i].pc = "halt" /\ Holds(i, r)
      BY <1>3, <2>1 DEF Reserve, ReserveKeeping, readerVars, NoOrphanReader, Live
    <3>2. CASE workers[r[1]] = r[2] /\ r[1] = m
      BY <2>1, <3>2, ConstantsAssumption DEF Holds, Held, Workers
    <3> QED
      BY <2>1, <3>1, <3>2 DEF Holds, Held, Workers
  <2> QED
    BY <1>0, <1>3, <2>2 DEF Reserve, ReserveKeeping, readerVars, HaltedInTurn, WorkersCurrent,
        Registered
<1>4. ASSUME NEW j \in Jobs, JobStep(j), ~Release(j)
      PROVE  Ownership'
  <2>1. \A n \in Meters : Registered(n) => <<n, workers[n]>> \in Workers
    BY DEF Registered, Workers
  <2>2. NoOrphanReader'
    <3> SUFFICES ASSUME NEW r \in Workers, Live(r)', ~stopEvent'[r]
                 PROVE  \/ workers'[r[1]] = r[2]
                        \/ \E i \in Jobs : job'[i].pc = "halt" /\ Holds(i, r)'
      BY DEF NoOrphanReader
    <3>1. \/ workers[r[1]] = r[2]
          \/ \E i \in Jobs : job[i].pc = "halt" /\ Holds(i, r)
      BY <1>4, JobReaders DEF NoOrphanReader, Live
    <3>2. ASSUME job[j].pc = "halt", Holds(j, r)
          PROVE  FALSE
      BY <1>4, <3>2, JobReaders DEF Holds
    <3> QED
      BY <1>4, <3>1, <3>2, JobMoves DEF Holds, Held
  <2> QED
    BY <1>0, <1>4, <2>1, <2>2, JobMoves, JobReaders
    DEF HaltedInTurn, WorkersCurrent, Registered
<1>5. ASSUME NEW j \in Jobs, Release(j)
      PROVE  Ownership'
  <2>1. /\ job[j].pc = "release" /\ job[j].meter \in Meters /\ job[j].meter \in reserved
        /\ lock = "free" /\ UNCHANGED <<config, lock, halting>>
        /\ \A i \in Jobs \ {j} : job'[i] = job[i]
    BY <1>5 DEF Release, ReleaseLeaving, JobsWellFormed, JobRecord, Reservation, ReservedByOneJob
  <2>2. ~Registered(job[j].meter)
    BY <2>1 DEF Reservation, ReservedUnregistered
  <2>3. CASE \E s \in Slots : StartWorker(job[j].meter, s)
    BY <1>0, <2>1, <2>2, <2>3, StartWorkerOwnership
  <2>4. CASE UNCHANGED <<readerVars, workers, madeFor>>
    BY <1>0, <2>1, <2>4 DEF readerVars, HaltedInTurn, WorkersCurrent, NoOrphanReader,
        Registered, Live, Holds, Held
  <2> QED
    BY <1>5, <2>3, <2>4 DEF Release, ReleaseLeaving
<1>6. ASSUME NEW r \in Workers, ReaderThread(r)
      PROVE  Ownership'
  <2>1. /\ stopEvent' = stopEvent
        /\ \A q \in Workers : Live(q)' => Live(q)
    BY <1>6, ReaderStepEffect DEF ReaderThread
  <2> QED
    BY <1>0, <1>6, <2>1 DEF ReaderThread, managerVars, HaltedInTurn, WorkersCurrent,
        NoOrphanReader, Registered, Holds, Held
<1>7. CASE UNCHANGED vars
    BY <1>0, <1>7 DEF vars, managerVars, readerVars, HaltedInTurn, WorkersCurrent,
        NoOrphanReader, Registered, Live, Holds, Held
<1> QED
    BY <1>1, <1>2, <1>3, <1>4, <1>5, <1>6, <1>7 DEF Next

LEMMA OwnershipInvariant == Spec => [](TypeInv /\ Ownership)
<1>1. Init => TypeInv /\ Ownership
    BY InitTypeOK DEF Init, ReaderInit, TypeInv, JobsWellFormed, HaltsRegistered, IdleJob,
        Ownership, Reservation, ReservedByOneJob, ReservedUnregistered, HaltedInTurn,
        WorkersCurrent, NoOrphanReader, Registered, Live
<1>2. TypeInv /\ Ownership /\ [Next]_vars => (TypeInv /\ Ownership)'
    BY TypeInvStep, OwnershipStep
<1> QED
    BY <1>1, <1>2, PTL DEF Spec

\* Reserved meters and active PIN jobs match one to one, so a reservation is
\* neither shared nor leaked (manager.py:301-335), with any join timing out.
THEOREM Reservations == Spec => []ReservedByOneJob
<1>1. Ownership => ReservedByOneJob
    BY DEF Ownership, Reservation
<1> QED
    BY <1>1, OwnershipInvariant, PTL

\* A reader nobody can stop any more does not exist, however long the calls of
\* the readers take (manager.py:92-101, 246-266, 310-335).
THEOREM NoOrphans == Spec => []NoOrphanReader
<1>1. Ownership => NoOrphanReader
    BY DEF Ownership
<1> QED
    BY <1>1, OwnershipInvariant, PTL

\* No registered reader works with a config that has been replaced, whatever
\* is edited while a PIN job has the meter (manager.py:251-252, 308-309).
THEOREM CurrentConfigs == Spec => []RunsCurrentConfig
<1>1. TypeInv /\ Ownership => RunsCurrentConfig
    BY DEF TypeInv, HaltsRegistered, Ownership, WorkersCurrent, Reservation,
        ReservedUnregistered, RunsCurrentConfig, Registered, TypeOK, ManagerTypeOK
<1> QED
    BY <1>1, OwnershipInvariant, PTL

-----------------------------------------------------------------------------
(* Exclusive use of the ports, when every join sees its thread end.        *)

\* A reader that runs is registered, or a PIN job is waiting for it to end.
LiveOwned ==
    \A r \in Workers :
        Live(r) => \/ workers[r[1]] = r[2]
                   \/ \E j \in Jobs : job[j].pc \in {"halt", "join"} /\ Holds(j, r)

\* The workers stop has done with have ended.
JoinedInTurn ==
    lock = "stop" => \A m \in Meters : Registered(m) /\ m \notin halting => ~Live(<<m, workers[m]>>)

Prompt == LiveOwned /\ JoinedInTurn

LEMMA StartWorkerPrompt ==
    ASSUME TypeInv, Prompt, NEW m \in Meters, NEW s \in Slots, StartWorker(m, s),
           ~Registered(m), lock # "stop", lock' = lock,
           \A j \in Jobs : job[j].pc \in {"halt", "join"} => job'[j] = job[j]
    PROVE  Prompt'
<1> USE DEF TypeInv, TypeOK, ManagerTypeOK, Prompt
<1>1. <<m, s>> \in Workers
    BY DEF Workers
<1>2. Launch(<<m, s>>) /\ workers' = [workers EXCEPT ![m] = s]
    BY DEF StartWorker
<1>3. \A q \in Workers \ {<<m, s>>} : Live(q)' <=> Live(q)
    BY <1>1, <1>2, LaunchEffect
<1>4. JoinedInTurn'
    BY DEF JoinedInTurn
<1>5. LiveOwned'
  <2> SUFFICES ASSUME NEW r \in Workers, Live(r)'
               PROVE  \/ workers'[r[1]] = r[2]
                      \/ \E j \in Jobs : job'[j].pc \in {"halt", "join"} /\ Holds(j, r)'
    BY DEF LiveOwned
  <2>1. CASE r = <<m, s>>
    BY <2>1, <1>2
  <2>2. CASE r # <<m, s>>
    <3>1. \/ workers[r[1]] = r[2]
          \/ \E j \in Jobs : job[j].pc \in {"halt", "join"} /\ Holds(j, r)
      BY <2>2, <1>3 DEF LiveOwned
    <3>2. workers[r[1]] = r[2] => r[1] # m
      BY ConstantsAssumption DEF Workers, Registered
    <3> QED
      BY <3>1, <3>2, <1>2 DEF Holds, Held, Workers
  <2> QED
    BY <2>1, <2>2
<1> QED
    BY <1>4, <1>5

LEMMA PromptStep ==
    ASSUME SlowCalls = {}, TypeInv, Ownership, Prompt, [Next]_vars
    PROVE  Prompt'
<1> USE DEF TypeInv, TypeOK, ManagerTypeOK, Prompt
<1>1. CASE ApplyBegin \/ StopBegin
    BY <1>1 DEF ApplyBegin, StopBegin, readerVars, LiveOwned, JoinedInTurn, Registered, Live,
        Holds, Held
<1>2. CASE LockHolderStep
  <2>1. ASSUME NEW m \in Meters, HaltWorker(m)
        PROVE  Prompt'
    <3>1. <<m, workers[m]>> \in Workers
      BY <2>1 DEF HaltWorker, HaltsRegistered, Registered, Workers
    <3>2. rpc' = rpc
      BY <2>1, <3>1, SetStopEffect DEF HaltWorker
    <3> QED
      BY <2>1, <3>2 DEF HaltWorker, managerVars, LiveOwned, JoinedInTurn, Registered, Live,
          Holds, Held
  <2>2. ASSUME NEW m \in Meters, Joined(m)
        PROVE  Prompt'
    <3>1. ~Live(<<m, workers[m]>>)
      BY <2>2 DEF Joined, JoinReturns
    <3>2. lock \in {"apply", "stop"}
      BY <2>2 DEF Joined, HaltsRegistered
    <3>3. CASE lock = "apply"
      BY <2>2, <3>1, <3>3 DEF Joined, readerVars, LiveOwned, JoinedInTurn, Live, Holds, Held,
          Workers
    <3>4. CASE lock = "stop"
      BY <2>2, <3>1, <3>4 DEF Joined, readerVars, LiveOwned, JoinedInTurn, Registered, Live,
          Holds, Held
    <3> QED
      BY <3>2, <3>3, <3>4
  <2>3. ASSUME NEW m \in Meters, NEW s \in Slots, StartNext(m, s)
        PROVE  Prompt'
    BY <2>3, StartWorkerPrompt DEF StartNext, ToStart
  <2>4. CASE EndUpdate
    BY <2>4 DEF EndUpdate, readerVars, LiveOwned, JoinedInTurn, Live, Holds, Held
  <2>5. CASE StopEnd
    <3>1. \A m \in Meters : Registered(m) => ~Live(<<m, workers[m]>>)
      BY <2>5 DEF StopEnd, JoinedInTurn
    <3>2. \A r \in Workers : workers[r[1]] = r[2] => Registered(r[1]) /\ r = <<r[1], workers[r[1]]>>
      BY ConstantsAssumption DEF Workers, Registered
    <3>3. \A r \in Workers : workers[r[1]] = r[2] => ~Live(r)
      BY <3>1, <3>2 DEF Workers
    <3> QED
      BY <2>5, <3>3 DEF StopEnd, readerVars, LiveOwned, JoinedInTurn, Live, Holds, Held
  <2> QED
    BY <1>2, <2>1, <2>2, <2>3, <2>4, <2>5 DEF LockHolderStep
<1>3. ASSUME NEW j \in Jobs, NEW m \in Meters, Reserve(j, m)
      PROVE  Prompt'
  <2>1. /\ job[j].pc = "idle" /\ m \notin reserved
        /\ workers' = [workers EXCEPT ![m] = None]
        /\ job'[j].pc = "halt" /\ job'[j].meter = m /\ job'[j].slot = workers[m]
        /\ \A i \in Jobs \ {j} : job'[i] = job[i]
        /\ lock' = "free" /\ rpc' = rpc
    BY <1>3 DEF Reserve, ReserveKeeping, readerVars
  <2>2. LiveOwned'
    <3> SUFFICES ASSUME NEW r \in Workers, Live(r)'
                 PROVE  \/ workers'[r[1]] = r[2]
                        \/ \E i \in Jobs : job'[i].pc \in {"halt", "join"} /\ Holds(i, r)'
      BY DEF LiveOwned
    <3>1. \/ workers[r[1]] = r[2]
          \/ \E i \in Jobs \ {j} : job[i].pc \in {"halt", "join"} /\ Holds(i, r)
      BY <2>1 DEF LiveOwned, Live
    <3>2. CASE workers[r[1]] = r[2] /\ r[1] = m
      BY <2>1, <3>2, ConstantsAssumption DEF Holds, Held, Workers
    <3> QED
      BY <2>1, <3>1, <3>2 DEF Holds, Held, Workers
  <2> QED
    BY <2>1, <2>2 DEF JoinedInTurn
<1>4. ASSUME NEW j \in Jobs, JobStep(j), ~Release(j)
      PROVE  Prompt'
  <2>1. JoinedInTurn'
    BY <1>4, JobMoves, JobReaders DEF JoinedInTurn, Registered, Live
  <2>2. LiveOwned'
    <3> SUFFICES ASSUME NEW r \in Workers, Live(r)'
                 PROVE  \/ workers'[r[1]] = r[2]
                        \/ \E i \in Jobs : job'[i].pc \in {"halt", "join"} /\ Holds(i, r)'
      BY DEF LiveOwned
    <3>1. Live(r) /\ workers' = workers
      BY <1>4, JobMoves, JobReaders DEF Live
    <3>2. \/ workers[r[1]] = r[2]
          \/ \E i \in Jobs : job[i].pc \in {"halt", "join"} /\ Holds(i, r)
      BY <3>1 DEF LiveOwned
    <3>3. ASSUME job[j].pc \in {"halt", "join"}, Holds(j, r)
          PROVE  job'[j].pc \in {"halt", "join"} /\ Holds(j, r)'
      <4>1. JobHalt(j)
        BY <1>4, <3>1, <3>3 DEF JobStep, JobHalt, JobMakesTransport, JobJoined, JoinReturns,
            OpenPort, FinishUse, ClosePort, Holds
      <4>2. job'[j].pc = "join" /\ job'[j].meter = job[j].meter /\ job'[j].slot = job[j].slot
        BY <4>1 DEF JobHalt, JobRecord
      <4> QED
        BY <3>3, <4>2 DEF Holds, Held
    <3> QED
      BY <1>4, <3>1, <3>2, <3>3, JobMoves DEF Holds, Held
  <2> QED
    BY <2>1, <2>2
<1>5. ASSUME NEW j \in Jobs, Release(j)
      PROVE  Prompt'
  <2>1. /\ job[j].pc = "release" /\ job[j].meter \in Meters /\ job[j].meter \in reserved
        /\ lock = "free" /\ lock' = lock
        /\ \A i \in Jobs \ {j} : job'[i] = job[i]
    BY <1>5 DEF Release, ReleaseLeaving, JobsWellFormed, JobRecord, Ownership, Reservation,
        ReservedByOneJob
  <2>2. ~Registered(job[j].meter)
    BY <2>1 DEF Ownership, Reservation, ReservedUnregistered
  <2>3. CASE \E s \in Slots : StartWorker(job[j].meter, s)
    BY <2>1, <2>2, <2>3, StartWorkerPrompt
  <2>4. CASE UNCHANGED <<readerVars, workers, madeFor>>
    BY <2>1, <2>4 DEF readerVars, LiveOwned, JoinedInTurn, Live, Holds, Held
  <2> QED
    BY <1>5, <2>3, <2>4 DEF Release, ReleaseLeaving
<1>6. ASSUME NEW r \in Workers, ReaderThread(r)
      PROVE  Prompt'
  <2>1. \A q \in Workers : Live(q)' => Live(q)
    BY <1>6, ReaderStepEffect DEF ReaderThread
  <2>2. \A n \in Meters : Registered(n) => <<n, workers[n]>> \in Workers
    BY DEF Registered, Workers
  <2> QED
    BY <1>6, <2>1, <2>2 DEF ReaderThread, managerVars, LiveOwned, JoinedInTurn, Registered,
        Holds, Held
<1>7. CASE UNCHANGED vars
    BY <1>7 DEF vars, managerVars, readerVars, LiveOwned, JoinedInTurn, Registered, Live, Holds,
        Held
<1> QED
    BY <1>1, <1>2, <1>3, <1>4, <1>5, <1>6, <1>7 DEF Next

LEMMA OwnersExclude ==
    ASSUME TypeInv, Ownership, Prompt
    PROVE  ExclusiveUse
<1> SUFFICES ASSUME NEW m \in Meters, NEW u \in PortUsers(m), NEW v \in PortUsers(m)
             PROVE  u = v
    BY DEF ExclusiveUse
<1> USE DEF TypeInv, TypeOK, ManagerTypeOK, Ownership, Reservation, ReservedByOneJob,
            ReservedUnregistered, PortUsers, UsesPort
<1>1. ASSUME NEW r \in Workers, r[1] = m, Live(r)
      PROVE  \/ workers[m] = r[2] /\ m \notin reserved
             \/ \E j \in Jobs : job[j].pc \in {"halt", "join"} /\ job[j].meter = m
                               /\ job[j].slot = r[2]
    BY <1>1, ConstantsAssumption DEF Prompt, LiveOwned, Holds, Held, Workers, Registered
<1>2. ASSUME NEW r \in Workers, NEW q \in Workers, r[1] = m, Live(r), q[1] = m, Live(q)
      PROVE  r = q
  <2>1. r[2] = q[2]
    BY <1>1, <1>2, ConstantsAssumption
  <2> QED
    BY <1>2, <2>1 DEF Workers
<1>3. ASSUME NEW r \in Workers, r[1] = m, Live(r), NEW j \in Jobs, job[j].meter = m, UsesPort(j)
      PROVE  FALSE
    BY <1>1, <1>3, ConstantsAssumption
<1>4. ASSUME NEW i \in Jobs, NEW j \in Jobs, job[i].meter = m, job[j].meter = m
      PROVE  i = j
    BY <1>4, ConstantsAssumption
<1> QED
    BY <1>2, <1>3, <1>4

LEMMA PromptInvariant ==
    ASSUME SlowCalls = {}
    PROVE  Spec => [](TypeInv /\ Ownership /\ Prompt)
<1>1. Init => Prompt
    BY DEF Init, ReaderInit, Prompt, LiveOwned, JoinedInTurn, Live
<1>2. TypeInv /\ Ownership /\ Prompt /\ [Next]_vars => Prompt'
    BY PromptStep
<1> QED
    BY <1>1, <1>2, OwnershipInvariant, PTL DEF Spec

\* When every join sees its thread end, no port ever has two users: not two
\* readers, not a reader and a PIN job, not two PIN jobs (manager.py:97-99,
\* 301-309), for every number of meters, worker objects and jobs.
THEOREM Exclusion == ASSUME SlowCalls = {} PROVE Spec => []ExclusiveUse
<1>1. TypeInv /\ Ownership /\ Prompt => ExclusiveUse
    BY OwnersExclude
<1> QED
    BY <1>1, PromptInvariant, PTL

\* It takes a join that gives up for a reader to read under a PIN job
\* (manager.py:304-305): without one, the violation of the run pin_shares_port
\* is out of reach.
THEOREM PortAlone == ASSUME SlowCalls = {} PROVE Spec => []PinJobHasPortAlone
<1>1. ASSUME TypeInv, Ownership, Prompt
      PROVE  PinJobHasPortAlone
  <2> SUFFICES ASSUME NEW j \in Jobs, NEW s \in Slots, job[j].pc = "using",
                      rpc[<<job[j].meter, s>>] = "read"
               PROVE  FALSE
    BY DEF PinJobHasPortAlone
  <2> DEFINE m == job[j].meter
  <2>1. m \in Meters
    BY <1>1 DEF TypeInv, TypeOK, ManagerTypeOK, JobRecord, JobsWellFormed
  <2>2. <<m, s>> \in PortUsers(m)
    BY <2>1 DEF PortUsers, Workers, Live
  <2>3. j \in PortUsers(m)
    BY DEF PortUsers, UsesPort
  <2>4. <<m, s>> \in Workers
    BY <2>1 DEF Workers
  <2> QED
    BY <1>1, <2>1, <2>2, <2>3, <2>4, OwnersExclude, ConstantsAssumption DEF ExclusiveUse
<1> QED
    BY <1>1, PromptInvariant, PTL

-----------------------------------------------------------------------------
(* After stop.                                                             *)

\* Once stop has been called nothing but stop takes the lock for longer than a
\* step, and when it is done nothing is registered any more.
Emptied == stopped => lock = "stop" \/ (lock = "free" /\ \A m \in Meters : ~Registered(m))

LEMMA EmptiedStep ==
    ASSUME LateEdits = FALSE, TypeInv, Emptied, [Next]_vars
    PROVE  Emptied'
<1> USE DEF TypeInv, TypeOK, ManagerTypeOK, Emptied, Registered
<1>1. CASE ApplyBegin \/ StopBegin
  BY <1>1 DEF ApplyBegin, StopBegin
<1>2. CASE LockHolderStep
  BY <1>2 DEF LockHolderStep, HaltWorker, Joined, StartNext, EndUpdate, StopEnd, managerVars, HaltsRegistered
<1>3. ASSUME NEW j \in Jobs, NEW m \in Meters, Reserve(j, m) PROVE Emptied'
  BY <1>3 DEF Reserve, ReserveKeeping
<1>4. ASSUME NEW j \in Jobs, JobStep(j), ~Release(j) PROVE Emptied'
  BY <1>4, JobMoves
<1>5. ASSUME NEW j \in Jobs, Release(j) PROVE Emptied'
  BY <1>5 DEF Release, ReleaseLeaving
<1>6. ASSUME NEW r \in Workers, ReaderThread(r) PROVE Emptied'
  BY <1>6 DEF ReaderThread, managerVars
<1>7. CASE UNCHANGED vars
  BY <1>7 DEF vars, managerVars
<1> QED
  BY <1>1, <1>2, <1>3, <1>4, <1>5, <1>6, <1>7 DEF Next

\* What holds when every join sees its thread end and no edit comes after stop.
PortInv == TypeInv /\ Ownership /\ Prompt /\ Emptied

LEMMA PortInvariant ==
    ASSUME SlowCalls = {}, LateEdits = FALSE
    PROVE  Spec => []PortInv
<1>1. Init => Emptied
  BY DEF Init, Emptied
<1>2. TypeInv /\ Emptied /\ [Next]_vars => Emptied'
  BY EmptiedStep
<1> QED
  BY <1>1, <1>2, PromptInvariant, PTL DEF Spec, PortInv

\* After stop only a reader that a PIN job is just stopping is still alive
\* (manager.py:334).
THEOREM StopIsFinal ==
    ASSUME SlowCalls = {}, LateEdits = FALSE
    PROVE  Spec => []StopLeavesNoReader
<1>1. PortInv => StopLeavesNoReader
  BY ConstantsAssumption DEF ConstantsAssumption, PortInv, TypeInv, TypeOK, ManagerTypeOK, Prompt, LiveOwned, Emptied,
     Registered, StopLeavesNoReader, Workers
<1> QED
  BY <1>1, PortInvariant, PTL

-----------------------------------------------------------------------------
(* Enabled meters are served.                                              *)

\* A reader leaves its loop only when it has been told to.
LeavesWhenTold == \A r \in Workers : rpc[r] \in {"exit", "closed"} => stopEvent[r]

LEMMA LeavesWhenToldStep ==
    ASSUME TypeInv, LeavesWhenTold, [Next]_vars
    PROVE  LeavesWhenTold'
<1> USE DEF TypeInv, TypeOK, ManagerTypeOK, ReaderTypeOK, LeavesWhenTold
<1>1. ASSUME NEW m \in Meters, NEW s \in Slots, StartWorker(m, s)
      PROVE  LeavesWhenTold'
    BY <1>1 DEF StartWorker, Launch, Go, Workers
<1>2. CASE LockHolderStep
  <2>1. ASSUME NEW m \in Meters, HaltWorker(m)
        PROVE  LeavesWhenTold'
    BY <2>1 DEF HaltWorker, SetStop
  <2>2. ASSUME NEW m \in Meters, NEW s \in Slots, StartNext(m, s)
        PROVE  LeavesWhenTold'
    BY <1>1, <2>2 DEF StartNext
  <2> QED
    BY <1>2, <2>1, <2>2 DEF LockHolderStep, Joined, EndUpdate, StopEnd, readerVars
<1>3. ASSUME NEW j \in Jobs, JobStep(j), ~Release(j)
      PROVE  LeavesWhenTold'
    BY <1>3, JobReaders
<1>4. ASSUME NEW j \in Jobs, Release(j)
      PROVE  LeavesWhenTold'
  <2>1. job[j].meter \in Meters
    BY <1>4 DEF Release, ReleaseLeaving, JobRecord, JobsWellFormed
  <2> QED
    BY <1>1, <1>4, <2>1 DEF Release, ReleaseLeaving, readerVars
<1>5. ASSUME NEW r \in Workers, ReaderThread(r)
      PROVE  LeavesWhenTold'
    BY <1>5 DEF ReaderThread, ReaderStep, LoopTest, OpenOk, OpenFails, ReadResults, Deliver,
        ReadNothing, ReadFails, Drop, Exit, ShowConnected, ShowStopped, Go
<1> QED
    BY <1>2, <1>3, <1>4, <1>5
    DEF Next, ApplyBegin, StopBegin, Reserve, ReserveKeeping, vars, readerVars

\* Only the end of a PIN operation that found no reader running can leave an
\* enabled meter without one.
LEMMA ServedStep ==
    ASSUME TypeInv, lock = "stop" => stopped, EnabledMeterServed, [Next]_vars,
           \A j \in Jobs : Release(j) => job[j].wasRunning \/ stopped
    PROVE  EnabledMeterServed'
<1> USE DEF TypeInv, TypeOK, ManagerTypeOK, EnabledMeterServed, Wanted, Registered
<1>1. CASE ApplyBegin \/ StopBegin
    BY <1>1 DEF ApplyBegin, StopBegin
<1>2. CASE LockHolderStep
    BY <1>2 DEF LockHolderStep, HaltWorker, Joined, StartNext, EndUpdate, StopEnd, ToStart,
        managerVars, HaltsRegistered
<1>3. ASSUME NEW j \in Jobs, NEW m \in Meters, Reserve(j, m)
      PROVE  EnabledMeterServed'
    BY <1>3 DEF Reserve, ReserveKeeping
<1>4. ASSUME NEW j \in Jobs, JobStep(j), ~Release(j)
      PROVE  EnabledMeterServed'
    BY <1>4, JobMoves
<1>5. ASSUME NEW j \in Jobs, Release(j)
      PROVE  EnabledMeterServed'
  <2>1. /\ job[j].wasRunning \/ stopped
        /\ job[j].meter \in Meters
        /\ lock = "free" /\ UNCHANGED <<config, stopped>>
        /\ reserved' = reserved \ {job[j].meter}
    BY <1>5 DEF Release, ReleaseLeaving, JobRecord, JobsWellFormed
  <2>2. CASE ~stopped /\ Wanted(job[j].meter)
    <3>1. PICK s \in Slots : StartWorker(job[j].meter, s)
      BY <1>5, <2>1, <2>2 DEF Release, ReleaseLeaving
    <3> QED
      BY <2>1, <3>1, ConstantsAssumption DEF StartWorker
  <2>3. CASE stopped \/ ~Wanted(job[j].meter)
    BY <1>5, <2>1, <2>3 DEF Release, ReleaseLeaving
  <2> QED
    BY <2>2, <2>3
<1>6. ASSUME NEW r \in Workers, ReaderThread(r)
      PROVE  EnabledMeterServed'
    BY <1>6 DEF ReaderThread, managerVars
<1>7. CASE UNCHANGED vars
    BY <1>7 DEF vars, managerVars
<1> QED
    BY <1>1, <1>2, <1>3, <1>4, <1>5, <1>6, <1>7 DEF Next

StopIsMarked == lock = "stop" => stopped

LEMMA StopIsMarkedStep ==
    ASSUME TypeInv, StopIsMarked, [Next]_vars
    PROVE  StopIsMarked'
<1> USE DEF TypeInv, StopIsMarked
<1>1. ASSUME NEW j \in Jobs, JobStep(j)
      PROVE  StopIsMarked'
    BY <1>1, JobMoves DEF Release, ReleaseLeaving
<1> QED
    BY <1>1 DEF Next, ApplyBegin, StopBegin, LockHolderStep, HaltWorker, Joined, StartNext,
        EndUpdate, StopEnd, Reserve, ReserveKeeping, ReaderThread, vars, managerVars

\* The whole of what the run enabled_unserved shows: an enabled meter that had
\* its reader, or was reserved, loses it only when exclusive_transport is left
\* by a job that was entered with no reader running (manager.py:326-335).
THEOREM UnservedByRelease ==
    Spec => [][EnabledMeterServed /\ ~EnabledMeterServed'
                   => \E j \in Jobs : ~job[j].wasRunning /\ Release(j)]_vars
<1>1. Init => StopIsMarked
    BY DEF Init, StopIsMarked
<1>2. TypeInv /\ StopIsMarked /\ [Next]_vars => StopIsMarked'
    BY StopIsMarkedStep
<1>3. TypeInv /\ StopIsMarked /\ [Next]_vars
          => [EnabledMeterServed /\ ~EnabledMeterServed'
                 => \E j \in Jobs : ~job[j].wasRunning /\ Release(j)]_vars
    BY ServedStep DEF StopIsMarked
<1> QED
    BY <1>1, <1>2, <1>3, OwnershipInvariant, PTL DEF Spec

\* Until stop is called, registered readers run and have not been told to stop,
\* and a PIN operation begins by taking such a reader over.
ServesOn ==
    ~stopped =>
        /\ \A m \in Meters : Registered(m) /\ m \notin halting =>
              Live(<<m, workers[m]>>) /\ ~stopEvent[<<m, workers[m]>>]
        /\ \A j \in Jobs : job[j].pc = "halt" =>
              job[j].slot # None /\ Live(Held(j)) /\ ~stopEvent[Held(j)]
        /\ \A j \in Jobs : job[j].pc \notin {"idle", "halt"} => job[j].wasRunning

Serving == StopIsMarked /\ LeavesWhenTold /\ ServesOn /\ EnabledMeterServed

\* A new worker leaves the other readers, and the workers the jobs hold, alone.
LEMMA StartWorkerServes ==
    ASSUME TypeInv, Ownership, ServesOn, NEW m \in Meters, NEW s \in Slots, StartWorker(m, s),
           ~Registered(m), UNCHANGED <<stopped, halting>>,
           \A j \in Jobs : job[j].meter = m => job[j].pc \in {"idle", "release"},
           \A j \in Jobs : job'[j] = job[j] \/ job'[j] = IdleJob
    PROVE  ServesOn'
<1> SUFFICES ASSUME ~stopped
             PROVE  ServesOn'
    BY DEF ServesOn
<1> USE DEF TypeInv, TypeOK, ManagerTypeOK
<1>1. <<m, s>> \in Workers
    BY DEF Workers
<1>2. Launch(<<m, s>>) /\ workers' = [workers EXCEPT ![m] = s]
    BY DEF StartWorker
<1>3. /\ Live(<<m, s>>)' /\ ~stopEvent'[<<m, s>>]
      /\ \A q \in Workers \ {<<m, s>>} : (Live(q)' <=> Live(q)) /\ stopEvent'[q] = stopEvent[q]
    BY <1>1, <1>2, LaunchEffect
<1>4. ASSUME NEW n \in Meters, Registered(n)', n \notin halting
      PROVE  Live(<<n, workers[n]>>)' /\ ~stopEvent'[<<n, workers'[n]>>]
  <2>1. CASE n = m
    BY <2>1, <1>2, <1>3 DEF Live
  <2>2. CASE n # m
    <3>1. Registered(n) /\ workers'[n] = workers[n]
      BY <2>2, <1>2, <1>4 DEF Registered
    <3>2. <<n, workers[n]>> \in Workers \ {<<m, s>>}
      BY <2>2, <3>1 DEF Workers, Registered
    <3> QED
      BY <1>3, <1>4, <3>1, <3>2 DEF ServesOn, Live
  <2> QED
    BY <2>1, <2>2
<1>5. ASSUME NEW j \in Jobs, job'[j].pc = "halt"
      PROVE  job'[j].slot # None /\ Live(Held(j))' /\ ~stopEvent'[Held(j)']
  <2>1. job'[j] = job[j]
    BY <1>5 DEF IdleJob
  <2>2. /\ job[j].slot # None /\ Live(Held(j)) /\ ~stopEvent[Held(j)]
        /\ job[j].meter # m /\ job[j].meter # None
    BY <1>5, <2>1 DEF ServesOn, JobsWellFormed
  <2>3. Held(j) \in Workers \ {<<m, s>>}
    BY <2>2, HeldIsWorker DEF Held
  <2> QED
    BY <1>3, <2>1, <2>2, <2>3 DEF Held, Live
<1>6. ASSUME NEW j \in Jobs, job'[j].pc \notin {"idle", "halt"}
      PROVE  job'[j].wasRunning
    BY <1>6 DEF IdleJob, ServesOn
<1> QED
    BY <1>4, <1>5, <1>6 DEF ServesOn

LEMMA ServesOnStep ==
    ASSUME DisabledConfigs = {}, TypeInv, Ownership, Serving, [Next]_vars
    PROVE  ServesOn'
<1> USE DEF TypeInv, TypeOK, ManagerTypeOK, Serving
<1>0. /\ \A n \in Meters : Registered(n) => <<n, workers[n]>> \in Workers
      /\ \A j \in Jobs : job[j].pc \notin {"idle", "release"} =>
             job[j].meter \in Meters /\ ~Registered(job[j].meter)
    BY DEF Registered, Workers, JobsWellFormed, Ownership, Reservation, ReservedByOneJob,
        ReservedUnregistered, JobRecord
<1>1. CASE ApplyBegin \/ StopBegin
    BY <1>1 DEF ApplyBegin, StopBegin, ServesOn, readerVars, Registered, Live, Held,
        HaltsRegistered
<1>2. CASE LockHolderStep
  <2>1. ASSUME NEW m \in Meters, HaltWorker(m)
        PROVE  ServesOn'
    <3>1. <<m, workers[m]>> \in Workers /\ Registered(m) /\ m \in halting
      BY <1>0, <2>1 DEF HaltWorker, HaltsRegistered
    <3>2. /\ rpc' = rpc /\ UNCHANGED managerVars
          /\ \A q \in Workers \ {<<m, workers[m]>>} : stopEvent'[q] = stopEvent[q]
      BY <2>1, <3>1, SetStopEffect DEF HaltWorker
    <3>3. \A n \in Meters : Registered(n) /\ n \notin halting
              => <<n, workers[n]>> \in Workers \ {<<m, workers[m]>>}
      BY <1>0, <3>1
    <3>4. \A j \in Jobs : job[j].pc = "halt" /\ job[j].slot # None
              => Held(j) \in Workers \ {<<m, workers[m]>>}
      BY <1>0, <3>1, HeldIsWorker DEF Held, JobsWellFormed
    <3> QED
      BY <3>2, <3>3, <3>4 DEF ServesOn, managerVars, Registered, Live, Held
  <2>2. ASSUME NEW m \in Meters, Joined(m)
        PROVE  ServesOn'
    <3>1. CASE lock = "apply"
      BY <2>2, <3>1 DEF Joined, ServesOn, readerVars, Registered, Live, Held
    <3>2. CASE lock = "stop"
      BY <2>2, <3>2 DEF Joined, ServesOn, StopIsMarked
    <3> QED
      BY <2>2, <3>1, <3>2 DEF Joined, HaltsRegistered
  <2>3. ASSUME NEW m \in Meters, NEW s \in Slots, StartNext(m, s)
        PROVE  ServesOn'
    <3>1. /\ StartWorker(m, s) /\ ~Registered(m) /\ UNCHANGED <<stopped, halting, job>>
          /\ m \notin reserved
      BY <2>3 DEF StartNext, ToStart
    <3>2. \A j \in Jobs : job[j].meter = m => job[j].pc \in {"idle", "release"}
      BY <3>1 DEF Ownership, Reservation, ReservedByOneJob
    <3> QED
      BY <3>1, <3>2, StartWorkerServes
  <2>4. CASE EndUpdate \/ StopEnd
    BY <2>4, ConstantsAssumption DEF EndUpdate, StopEnd, ServesOn, readerVars, Registered,
        Live, Held
  <2> QED
    BY <1>2, <2>1, <2>2, <2>3, <2>4 DEF LockHolderStep
<1>3. ASSUME NEW j \in Jobs, NEW m \in Meters, Reserve(j, m)
      PROVE  ServesOn'
  <2>1. /\ m \notin reserved /\ config[m] # None /\ lock = "free"
        /\ UNCHANGED <<readerVars, stopped, halting>>
        /\ workers' = [workers EXCEPT ![m] = None]
        /\ job'[j].pc = "halt" /\ job'[j].meter = m /\ job'[j].slot = workers[m]
        /\ \A i \in Jobs \ {j} : job'[i] = job[i]
    BY <1>3 DEF Reserve, ReserveKeeping
  <2>2. ~stopped => Registered(m) /\ m \notin halting
    BY <2>1 DEF EnabledMeterServed, Wanted, MeterConfigs, HaltsRegistered
  <2>3. ~stopped => job'[j].slot # None /\ Live(Held(j))' /\ ~stopEvent'[Held(j)']
    BY <2>1, <2>2 DEF ServesOn, Registered, Held, Live, readerVars
  <2> QED
    BY <2>1, <2>3 DEF ServesOn, Registered, Held, Live, readerVars
<1>4. ASSUME NEW j \in Jobs, JobStep(j), ~Release(j)
      PROVE  ServesOn'
  <2> SUFFICES ASSUME ~stopped
               PROVE  ServesOn'
    BY <1>4, JobMoves DEF ServesOn
  <2>1. CASE JobHalt(j)
    <3>1. job[j].pc = "halt" /\ job[j].slot # None /\ Held(j) \in Workers /\ Live(Held(j))
      BY <2>1, HeldIsWorker DEF JobHalt, JobsWellFormed, ServesOn
    <3>2. job'[j].pc = "join" /\ job'[j].wasRunning
      BY <2>1, <3>1 DEF JobHalt, JobRecord
    <3>3. /\ rpc' = rpc
          /\ \A q \in Workers \ {Held(j)} : stopEvent'[q] = stopEvent[q]
      BY <2>1, <3>1, SetStopEffect DEF JobHalt
    <3>4. \A n \in Meters : Registered(n) => <<n, workers[n]>> \in Workers \ {Held(j)}
      BY <1>0, <3>1 DEF Held
    <3>5. \A i \in Jobs \ {j} : job[i].pc = "halt" /\ job[i].slot # None
              => Held(i) \in Workers \ {Held(j)}
      BY <1>0, <3>1, HeldIsWorker, ConstantsAssumption
      DEF Held, JobsWellFormed, Ownership, Reservation, ReservedByOneJob
    <3> QED
      BY <1>4, <3>2, <3>3, <3>4, <3>5, JobMoves DEF ServesOn, Registered, Live, Held
  <2>2. CASE ~JobHalt(j)
    <3>1. /\ readerVars' = readerVars \/ OpenPort(j) \/ ClosePort(j)
          /\ job[j].pc # "halt" /\ job'[j].wasRunning = job[j].wasRunning
      BY <1>4, <2>2 DEF JobStep, JobMakesTransport, JobJoined, OpenPort, FinishUse, ClosePort,
          SetJob, JobRecord, ServesOn
    <3>2. rpc' = rpc /\ stopEvent' = stopEvent
      BY <3>1 DEF OpenPort, ClosePort, readerVars
    <3> QED
      BY <1>4, <3>1, <3>2, JobMoves DEF ServesOn, Registered, Live, Held
  <2> QED
    BY <2>1, <2>2
<1>5. ASSUME NEW j \in Jobs, Release(j)
      PROVE  ServesOn'
  <2>1. /\ job[j].pc = "release" /\ job[j].meter \in Meters
        /\ UNCHANGED <<stopped, halting>>
        /\ job'[j] = IdleJob /\ \A i \in Jobs \ {j} : job'[i] = job[i]
    BY <1>5 DEF Release, ReleaseLeaving, JobsWellFormed, JobRecord
  <2>2. /\ ~Registered(job[j].meter)
        /\ \A i \in Jobs : job[i].meter = job[j].meter => i = j
    BY <2>1, ConstantsAssumption
    DEF Ownership, Reservation, ReservedByOneJob, ReservedUnregistered
  <2>3. CASE \E s \in Slots : StartWorker(job[j].meter, s)
    BY <2>1, <2>2, <2>3, StartWorkerServes
  <2>4. CASE UNCHANGED <<readerVars, workers, madeFor>>
    BY <2>1, <2>4 DEF ServesOn, readerVars, Registered, Live, Held, IdleJob
  <2> QED
    BY <1>5, <2>3, <2>4 DEF Release, ReleaseLeaving
<1>6. ASSUME NEW r \in Workers, ReaderThread(r)
      PROVE  ServesOn'
  <2>1. /\ stopEvent' = stopEvent /\ UNCHANGED managerVars
        /\ \A q \in Workers : Live(q) /\ ~stopEvent[q] => Live(q)'
    BY <1>6 DEF ReaderThread, ReaderStep, LoopTest, OpenOk, OpenFails, ReadResults, Deliver,
        ReadNothing, ReadFails, Drop, Exit, ShowConnected, ShowStopped, Go, LeavesWhenTold, Live, ReaderTypeOK
  <2>2. \A i \in Jobs : job[i].pc = "halt" /\ job[i].slot # None => Held(i) \in Workers
    BY HeldIsWorker DEF JobsWellFormed
  <2> QED
    BY <1>0, <2>1, <2>2 DEF ServesOn, managerVars, Registered, Live, Held
<1>7. CASE UNCHANGED vars
    BY <1>7 DEF vars, managerVars, readerVars, ServesOn, Registered, Live, Held
<1> QED
    BY <1>1, <1>2, <1>3, <1>4, <1>5, <1>6, <1>7 DEF Next

\* As long as no meter is ever disabled, every enabled meter that no PIN job
\* holds has its reader, until stop is called: edits, PIN operations and ports
\* that hang do not take it away (manager.py:1, 246-266, 310-335).
THEOREM EnabledServed ==
    ASSUME DisabledConfigs = {}
    PROVE  Spec => []EnabledMeterServed
<1>1. Init => Serving
    BY DEF Init, ReaderInit, Serving, StopIsMarked, LeavesWhenTold, ServesOn,
        EnabledMeterServed, Registered, IdleJob
<1>2. TypeInv /\ Ownership /\ Serving /\ [Next]_vars => Serving'
  <2> SUFFICES ASSUME TypeInv, Ownership, Serving, [Next]_vars
               PROVE  Serving'
    OBVIOUS
  <2>1. \A j \in Jobs : Release(j) => job[j].wasRunning \/ stopped
    BY DEF Serving, ServesOn, Release, ReleaseLeaving
  <2> QED
    BY <2>1, StopIsMarkedStep, LeavesWhenToldStep, ServesOnStep, ServedStep
    DEF Serving, StopIsMarked
<1>3. Serving => EnabledMeterServed
    BY DEF Serving
<1> QED
    BY <1>1, <1>2, <1>3, OwnershipInvariant, PTL DEF Spec

-----------------------------------------------------------------------------
(* A lent port stays open.                                                 *)

LEMMA LentStep ==
    ASSUME SlowCalls = {}, TypeInv, Ownership, Prompt, LentPortStaysOpen, [Next]_vars
    PROVE  LentPortStaysOpen'
<1> USE DEF TypeInv, TypeOK, ManagerTypeOK, ReaderTypeOK, LentPortStaysOpen, Held
<1>1. CASE ApplyBegin \/ StopBegin
  BY <1>1 DEF ApplyBegin, StopBegin, readerVars
<1>2. CASE LockHolderStep
  <2>1. ASSUME NEW m \in Meters, HaltWorker(m) PROVE LentPortStaysOpen'
    BY <2>1 DEF HaltWorker, SetStop, managerVars
  <2>2. ASSUME NEW m \in Meters, Joined(m) PROVE LentPortStaysOpen'
    BY <2>2 DEF Joined, readerVars
  <2>3. ASSUME NEW m \in Meters, NEW s \in Slots, StartNext(m, s) PROVE LentPortStaysOpen'
    <3>1. <<m, s>> \in Workers /\ \A j \in Jobs : ~Holds(j, <<m, s>>)
      BY <2>3 DEF StartNext, StartWorker, Fresh, Workers
    <3> QED
      BY <2>3, <3>1, LaunchEffect, HeldIsWorker, ConstantsAssumption
      DEF StartNext, StartWorker, Holds, JobsWellFormed
  <2>4. CASE EndUpdate \/ StopEnd
    BY <2>4 DEF EndUpdate, StopEnd, readerVars
  <2> QED
    BY <1>2, <2>1, <2>2, <2>3, <2>4 DEF LockHolderStep
<1>3. ASSUME NEW j \in Jobs, NEW m \in Meters, Reserve(j, m) PROVE LentPortStaysOpen'
  BY <1>3 DEF Reserve, ReserveKeeping, readerVars
<1>4. ASSUME NEW j \in Jobs, JobStep(j), ~Release(j) PROVE LentPortStaysOpen'
  <2>1. \A i \in Jobs : job[i].pc = "using" /\ job[i].slot # None => Held(i) \in Workers
    BY HeldIsWorker DEF JobsWellFormed
  <2>2. CASE OpenPort(j)
    <3>1. CASE job'[j].pc = "using"
      <4>1. isOpen' = [r \in Workers |-> isOpen[r] \/ Holds(j, r)]
        BY <2>2, <3>1 DEF OpenPort, SetJob, JobRecord
      <4>2. job'[j].meter = job[j].meter /\ job'[j].slot = job[j].slot /\ job[j].meter # None
        BY <2>2, <1>4, JobMoves DEF OpenPort, JobsWellFormed
      <4>3. job[j].slot # None => Held(j) \in Workers /\ Holds(j, Held(j))
        BY <4>2, HeldIsWorker DEF Holds
      <4>4. \A i \in Jobs \ {j} : job'[i] = job[i]
        BY <1>4, JobMoves
      <4>5. ASSUME NEW i \in Jobs, job'[i].pc = "using", job'[i].slot # None PROVE isOpen'[Held(i)']
        <5>1. CASE i = j
          BY <4>1, <4>2, <4>3, <4>5, <5>1
        <5>2. CASE i # j
          BY <2>1, <4>1, <4>4, <4>5, <5>2
        <5> QED
          BY <5>1, <5>2
      <4> QED
        BY <4>5
    <3>2. CASE job'[j].pc # "using"
      BY <2>1, <2>2, <3>2, JobMoves, <1>4 DEF OpenPort, SetJob, JobRecord
    <3> QED
      BY <3>1, <3>2
  <2>3. CASE ClosePort(j)
    <3>1. job'[j].pc = "release"
      BY <2>3 DEF ClosePort, JobRecord
    <3>2. \A i \in Jobs \ {j} : job[i].pc = "using" => job[i].meter # job[j].meter
      BY <2>3, ConstantsAssumption DEF ClosePort, Ownership, Reservation, ReservedByOneJob, JobsWellFormed
    <3>3. \A i \in Jobs \ {j} : job[i].pc = "using" /\ job[i].slot # None => ~Holds(j, Held(i))
      BY <3>2 DEF Holds
    <3> QED
      BY <2>1, <2>3, <3>1, <3>3, JobMoves, <1>4 DEF ClosePort
  <2>4. CASE ~OpenPort(j) /\ ~ClosePort(j)
    <3>1. isOpen' = isOpen /\ job'[j].pc # "using"
      BY <1>4, <2>4 DEF JobStep, JobHalt, JobMakesTransport, JobJoined, FinishUse, SetJob, SetStop,
         readerVars, JobRecord
    <3> QED
      BY <1>4, <3>1, JobMoves
  <2> QED
    BY <2>2, <2>3, <2>4
<1>5. ASSUME NEW j \in Jobs, Release(j) PROVE LentPortStaysOpen'
  <2>1. /\ job[j].meter \in Meters
        /\ job' = [job EXCEPT ![j] = IdleJob]
        /\ \/ UNCHANGED readerVars
           \/ \E s \in Slots : StartWorker(job[j].meter, s)
    BY <1>5 DEF Release, ReleaseLeaving, JobsWellFormed, JobRecord
  <2>2. \A i \in Jobs : job'[i].pc = "using" => job[i].pc = "using" /\ job'[i] = job[i]
    BY <2>1 DEF IdleJob
  <2>3. ASSUME NEW s \in Slots, StartWorker(job[j].meter, s) PROVE LentPortStaysOpen'
    <3>1. <<job[j].meter, s>> \in Workers /\ \A i \in Jobs : ~Holds(i, <<job[j].meter, s>>)
      BY <2>1, <2>3 DEF StartWorker, Fresh, Workers
    <3> QED
      BY <2>2, <2>3, <3>1, LaunchEffect, HeldIsWorker DEF StartWorker, Holds, JobsWellFormed
  <2> QED
    BY <2>1, <2>2, <2>3 DEF readerVars
<1>6. ASSUME NEW r \in Workers, ReaderThread(r) PROVE LentPortStaysOpen'
  <2>1. Live(r) /\ \A q \in Workers \ {r} : isOpen'[q] = isOpen[q]
    BY <1>6, ReaderStepEffect DEF ReaderThread
  <2>2. ASSUME NEW j \in Jobs, job[j].pc = "using", Held(j) = r PROVE FALSE
    <3>1. r \in PortUsers(r[1]) /\ j \in PortUsers(r[1]) /\ r[1] \in Meters
      BY <2>1, <2>2 DEF PortUsers, UsesPort, Workers
    <3>2. r = j
      BY <3>1, OwnersExclude DEF ExclusiveUse
    <3> QED
      BY <3>2, ConstantsAssumption
  <2> QED
    BY <1>6, <2>1, <2>2, HeldIsWorker DEF ReaderThread, managerVars, JobsWellFormed
<1>7. CASE UNCHANGED vars
  BY <1>7 DEF vars, managerVars, readerVars
<1> QED
  BY <1>1, <1>2, <1>3, <1>4, <1>5, <1>6, <1>7 DEF Next

\* The transport a PIN job took over stays open until the job closes it
\* (manager.py:301-309).
THEOREM LentStaysOpen == ASSUME SlowCalls = {} PROVE Spec => []LentPortStaysOpen
<1>1. Init => LentPortStaysOpen
  BY DEF Init, LentPortStaysOpen, IdleJob
<1>2. TypeInv /\ Ownership /\ Prompt /\ LentPortStaysOpen /\ [Next]_vars => LentPortStaysOpen'
  BY LentStep
<1> QED
  BY <1>1, <1>2, PromptInvariant, PTL DEF Spec

-----------------------------------------------------------------------------
(* What is shown of a registered meter.                                    *)

\* Where the thread of r is says whether its port is open, and whether what r
\* shows of it is true: outside three phases it is.
ShownAt(r) ==
    /\ rpc[r] \in {"open", "closed"} => ~isOpen[r]
    /\ rpc[r] \in {"opened", "read", "deliver"} => isOpen[r]
    /\ rpc[r] = "drop" => rstate[r] = "error"
    /\ rpc[r] \notin {"opened", "drop", "closed"} => ShowsPort(r)

ShownInv == \A m \in Meters : Registered(m) => ShownAt(<<m, workers[m]>>)

LEMMA ShownAtStep ==
    ASSUME ReaderTypeOK, NEW r \in Workers, ShownAt(r), ReaderStep(r)
    PROVE  ShownAt(r)'
<1> USE DEF ReaderTypeOK, ShownAt, ShowsPort, Go
<1>1. CASE LoopTest(r)
  BY <1>1 DEF LoopTest
<1>2. CASE OpenOk(r)
  BY <1>2 DEF OpenOk, PortOpened
<1>3. CASE OpenFails(r)
  BY <1>3 DEF OpenFails
<1>4. CASE ReadResults(r) \/ Deliver(r) \/ ReadNothing(r)
  BY <1>4 DEF ReadResults, Deliver, ReadNothing
<1>5. CASE ReadFails(r)
  BY <1>5 DEF ReadFails
<1>6. CASE Drop(r)
  BY <1>6 DEF Drop, PortClosed
<1>7. CASE Exit(r)
  BY <1>7 DEF Exit, PortClosed
<1>8. CASE ShowConnected(r) \/ ShowStopped(r)
  BY <1>8 DEF ShowConnected, ShowStopped
<1> QED
  BY <1>1, <1>2, <1>3, <1>4, <1>5, <1>6, <1>7, <1>8 DEF ReaderStep

\* A reader thread touches nothing of another worker.
LEMMA ReaderStepLocal ==
    ASSUME ReaderTypeOK, NEW r \in Workers, ReaderStep(r), NEW q \in Workers \ {r}
    PROVE  rpc'[q] = rpc[q] /\ isOpen'[q] = isOpen[q] /\ rstate'[q] = rstate[q]
BY DEF ReaderTypeOK, ReaderStep, LoopTest, OpenOk, PortOpened, OpenFails, ReadResults, Deliver,
   ReadNothing, ReadFails, Drop, Exit, ShowConnected, ShowStopped, PortClosed, Go

LEMMA StartWorkerShows ==
    ASSUME TypeInv, ShownInv, NEW m \in Meters, NEW s \in Slots, StartWorker(m, s), ~Registered(m)
    PROVE  ShownInv'
<1> USE DEF TypeInv, TypeOK, ManagerTypeOK, ReaderTypeOK
<1>1. <<m, s>> \in Workers /\ Launch(<<m, s>>) /\ workers' = [workers EXCEPT ![m] = s]
  BY DEF StartWorker, Workers
<1>2. ShownAt(<<m, s>>)'
  BY <1>1 DEF Launch, Go, PortClosed, ShownAt, ShowsPort
<1>3. \A q \in Workers \ {<<m, s>>} : ShownAt(q) => ShownAt(q)'
  BY <1>1 DEF Launch, Go, PortClosed, ShownAt, ShowsPort
<1>4. ASSUME NEW n \in Meters, Registered(n)' PROVE ShownAt(<<n, workers[n]>>)'
  <2>1. CASE n = m
    BY <1>1, <1>2, <2>1
  <2>2. CASE n # m
    <3>1. workers'[n] = workers[n] /\ <<n, workers[n]>> \in Workers \ {<<m, s>>}
      BY <1>1, <1>4, <2>2 DEF Registered, Workers
    <3>2. ShownAt(<<n, workers[n]>>)
      BY <1>4, <3>1 DEF ShownInv, Registered
    <3>3. rpc'[<<n, workers[n]>>] = rpc[<<n, workers[n]>>]
          /\ isOpen'[<<n, workers[n]>>] = isOpen[<<n, workers[n]>>]
          /\ rstate'[<<n, workers[n]>>] = rstate[<<n, workers[n]>>]
      BY <1>1, <3>1 DEF Launch, Go, PortClosed
    <3> QED
      BY <3>1, <3>2, <3>3 DEF ShownAt, ShowsPort
  <2> QED
    BY <2>1, <2>2
<1> QED
  BY <1>4 DEF ShownInv

LEMMA ShownStep ==
    ASSUME TypeInv, Ownership, ShownInv, [Next]_vars
    PROVE  ShownInv'
<1> USE DEF TypeInv, TypeOK, ManagerTypeOK, ReaderTypeOK
<1>0. ASSUME UNCHANGED <<rpc, isOpen, rstate>>,
             \A m \in Meters : Registered(m)' => workers'[m] = workers[m]
      PROVE  ShownInv'
  BY <1>0 DEF ShownInv, ShownAt, ShowsPort, Registered
<1>1. CASE ApplyBegin \/ StopBegin
  BY <1>0, <1>1 DEF ApplyBegin, StopBegin, readerVars
<1>2. CASE LockHolderStep
  <2>1. ASSUME NEW m \in Meters, HaltWorker(m) PROVE ShownInv'
    BY <1>0, <2>1 DEF HaltWorker, SetStop, managerVars
  <2>2. ASSUME NEW m \in Meters, Joined(m) PROVE ShownInv'
    BY <1>0, <2>2 DEF Joined, readerVars, Registered
  <2>3. ASSUME NEW m \in Meters, NEW s \in Slots, StartNext(m, s) PROVE ShownInv'
    BY <2>3, StartWorkerShows DEF StartNext, ToStart
  <2>4. CASE EndUpdate \/ StopEnd
    BY <1>0, <2>4 DEF EndUpdate, StopEnd, readerVars, Registered
  <2> QED
    BY <1>2, <2>1, <2>2, <2>3, <2>4 DEF LockHolderStep
<1>3. ASSUME NEW j \in Jobs, NEW m \in Meters, Reserve(j, m) PROVE ShownInv'
  BY <1>0, <1>3 DEF Reserve, ReserveKeeping, readerVars, Registered
<1>4. ASSUME NEW j \in Jobs, JobStep(j), ~Release(j) PROVE ShownInv'
  <2>1. workers' = workers
    BY <1>4, JobMoves
  <2>2. CASE OpenPort(j) \/ ClosePort(j)
    <3>1. ASSUME NEW m \in Meters, Registered(m) PROVE ~Holds(j, <<m, workers[m]>>)
      BY <1>4, <2>2, <3>1 DEF OpenPort, ClosePort, Holds, Held, JobsWellFormed, Ownership, Reservation,
         ReservedByOneJob, ReservedUnregistered
    <3>2. ASSUME NEW m \in Meters, Registered(m)
          PROVE  isOpen'[<<m, workers[m]>>] = isOpen[<<m, workers[m]>>]
      <4>1. <<m, workers[m]>> \in Workers
        BY <3>2 DEF Registered, Workers
      <4> QED
        BY <2>2, <3>1, <3>2, <4>1 DEF OpenPort, ClosePort
    <3>3. rpc' = rpc /\ rstate' = rstate
      BY <2>2 DEF OpenPort, ClosePort
    <3> QED
      BY <2>1, <3>2, <3>3 DEF ShownInv, ShownAt, ShowsPort, Registered
  <2>3. CASE ~(OpenPort(j) \/ ClosePort(j))
    BY <1>0, <1>4, <2>1, <2>3
    DEF JobStep, JobHalt, JobMakesTransport, JobJoined, FinishUse, SetStop, readerVars
  <2> QED
    BY <2>2, <2>3
<1>5. ASSUME NEW j \in Jobs, Release(j) PROVE ShownInv'
  <2>1. job[j].meter \in Meters /\ ~Registered(job[j].meter)
    BY <1>5 DEF Release, ReleaseLeaving, JobsWellFormed, JobRecord, Ownership, Reservation,
       ReservedByOneJob, ReservedUnregistered
  <2>2. CASE UNCHANGED <<readerVars, workers, madeFor>>
    BY <1>0, <2>2 DEF readerVars
  <2> QED
    BY <1>5, <2>1, <2>2, StartWorkerShows DEF Release, ReleaseLeaving
<1>6. ASSUME NEW r \in Workers, ReaderThread(r) PROVE ShownInv'
  <2>1. ASSUME NEW m \in Meters, Registered(m) PROVE ShownAt(<<m, workers[m]>>)'
    <3>1. workers' = workers /\ ReaderStep(r) /\ <<m, workers[m]>> \in Workers
      BY <1>6, <2>1 DEF ReaderThread, managerVars, Registered, Workers
    <3>2. ShownAt(<<m, workers[m]>>)
      BY <2>1 DEF ShownInv
    <3>3. CASE r = <<m, workers[m]>>
      <4>1. ShownAt(r)'
        BY <3>1, <3>2, <3>3, ShownAtStep
      <4> QED
        BY <3>1, <3>3, <4>1 DEF ShownAt, ShowsPort
    <3>4. CASE r # <<m, workers[m]>>
      BY <3>1, <3>2, <3>4, ReaderStepLocal DEF ShownAt, ShowsPort
    <3> QED
      BY <3>3, <3>4
  <2> QED
    BY <1>6, <2>1 DEF ReaderThread, managerVars, ShownInv, Registered
<1>7. CASE UNCHANGED vars
  BY <1>0, <1>7 DEF vars, managerVars, readerVars
<1> QED
  BY <1>1, <1>2, <1>3, <1>4, <1>5, <1>6, <1>7 DEF Next

\* A reader that does not show its port as it is shows it so with its next step.
LEMMA ReaderCatchesUp ==
    ASSUME ReaderTypeOK, NEW r \in Workers, ShownAt(r), ~ShowsPort(r), ReaderStep(r)
    PROVE  ShowsPort(r)'
<1>1. rpc[r] \in {"opened", "drop", "closed"}
  BY DEF ShownAt
<1>2. rpc'[r] \notin {"opened", "drop", "closed"}
  BY <1>1 DEF ReaderTypeOK, ReaderStep, LoopTest, OpenOk, OpenFails, ReadResults, Deliver,
     ReadNothing, ReadFails, Drop, Exit, ShowConnected, ShowStopped, Go
<1> QED
  BY <1>2, ShownAtStep DEF ShownAt

\* Only its own steps and its launch, in a free slot, move the thread of a reader.
LEMMA WhoMoves ==
    ASSUME TypeInv, [Next]_vars, NEW r \in Workers, rpc'[r] # rpc[r]
    PROVE  ReaderStep(r) \/ (Launch(r) /\ Fresh(r[1], r[2]))
<1> USE DEF TypeInv, TypeOK, ManagerTypeOK, ReaderTypeOK
<1>1. ASSUME NEW m \in Meters, NEW s \in Slots, StartWorker(m, s)
      PROVE  Launch(r) /\ Fresh(r[1], r[2])
  <2>1. r = <<m, s>>
    BY <1>1 DEF StartWorker, Launch, Go, Workers
  <2>2. r[1] = m /\ r[2] = s
    BY <2>1
  <2> QED
    BY <1>1, <2>1, <2>2 DEF StartWorker
<1>2. CASE LockHolderStep
  BY <1>1, <1>2 DEF LockHolderStep, HaltWorker, SetStop, Joined, StartNext, EndUpdate, StopEnd, readerVars
<1>3. ASSUME NEW j \in Jobs, JobStep(j), ~Release(j)
      PROVE  FALSE
  BY <1>3 DEF JobStep, JobHalt, SetStop, JobMakesTransport, JobJoined, OpenPort, FinishUse, ClosePort, readerVars
<1>4. ASSUME NEW j \in Jobs, Release(j)
      PROVE  Launch(r) /\ Fresh(r[1], r[2])
  <2>1. job[j].meter \in Meters
    BY <1>4 DEF Release, ReleaseLeaving, JobRecord, JobsWellFormed
  <2> QED
    BY <1>1, <1>4, <2>1 DEF Release, ReleaseLeaving, readerVars
<1>5. ASSUME NEW q \in Workers, ReaderThread(q)
      PROVE  ReaderStep(r)
  BY <1>5, ReaderStepLocal DEF ReaderThread
<1> QED
  BY <1>2, <1>3, <1>4, <1>5
  DEF Next, ApplyBegin, StopBegin, Reserve, ReserveKeeping, vars, readerVars

\* What the web page shows of a registered meter lags behind its port by one
\* step of its reader at most, however long the calls of the readers take, and
\* whatever PIN jobs do to ports they have taken (reader.py:85-118).
THEOREM ShownCatchesUp == Spec => ShownStateCatchesUp
<1>1. Init => ShownInv
  BY DEF Init, ShownInv, Registered
<1>2. TypeInv /\ Ownership /\ ShownInv /\ [Next]_vars => ShownInv'
  BY ShownStep
<1>3. ASSUME TypeInv, ShownInv, [Next]_vars, NEW m \in Meters, NEW s \in Slots,
             workers[m] = s, ~ShowsPort(<<m, s>>), rpc'[<<m, s>>] # rpc[<<m, s>>]
      PROVE  ShowsPort(<<m, s>>)'
  <2>1. <<m, s>> \in Workers /\ ShownAt(<<m, s>>)
    BY <1>3, ConstantsAssumption DEF ShownInv, Registered, Workers, ConstantsAssumption
  <2>2. CASE ReaderStep(<<m, s>>)
    BY <1>3, <2>1, <2>2, ReaderCatchesUp DEF TypeInv, TypeOK
  <2>3. CASE Launch(<<m, s>>)
    BY <1>3, <2>1, <2>3 DEF TypeInv, TypeOK, ReaderTypeOK, Launch, Go, PortClosed, ShowsPort
  <2> QED
    BY <1>3, <2>1, <2>2, <2>3, WhoMoves
<1>4. TypeInv /\ ShownInv /\ [Next]_vars =>
         [\A m \in Meters, s \in Slots :
            workers[m] = s /\ ~ShowsPort(<<m, s>>) /\ rpc'[<<m, s>>] # rpc[<<m, s>>] =>
                ShowsPort(<<m, s>>)']_vars
  BY <1>3
<1> QED
  BY <1>1, <1>2, <1>4, OwnershipInvariant, PTL DEF Spec, ShownStateCatchesUp

-----------------------------------------------------------------------------
(* The manager implements the lease.                                       *)

\* A step after which readers and jobs have the same meters moves no port.
LEMMA PortsStay ==
    ASSUME \A m \in Meters : (BusyReader(m)' <=> BusyReader(m)) /\ (BusyJob(m)' <=> BusyJob(m))
    PROVE  portHolder' = portHolder
BY DEF portHolder

\* A step that changes who has the port of m alone moves that port.
LEMMA PortMoves ==
    ASSUME NEW m \in Meters,
           \A n \in Meters \ {m} : (BusyReader(n)' <=> BusyReader(n)) /\ (BusyJob(n)' <=> BusyJob(n))
    PROVE  /\ portHolder' = [portHolder EXCEPT ![m] = portHolder'[m]]
           /\ ~BusyReader(m) /\ ~BusyJob(m) => portHolder[m] = "nobody"
           /\ BusyReader(m) \/ BusyJob(m) => portHolder[m] # "nobody"
           /\ BusyReader(m)' => portHolder'[m] = "reader"
           /\ ~BusyReader(m)' /\ BusyJob(m)' => portHolder'[m] = "pin"
           /\ ~BusyReader(m)' /\ ~BusyJob(m)' => portHolder'[m] = "nobody"
BY DEF portHolder

\* With one user to a port: no second reader, and no job beside a reader.
OneUserEach ==
    \A m \in Meters :
        /\ \A s, t \in Slots : Live(<<m, s>>) /\ Live(<<m, t>>) => s = t
        /\ ~(BusyReader(m) /\ BusyJob(m))

LEMMA OneUser == ExclusiveUse => OneUserEach
<1> SUFFICES ASSUME ExclusiveUse, NEW m \in Meters
             PROVE  /\ \A s, t \in Slots : Live(<<m, s>>) /\ Live(<<m, t>>) => s = t
                    /\ ~(BusyReader(m) /\ BusyJob(m))
  BY DEF OneUserEach
<1>1. ASSUME NEW s \in Slots, Live(<<m, s>>) PROVE <<m, s>> \in Workers /\ <<m, s>> \in PortUsers(m)
  BY <1>1 DEF PortUsers, Workers
<1>2. ASSUME NEW j \in Jobs, job[j].meter = m, UsesPort(j) PROVE j \in PortUsers(m)
  BY <1>2 DEF PortUsers
<1>3. ASSUME NEW s \in Slots, NEW t \in Slots, Live(<<m, s>>), Live(<<m, t>>) PROVE s = t
  <2>1. <<m, s>> = <<m, t>>
    BY <1>1, <1>3 DEF ExclusiveUse
  <2> QED
    BY <2>1
<1>4. ASSUME NEW s \in Slots, Live(<<m, s>>), NEW j \in Jobs, job[j].meter = m, UsesPort(j) PROVE FALSE
  <2>1. <<m, s>> = j
    BY <1>1, <1>2, <1>4 DEF ExclusiveUse
  <2> QED
    BY <1>1, <1>4, <2>1, ConstantsAssumption DEF ConstantsAssumption
<1> QED
  BY <1>3, <1>4 DEF BusyReader, BusyJob

\* A started worker takes a port nobody had.
LEMMA StartWorkerLeases ==
    ASSUME TypeInv, OneUserEach', NEW m \in Meters, NEW s \in Slots, StartWorker(m, s), ~BusyJob(m),
           \A n \in Meters : BusyJob(n)' <=> BusyJob(n), Wanted(m), ~stopped, UNCHANGED <<config, stopped>>
    PROVE  Lease!LeaseNext
<1> USE DEF TypeInv, TypeOK
<1>1. /\ ~Live(<<m, s>>) /\ Live(<<m, s>>)'
      /\ \A q \in Workers \ {<<m, s>>} : Live(q)' <=> Live(q)
  BY LaunchEffect DEF StartWorker, Workers
<1>2. BusyReader(m)' /\ \A n \in Meters \ {m} : BusyReader(n)' <=> BusyReader(n)
  BY <1>1 DEF BusyReader, Workers
<1>3. ~BusyReader(m)
  <2> SUFFICES ASSUME NEW t \in Slots, Live(<<m, t>>) PROVE FALSE
    BY DEF BusyReader
  <2>1. t # s /\ Live(<<m, t>>)'
    BY <1>1 DEF Workers
  <2> QED
    BY <1>1, <2>1 DEF OneUserEach
<1>4. portHolder[m] = "nobody" /\ portHolder' = [portHolder EXCEPT ![m] = "reader"]
  BY <1>2, <1>3, PortMoves
<1>5. Lease!StartReading(m)
  BY <1>4 DEF Lease!StartReading, Wanted
<1> QED
  BY <1>5 DEF Lease!LeaseNext

LEMMA LeaseStep ==
    ASSUME LateEdits = FALSE, PortInv, OneUserEach, OneUserEach', [Next]_vars
    PROVE  [Lease!LeaseNext]_(Lease!leaseVars)
<1> USE DEF PortInv, TypeInv, TypeOK, ManagerTypeOK
<1>0. ASSUME rpc' = rpc,
             \A i \in Jobs : UsesPort(i)' <=> UsesPort(i),
             \A i \in Jobs : UsesPort(i) => job'[i].meter = job[i].meter
      PROVE  portHolder' = portHolder
  <2>1. \A m \in Meters : (BusyReader(m)' <=> BusyReader(m)) /\ (BusyJob(m)' <=> BusyJob(m))
    BY <1>0 DEF BusyReader, BusyJob, Live
  <2> QED
    BY <2>1, PortsStay
<1>1. CASE ApplyBegin
  <2>1. portHolder' = portHolder
    BY <1>0, <1>1 DEF ApplyBegin, readerVars, UsesPort
  <2>2. Lease!Edit
    BY <1>1, <2>1 DEF ApplyBegin, Lease!Edit
  <2> QED
    BY <2>2 DEF Lease!LeaseNext
<1>2. CASE StopBegin
  <2>1. portHolder' = portHolder
    BY <1>0, <1>2 DEF StopBegin, readerVars, UsesPort
  <2>2. Lease!Shutdown
    BY <1>2, <2>1 DEF StopBegin, Lease!Shutdown, Wanted
  <2> QED
    BY <2>2 DEF Lease!LeaseNext
<1>3. CASE LockHolderStep
  <2>1. ASSUME NEW m \in Meters, HaltWorker(m) PROVE UNCHANGED Lease!leaseVars
    <3>1. portHolder' = portHolder
      BY <1>0, <2>1 DEF HaltWorker, SetStop, managerVars, UsesPort
    <3> QED
      BY <2>1, <3>1 DEF HaltWorker, managerVars, Lease!leaseVars, Wanted
  <2>2. ASSUME NEW m \in Meters, Joined(m) PROVE UNCHANGED Lease!leaseVars
    <3>1. portHolder' = portHolder
      BY <1>0, <2>2 DEF Joined, readerVars, UsesPort
    <3> QED
      BY <2>2, <3>1 DEF Joined, Lease!leaseVars, Wanted
  <2>3. ASSUME NEW m \in Meters, NEW s \in Slots, StartNext(m, s) PROVE Lease!LeaseNext
    <3>1. ~BusyJob(m)
      BY <2>3, ConstantsAssumption
      DEF StartNext, ToStart, BusyJob, UsesPort, Ownership, Reservation, ReservedByOneJob
    <3>2. \A n \in Meters : BusyJob(n)' <=> BusyJob(n)
      BY <2>3 DEF StartNext, BusyJob, UsesPort
    <3>3. ~stopped /\ Wanted(m) /\ StartWorker(m, s) /\ UNCHANGED <<config, stopped>>
      BY <2>3 DEF StartNext, ToStart, Emptied
    <3> QED
      BY <3>1, <3>2, <3>3, StartWorkerLeases
  <2>4. CASE EndUpdate \/ StopEnd
    <3>1. portHolder' = portHolder
      BY <1>0, <2>4 DEF EndUpdate, StopEnd, readerVars, UsesPort
    <3> QED
      BY <2>4, <3>1 DEF EndUpdate, StopEnd, Lease!leaseVars, Wanted
  <2> QED
    BY <1>3, <2>1, <2>2, <2>3, <2>4 DEF LockHolderStep
<1>4. ASSUME NEW j \in Jobs, NEW m \in Meters, Reserve(j, m) PROVE UNCHANGED Lease!leaseVars
  <2>1. portHolder' = portHolder
    BY <1>0, <1>4 DEF Reserve, ReserveKeeping, readerVars, UsesPort
  <2> QED
    BY <1>4, <2>1 DEF Reserve, ReserveKeeping, Lease!leaseVars, Wanted
<1>5. ASSUME NEW j \in Jobs, JobStep(j), ~Release(j) PROVE [Lease!LeaseNext]_(Lease!leaseVars)
  <2>1. /\ rpc' = rpc /\ UNCHANGED <<config, stopped>>
        /\ \A i \in Jobs \ {j} : job'[i] = job[i]
        /\ job'[j].meter = job[j].meter /\ job[j].pc # "idle"
    BY <1>5, JobMoves, JobReaders
  <2>2. PICK m \in Meters : m = job[j].meter
    BY <2>1 DEF JobsWellFormed, JobRecord
  <2>3. \A i \in Jobs \ {j} : job[i].meter # m
    BY <2>2, ConstantsAssumption DEF Ownership, Reservation, ReservedByOneJob
  <2>4. UNCHANGED <<{n \in Meters : Wanted(n)}, stopped>>
    BY <2>1 DEF Wanted
  <2>5. CASE UsesPort(j)' <=> UsesPort(j)
    <3>1. portHolder' = portHolder
      BY <1>0, <2>1, <2>5 DEF UsesPort
    <3> QED
      BY <2>4, <3>1 DEF Lease!leaseVars
  <2>6. CASE ~(UsesPort(j)' <=> UsesPort(j))
    <3>1. /\ \A n \in Meters : BusyReader(n)' <=> BusyReader(n)
          /\ \A n \in Meters \ {m} : BusyJob(n)' <=> BusyJob(n)
          /\ BusyJob(m) <=> UsesPort(j)
          /\ BusyJob(m)' <=> UsesPort(j)'
      BY <2>1, <2>2, <2>3 DEF BusyReader, BusyJob, Live, UsesPort
    <3>2. ~BusyReader(m)
      BY <2>6, <3>1 DEF OneUserEach
    <3>3. CASE UsesPort(j)
      <4>1. Lease!GiveBack(m)
        BY <2>4, <2>6, <3>1, <3>2, <3>3, PortMoves DEF Lease!GiveBack
      <4> QED
        BY <4>1 DEF Lease!LeaseNext
    <3>4. CASE ~UsesPort(j)
      <4>1. Lease!Lend(m)
        BY <2>4, <2>6, <3>1, <3>2, <3>4, PortMoves DEF Lease!Lend
      <4> QED
        BY <4>1 DEF Lease!LeaseNext
    <3> QED
      BY <3>3, <3>4
  <2> QED
    BY <2>5, <2>6
<1>6. ASSUME NEW j \in Jobs, Release(j) PROVE [Lease!LeaseNext]_(Lease!leaseVars)
  <2>1. /\ job[j].meter \in Meters /\ job[j].pc = "release" /\ UNCHANGED <<config, stopped>>
        /\ job' = [job EXCEPT ![j] = IdleJob]
    BY <1>6 DEF Release, ReleaseLeaving, JobsWellFormed, JobRecord
  <2>2. /\ \A i \in Jobs : UsesPort(i)' <=> UsesPort(i)
        /\ \A i \in Jobs : UsesPort(i) => job'[i].meter = job[i].meter
    BY <2>1 DEF UsesPort, IdleJob
  <2>3. CASE UNCHANGED <<readerVars, workers, madeFor>>
    <3>1. portHolder' = portHolder
      BY <1>0, <2>2, <2>3 DEF readerVars
    <3> QED
      BY <2>1, <3>1 DEF Lease!leaseVars, Wanted
  <2>4. ASSUME NEW s \in Slots, StartWorker(job[j].meter, s), ~stopped, Wanted(job[j].meter)
        PROVE  Lease!LeaseNext
    <3>1. ~BusyJob(job[j].meter)
      BY <2>1, ConstantsAssumption DEF BusyJob, UsesPort, Ownership, Reservation, ReservedByOneJob
    <3>2. \A n \in Meters : BusyJob(n)' <=> BusyJob(n)
      BY <2>1, <2>2 DEF BusyJob, UsesPort, IdleJob
    <3> QED
      BY <2>1, <2>4, <3>1, <3>2, StartWorkerLeases
  <2> QED
    BY <1>6, <2>3, <2>4 DEF Release, ReleaseLeaving
<1>7. ASSUME NEW r \in Workers, ReaderThread(r) PROVE [Lease!LeaseNext]_(Lease!leaseVars)
  <2>1. /\ Live(r) /\ ReaderStep(r) /\ UNCHANGED <<config, stopped, job>>
        /\ \A q \in Workers \ {r} : rpc'[q] = rpc[q]
    BY <1>7, ReaderStepEffect, ReaderStepLocal DEF ReaderThread, managerVars
  <2>2. PICK m \in Meters, s \in Slots : r = <<m, s>>
    BY DEF Workers
  <2>3. \A n \in Meters : BusyJob(n)' <=> BusyJob(n)
    BY <2>1 DEF BusyJob, UsesPort
  <2>4. \A n \in Meters \ {m} : BusyReader(n)' <=> BusyReader(n)
    BY <2>1, <2>2 DEF BusyReader, Live, Workers
  <2>5. UNCHANGED <<{n \in Meters : Wanted(n)}, stopped>>
    BY <2>1 DEF Wanted
  <2>6. BusyReader(m)
    BY <2>1, <2>2 DEF BusyReader
  <2>7. CASE Live(r)'
    <3>1. BusyReader(m)'
      BY <2>2, <2>7 DEF BusyReader
    <3>2. portHolder' = portHolder
      BY <2>3, <2>4, <2>6, <3>1, PortsStay
    <3> QED
      BY <2>5, <3>2 DEF Lease!leaseVars
  <2>8. CASE ~Live(r)'
    <3>1. ~BusyReader(m)'
      <4> SUFFICES ASSUME NEW t \in Slots, Live(<<m, t>>)' PROVE FALSE
        BY DEF BusyReader
      <4>1. t # s
        BY <2>2, <2>8
      <4>2. Live(<<m, t>>)
        BY <2>1, <2>2, <4>1 DEF Live, Workers
      <4> QED
        BY <2>1, <2>2, <4>1, <4>2 DEF OneUserEach
    <3>2. ~BusyJob(m)
      BY <2>6 DEF OneUserEach
    <3>3. Lease!GiveBack(m)
      BY <2>3, <2>4, <2>5, <2>6, <3>1, <3>2, PortMoves DEF Lease!GiveBack
    <3> QED
      BY <3>3 DEF Lease!LeaseNext
  <2> QED
    BY <2>7, <2>8
<1>8. CASE UNCHANGED vars
  <2>1. portHolder' = portHolder
    BY <1>0, <1>8 DEF vars, managerVars, readerVars, UsesPort
  <2> QED
    BY <1>8, <2>1 DEF vars, managerVars, Lease!leaseVars, Wanted
<1> QED
  BY <1>1, <1>2, <1>3, <1>4, <1>5, <1>6, <1>7, <1>8 DEF Next

\* The manager keeps the promises of PortLease (manager.py:301-335): a port
\* passes from hand to hand only through being free, readers start only while
\* wanted and before stop, and what a PIN job borrows it gives back.
THEOREM LeaseKept ==
    ASSUME SlowCalls = {}, LateEdits = FALSE
    PROVE  Spec => ImplementsLease
<1>1. Init => Lease!LeaseInit
  <2> SUFFICES ASSUME Init PROVE Lease!LeaseInit
    OBVIOUS
  <2>1. \A m \in Meters : ~BusyReader(m) /\ ~BusyJob(m)
    BY DEF Init, ReaderInit, Live, IdleJob, UsesPort, BusyReader, BusyJob, Workers
  <2>2. portHolder = [m \in Meters |-> "nobody"]
    BY <2>1 DEF portHolder
  <2>3. {m \in Meters : Wanted(m)} \in SUBSET Meters /\ stopped = FALSE
    BY DEF Init
  <2> QED
    BY <2>2, <2>3 DEF Lease!LeaseInit
<1>2. PortInv => OneUserEach
  BY OwnersExclude, OneUser DEF PortInv
<1>3. PortInv /\ OneUserEach /\ OneUserEach' /\ [Next]_vars => [Lease!LeaseNext]_(Lease!leaseVars)
  BY LeaseStep
<1> QED
  BY <1>1, <1>2, <1>3, PortInvariant, PTL DEF Spec, ImplementsLease, Lease!LeaseSpec
=============================================================================
