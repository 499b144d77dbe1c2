--------------------------- MODULE MCManagerLive ---------------------------
(***************************************************************************)
(* MeterManager with a bounded number of edits and stops, for liveness.    *)
(* After the last of them the lock is taken only for a moment at a time,   *)
(* by PIN jobs, so weak fairness is all a waiting thread needs; nothing in *)
(* the code makes threading.Lock fair to one that keeps losing it.         *)
(***************************************************************************)
EXTENDS MeterManager, Naturals

CONSTANT MaxUpdates    \* calls of apply_config and stop (bound)

VARIABLE updates

liveVars == <<vars, updates>>

LiveInit == Init /\ updates = 0

LiveNext ==
    \/ (ApplyBegin \/ StopBegin) /\ updates < MaxUpdates /\ updates' = updates + 1
    \/ /\ \/ LockHolderStep
          \/ \E j \in Jobs, m \in Meters : Reserve(j, m)
          \/ \E j \in Jobs : JobStep(j)
          \/ \E r \in Workers : ReaderThread(r)
       /\ UNCHANGED updates

\* A PIN job that is about to call transport.open(), which has no timeout
\* (manager.py:323-324); of a transport that is open already it does not.
OpensPort(j) == job[j].pc = "open" /\ ~(job[j].slot # None /\ isOpen[Held(j)])

\* Threads run and the calls they make return, except that whoever opens a port,
\* reader or PIN job, may hang there for ever.
LiveFairness ==
    /\ WF_liveVars(LockHolderStep /\ UNCHANGED updates)
    /\ \A j \in Jobs : WF_liveVars(~OpensPort(j) /\ JobStep(j) /\ UNCHANGED updates)
    /\ \A r \in Workers : WF_liveVars(rpc[r] # "open" /\ ReaderThread(r) /\ UNCHANGED updates)

LiveSpec == LiveInit /\ [][LiveNext]_liveVars /\ LiveFairness

-----------------------------------------------------------------------------
\* A port that hangs cannot take the manager with it: start, apply_config and
\* stop always come to an end and give the lock back (manager.py:92-96).
LockAlwaysReturns == []<>(lock = "free")

\* A PIN operation releases its meter, whatever becomes of the reader it
\* interrupts, unless its own transport.open() does not return: the reader's
\* join gives up, and once its port is open or has refused nothing stands
\* between the operation and its end (manager.py:318-335).
PinOperationEnds ==
    \A m \in Meters :
        m \in reserved ~> m \notin reserved \/ \E j \in Jobs : job[j].meter = m /\ OpensPort(j)
=============================================================================
