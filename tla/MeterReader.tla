---------------------------- MODULE MeterReader ----------------------------
(***************************************************************************)
(* The reader threads of the gateway: MeterReader.run of reader.py, driven *)
(* by MeterWorker.start and stopped through the worker's stop event.       *)
(*                                                                         *)
(* A reader belongs to one MeterWorker object.  The gateway makes a new    *)
(* object each time it (re)starts a meter, so a reader is named by its     *)
(* meter and by the slot its object occupies; a slot whose thread is over  *)
(* may be taken by a later object of the same meter.                       *)
(*                                                                         *)
(* One step is what the thread does between two points at which another    *)
(* thread can see or change something: the loop test, the call that opens  *)
(* the port and the state shown of it, the read, the callback, the close   *)
(* and the state shown of that.  status() reads the state without a lock,  *)
(* so another thread may look between any two of them.                     *)
(***************************************************************************)
CONSTANTS
    Meters,     \* ids of the meters
    Slots       \* worker objects a meter may have at the same time (bound)

Workers == Meters \X Slots

VARIABLES
    rpc,        \* where the thread of each reader is
    stopEvent,  \* MeterWorker._stop of each worker object
    isOpen,     \* transport.is_open of each worker's transport
    rstate      \* MeterReader._state, what status() shows

readerVars == <<rpc, stopEvent, isOpen, rstate>>

Phases == {"off", "top", "open", "opened", "read", "deliver", "drop", "exit", "closed"}
States == {"stopped", "connecting", "connected", "reading", "error"}

ReaderTypeOK ==
    /\ rpc \in [Workers -> Phases]
    /\ stopEvent \in [Workers -> BOOLEAN]
    /\ isOpen \in [Workers -> BOOLEAN]
    /\ rstate \in [Workers -> States]

\* thread.is_alive()
Live(r) == rpc[r] # "off"

\* A slot that no object uses looks like one whose reader has finished.
ReaderInit ==
    /\ rpc = [r \in Workers |-> "off"]
    /\ stopEvent = [r \in Workers |-> TRUE]
    /\ isOpen = [r \in Workers |-> FALSE]
    /\ rstate = [r \in Workers |-> "stopped"]

-----------------------------------------------------------------------------
\* The thread moves on, having shown state s.
Go(r, phase, s) ==
    /\ rpc' = [rpc EXCEPT ![r] = phase]
    /\ rstate' = [rstate EXCEPT ![r] = s]

\* SerialTransport.open, on a device or a URL: when it raises, nothing is open.
PortOpened(r) == [isOpen EXCEPT ![r] = TRUE]

\* SerialTransport.close: the port is given up even when closing it raises.
PortClosed(r) == [isOpen EXCEPT ![r] = FALSE]

\* A new worker object with a closed transport, and its thread started.
Launch(r) ==
    /\ ~Live(r)
    /\ Go(r, "top", "connecting")
    /\ stopEvent' = [stopEvent EXCEPT ![r] = FALSE]
    /\ isOpen' = PortClosed(r)

\* The first half of MeterWorker.stop: the join that follows is the caller's.
SetStop(r) ==
    /\ stopEvent' = [stopEvent EXCEPT ![r] = TRUE]
    /\ UNCHANGED <<rpc, isOpen, rstate>>

\* Mistake: the loop never looks at the stop event.
LoopTestIgnoresStop(r) ==
    /\ rpc[r] = "top"
    /\ Go(r, IF isOpen[r] THEN "read" ELSE "open", rstate[r])
    /\ UNCHANGED <<stopEvent, isOpen>>

LoopTest(r) ==
    /\ rpc[r] = "top"
    /\ \/ stopEvent[r] /\ Go(r, "exit", rstate[r])
       \/ ~stopEvent[r] /\ isOpen[r] /\ Go(r, "read", rstate[r])
       \/ ~stopEvent[r] /\ ~isOpen[r] /\ Go(r, "open", rstate[r])
    /\ UNCHANGED <<stopEvent, isOpen>>

OpenOk(r) ==
    /\ rpc[r] = "open"
    /\ Go(r, "opened", rstate[r])
    /\ isOpen' = PortOpened(r)
    /\ UNCHANGED stopEvent

\* _set_state("connected"), once open has returned.
ShowConnected(r) ==
    /\ rpc[r] = "opened"
    /\ Go(r, "read", "connected")
    /\ UNCHANGED <<stopEvent, isOpen>>

\* Mistake: a port that is missing ends the reader, as in the legacy gateway.
OpenFailsForGood(r) ==
    /\ rpc[r] = "open"
    /\ Go(r, "exit", "error")
    /\ UNCHANGED <<stopEvent, isOpen>>

\* The error is shown, the thread waits for reconnect_delay or the stop event.
OpenFails(r) ==
    /\ rpc[r] = "open"
    /\ Go(r, "top", "error")
    /\ UNCHANGED <<stopEvent, isOpen>>

\* A chunk that completes at least one result; the callback comes next.
ReadResults(r) ==
    /\ rpc[r] = "read" /\ isOpen[r]
    /\ Go(r, "deliver", rstate[r])
    /\ UNCHANGED <<stopEvent, isOpen>>

\* The callback's exceptions are caught, so delivery always comes to an end.
Deliver(r) ==
    /\ rpc[r] = "deliver"
    /\ Go(r, "top", "reading")
    /\ UNCHANGED <<stopEvent, isOpen>>

\* Nothing arrived, or nothing complete: the state shown stays what it was.
ReadNothing(r) ==
    /\ rpc[r] = "read" /\ isOpen[r]
    /\ Go(r, "top", rstate[r])
    /\ UNCHANGED <<stopEvent, isOpen>>

\* The read raises; reading a transport another thread has closed raises too.
ReadFails(r) ==
    /\ rpc[r] = "read"
    /\ Go(r, "drop", "error")
    /\ UNCHANGED <<stopEvent, isOpen>>

\* Mistake: the transport is not closed before the next round.
DropKeepsPort(r) ==
    /\ rpc[r] = "drop"
    /\ Go(r, "top", rstate[r])
    /\ UNCHANGED <<stopEvent, isOpen>>

\* The port is closed so that the next round opens it afresh.
Drop(r) ==
    /\ rpc[r] = "drop"
    /\ Go(r, "top", rstate[r])
    /\ isOpen' = PortClosed(r)
    /\ UNCHANGED stopEvent

Exit(r) ==
    /\ rpc[r] = "exit"
    /\ Go(r, "closed", rstate[r])
    /\ isOpen' = PortClosed(r)
    /\ UNCHANGED stopEvent

\* _set_state("stopped"), in the finally clause of the close.
ShowStopped(r) ==
    /\ rpc[r] = "closed"
    /\ Go(r, "off", "stopped")
    /\ UNCHANGED <<stopEvent, isOpen>>

ReaderStep(r) ==
    \/ LoopTest(r) \/ OpenOk(r) \/ ShowConnected(r) \/ OpenFails(r)
    \/ ReadResults(r) \/ Deliver(r) \/ ReadNothing(r)
    \/ ReadFails(r) \/ Drop(r) \/ Exit(r) \/ ShowStopped(r)

-----------------------------------------------------------------------------
(* The readers on their own: whoever owns a worker starts and stops it.    *)
ReaderNext ==
    \E r \in Workers :
        \/ Launch(r)
        \/ Live(r) /\ SetStop(r)
        \/ ReaderStep(r)

\* A thread that can run does run, and the calls it makes return.
ThreadsRun == \A r \in Workers : WF_readerVars(ReaderStep(r))

\* A port tried again and again opens some time, and a meter listened to
\* again and again sends a complete message some time.
PortsRecover == \A r \in Workers : SF_readerVars(OpenOk(r)) /\ SF_readerVars(ReadResults(r))

ReaderSpec == ReaderInit /\ [][ReaderNext]_readerVars /\ ThreadsRun /\ PortsRecover

-----------------------------------------------------------------------------
\* A reader that is told to stop comes to its end, whatever it was doing.
StopsWhenTold == \A r \in Workers : stopEvent[r] ~> ~Live(r)

\* A port missing at start, or lost later, is retried for as long as the
\* reader is wanted: readings come again (reader.py:5-7).
ReadsAgain == \A r \in Workers : Live(r) ~> (rpc[r] = "deliver" \/ stopEvent[r])
=============================================================================
