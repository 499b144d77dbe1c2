------------------------------ MODULE PinJobs ------------------------------
(***************************************************************************)
(* The PIN operations of one meter: PinJobManager and PinJob of            *)
(* web/jobs.py, the sweep of BruteforceRunner and the unlock detection of  *)
(* PinController in pin.py.  PinJobManager keeps the meters apart by       *)
(* their ids, so one meter shows all there is.                             *)
(*                                                                         *)
(* What exclusive_transport does while it is entered and left is module    *)
(* MeterManager; here it lets a job in, raises, and ends.  A PIN is a      *)
(* number; the meter's own may lie outside the range a sweep goes through, *)
(* and the range may go beyond the PINs there are.  How the meter comes to *)
(* know a PIN is module PinPulses.                                         *)
(***************************************************************************)
EXTENDS PinPulses

CONSTANTS
    Jobs,        \* PinJob objects (bound)
    Cancels,     \* cancel requests under way at the same time (bound)
    First,       \* BruteforceRunner.start
    Total,       \* progress.total, the length of the range of a sweep (bound)
    PromptMeter, \* does an unlocked meter show it within detect_timeout?
    None         \* no job, no PIN

ASSUME PinAssumption ==
    /\ First \in Nat /\ Total \in Nat
    /\ PromptMeter \in BOOLEAN
    /\ None \notin Jobs \cup Nat

VARIABLES
    current,     \* PinJobManager._jobs[meter_id]
    job,         \* the thread and the runner of each job
    progress,    \* what the status request shows of each job
    cancel,      \* the job each cancel request has looked up
    secret,      \* the meter's PIN
    unlocked     \* the meter shows its detailed registers

\* The candidates of a sweep.
Candidates == First..(First + Total - 1)

vars == <<current, job, progress, cancel, secret, unlocked>>

JobPhases ==
    {"off", "show", "enter", "create", "begin", "test", "try", "detect", "end", "leave", "sent", "failed"}

\* pin is the PIN being entered, if any, answer what try_pin returned, wasOpen whether
\* the meter was unlocked when the job came to it, runner whether PinJob._runner
\* is set, stop the runner's stop event.  ackedAt and heardAt are history: the
\* PINs tried when a cancel request was first answered ok, and when one first
\* reached the runner.
JobRecord == [kind : {"send", "bruteforce"}, pc : JobPhases, pin : Nat \cup {None},
              answer : BOOLEAN, wasOpen : BOOLEAN, runner : BOOLEAN, stop : BOOLEAN,
              ackedAt : Nat \cup {None}, heardAt : Nat \cup {None}]

Progress == [running : BOOLEAN, tried : Nat, found : Nat \cup {None},
             finished : BOOLEAN, cancelled : BOOLEAN, error : BOOLEAN]

NoProgress == [running |-> FALSE, tried |-> 0, found |-> None,
               finished |-> FALSE, cancelled |-> FALSE, error |-> FALSE]

NewJob(kind, pc, pin) == [kind |-> kind, pc |-> pc, pin |-> pin, answer |-> FALSE,
    wasOpen |-> FALSE, runner |-> FALSE, stop |-> FALSE, ackedAt |-> None, heardAt |-> None]

\* An object nobody refers to any more.
Blank == NewJob("send", "off", None)

\* Every variable has its type.
PinTypeOK ==
    /\ current \in Jobs \cup {None}
    /\ job \in [Jobs -> JobRecord]
    /\ progress \in [Jobs -> Progress]
    /\ cancel \in [Cancels -> Jobs \cup {None}]
    /\ secret \in Pins
    /\ unlocked \in BOOLEAN

Init ==
    /\ current = None
    /\ job = [j \in Jobs |-> Blank]
    /\ progress = [j \in Jobs |-> NoProgress]
    /\ cancel = [c \in Cancels |-> None]
    /\ secret \in Pins
    /\ unlocked = FALSE

-----------------------------------------------------------------------------
\* PinJob.running: the thread is alive.
Running(j) == job[j].pc # "off"

Fresh(j) == j # current /\ ~Running(j) /\ \A c \in Cancels : cancel[c] # j

\* Mistake: a job counts as over as soon as its progress says finished.
RejectUnlessFinished == current # None /\ ~progress[current].finished

\* _reject_if_running
Reject == current # None /\ Running(current)

\* Check, create and start under the manager's lock: object j becomes the
\* meter's job and its thread starts in phase pc; the job it replaces, which is
\* over, can no longer be asked about.
Start(j, kind, pc, pin) ==
    /\ ~Reject
    /\ Fresh(j)
    /\ current' = j
    /\ job' = [i \in Jobs |-> IF i = j THEN NewJob(kind, pc, pin)
                              ELSE IF Running(i) THEN job[i] ELSE Blank]
    /\ progress' = [i \in Jobs |-> IF i # j /\ Running(i) THEN progress[i] ELSE NoProgress]
    /\ UNCHANGED <<cancel, secret, unlocked>>

Send(j) == \E pin \in Pins : Start(j, "send", "show", pin)

Bruteforce(j) == Start(j, "bruteforce", "enter", None)

-----------------------------------------------------------------------------
(* The thread of a job.                                                    *)

\* job[j] and progress[j] become r and p.
Update(j, r, p) ==
    /\ job' = [job EXCEPT ![j] = r]
    /\ progress' = [progress EXCEPT ![j] = p]

JobFrame == UNCHANGED <<current, cancel, secret>>

\* _run_send shows a running progress before it enters.
Show(j) ==
    /\ job[j].pc = "show"
    /\ Update(j, [job[j] EXCEPT !.pc = "enter"], [progress[j] EXCEPT !.running = TRUE])
    /\ JobFrame /\ UNCHANGED unlocked

\* exclusive_transport lets the job in, with an open port.
Enter(j) ==
    /\ job[j].pc = "enter"
    /\ Update(j, [job[j] EXCEPT !.pc = IF job[j].kind = "send" THEN "try" ELSE "create",
                                !.wasOpen = unlocked], progress[j])
    /\ JobFrame /\ UNCHANGED unlocked

\* It raises, as the meter is gone or its port cannot be opened; or there is no
\* PinController, as the pulse it is to send is no hexadecimal number.  (Of a send
\* that is PortFails, before a PIN is entered.)
EnterFails(j) ==
    /\ job[j].pc \in {"enter", "create"}
    /\ Update(j, [job[j] EXCEPT !.pc = "failed"], progress[j])
    /\ JobFrame /\ UNCHANGED unlocked

\* The runner object is made and stored, for cancel to find.
Create(j) ==
    /\ job[j].pc = "create"
    /\ Update(j, [job[j] EXCEPT !.pc = "begin", !.runner = TRUE], progress[j])
    /\ JobFrame /\ UNCHANGED unlocked

\* run: the runner's progress is shown from here on.
Begin(j) ==
    /\ job[j].pc = "begin"
    /\ Update(j, [job[j] EXCEPT !.pc = "test"], [progress[j] EXCEPT !.running = TRUE])
    /\ JobFrame /\ UNCHANGED unlocked

\* The head of the sweep's loop: no candidate is left, which ends it without a
\* look at the stop; or it is stopped; or it takes the next candidate.
LoopHead(j, stop) ==
    /\ job[j].pc = "test"
    /\ \/ /\ progress[j].tried >= Total
          /\ Update(j, [job[j] EXCEPT !.pc = "end"], progress[j])
       \/ /\ progress[j].tried < Total /\ stop
          /\ Update(j, [job[j] EXCEPT !.pc = "end"], [progress[j] EXCEPT !.cancelled = TRUE])
       \/ /\ progress[j].tried < Total /\ ~stop
          /\ Update(j, [job[j] EXCEPT !.pc = "try", !.pin = First + progress[j].tried],
                       [progress[j] EXCEPT !.tried = @ + 1])
    /\ JobFrame /\ UNCHANGED unlocked

\* Mistake: the stop is not looked at.
TestIgnoresStop(j) == LoopHead(j, FALSE)

Test(j) == LoopHead(j, job[j].stop)

\* enter_pin: the meter unlocks when it hears its PIN.
Try(j) ==
    /\ job[j].pc = "try"
    /\ Update(j, [job[j] EXCEPT !.pc = "detect"], progress[j])
    /\ unlocked' = (unlocked \/ Heard(EnterPin(ZeroFilled(job[j].pin))) = MetersPin(secret))
    /\ JobFrame

\* Mistake: a candidate that does not unlock the meter is tried again.
AnsweredAgain(j, yes) ==
    IF job[j].kind = "send"
      THEN Update(j, [job[j] EXCEPT !.pc = "leave", !.answer = yes], progress[j])
      ELSE Update(j, [job[j] EXCEPT !.pc = IF yes THEN "end" ELSE "try"],
                     [progress[j] EXCEPT !.found = IF yes THEN job[j].pin ELSE None])

\* Where a job goes once try_pin has answered.
Answered(j, yes) ==
    IF job[j].kind = "send"
      THEN Update(j, [job[j] EXCEPT !.pc = "leave", !.answer = yes], progress[j])
      ELSE Update(j, [job[j] EXCEPT !.pc = IF yes THEN "end" ELSE "test"],
                     [progress[j] EXCEPT !.found = IF yes THEN job[j].pin ELSE None])

\* Mistake: a locked meter that sends the register with value zero counts as open.
DetectPresence(j) ==
    /\ job[j].pc = "detect"
    /\ \/ job[j].stop /\ Answered(j, FALSE)
       \/ Answered(j, TRUE)
    /\ JobFrame /\ UNCHANGED unlocked

\* detect_unlock: a stop cuts it short; an unlocked meter shows in time or, when
\* it is slow, not before the deadline; a locked one never does.
Detect(j) ==
    /\ job[j].pc = "detect"
    /\ \/ job[j].stop /\ Answered(j, FALSE)
       \/ unlocked /\ Answered(j, TRUE)
       \/ ~(unlocked /\ PromptMeter) /\ Answered(j, FALSE)
    /\ JobFrame /\ UNCHANGED unlocked

\* Writing or reading raises.  In a sweep run catches it, in a send _run_send
\* does, after exclusive_transport has been left.
PortFails(j) ==
    /\ job[j].pc \in {"try", "detect"}
    /\ IF job[j].kind = "send"
         THEN Update(j, [job[j] EXCEPT !.pc = "failed"], progress[j])
         ELSE Update(j, [job[j] EXCEPT !.pc = "end"], [progress[j] EXCEPT !.error = TRUE])
    /\ JobFrame /\ UNCHANGED unlocked

\* The finally clause of run.
End(j) ==
    /\ job[j].pc = "end"
    /\ Update(j, [job[j] EXCEPT !.pc = "leave"],
                 [progress[j] EXCEPT !.running = FALSE, !.finished = TRUE])
    /\ JobFrame /\ UNCHANGED unlocked

\* exclusive_transport is left; the thread of a sweep ends here.
Leave(j) ==
    /\ job[j].pc = "leave"
    /\ Update(j, [job[j] EXCEPT !.pc = IF job[j].kind = "send" THEN "sent" ELSE "off"],
                 progress[j])
    /\ JobFrame /\ UNCHANGED unlocked

\* _run_send: the outcome of a send, and its finally clause.
Sent(j) ==
    /\ job[j].pc = "sent"
    /\ Update(j, [job[j] EXCEPT !.pc = "off"],
                 [progress[j] EXCEPT !.found = IF job[j].answer THEN job[j].pin ELSE None,
                                     !.tried = 1, !.running = FALSE, !.finished = TRUE])
    /\ JobFrame /\ UNCHANGED unlocked

\* Mistake: an exception leaves the progress as it was.
FailSilently(j) ==
    /\ job[j].pc = "failed"
    /\ Update(j, [job[j] EXCEPT !.pc = "off"], [progress[j] EXCEPT !.error = TRUE])
    /\ JobFrame /\ UNCHANGED unlocked

\* The except clauses of _run_send and _run_bruteforce, and the finally.
Fail(j) ==
    /\ job[j].pc = "failed"
    /\ Update(j, [job[j] EXCEPT !.pc = "off"],
                 [progress[j] EXCEPT !.error = TRUE, !.running = FALSE, !.finished = TRUE])
    /\ JobFrame /\ UNCHANGED unlocked

JobThread(j) ==
    \/ Show(j) \/ Enter(j) \/ EnterFails(j) \/ Create(j) \/ Begin(j) \/ Test(j) \/ Try(j)
    \/ Detect(j) \/ PortFails(j) \/ End(j) \/ Leave(j) \/ Sent(j) \/ Fail(j)

-----------------------------------------------------------------------------
(* A cancel request, which takes no lock.                                  *)

\* PinJobManager.cancel finds a running sweep.  It will answer ok.
LookUp(c) ==
    /\ cancel[c] = None
    /\ current # None /\ Running(current) /\ job[current].kind = "bruteforce"
    /\ cancel' = [cancel EXCEPT ![c] = current]
    /\ UNCHANGED <<current, job, progress, secret, unlocked>>

Earlier(at, j) == IF at = None THEN progress[j].tried ELSE at

\* PinJob.cancel: the runner, if there is one by now, is told to stop.
Deliver(c) ==
    /\ cancel[c] # None
    /\ LET j == cancel[c]
           acked == [job[j] EXCEPT !.ackedAt = Earlier(@, j)]
       IN job' = [job EXCEPT ![j] =
                    IF ~Running(j) THEN job[j]
                    ELSE IF job[j].runner
                           THEN [acked EXCEPT !.stop = TRUE, !.heardAt = Earlier(@, j)]
                           ELSE acked]
    /\ cancel' = [cancel EXCEPT ![c] = None]
    /\ UNCHANGED <<current, progress, secret, unlocked>>

Next ==
    \/ \E j \in Jobs : Send(j) \/ Bruteforce(j) \/ JobThread(j)
    \/ \E c \in Cancels : LookUp(c) \/ Deliver(c)

\* A job's thread runs, and what it calls returns: every read has a timeout and
\* every wait a deadline.
Spec == Init /\ [][Next]_vars /\ \A j \in Jobs : WF_vars(JobThread(j))

-----------------------------------------------------------------------------
\* At most one PIN job runs for a meter (web/jobs.py:3-4, 101-102): the busy
\* error of exclusive_transport is never what a second request runs into.
OneJobAtATime == \A i, j \in Jobs : Running(i) /\ Running(j) => i = j

\* A job that has ended says so: the page polls until finished is set and only
\* then offers the next operation (web/jobs.py:69-70, 85-87, pin.py:193-196).
EndedIsFinished ==
    current # None /\ ~Running(current) => progress[current].finished /\ ~progress[current].running

\* The PIN a job reports is the meter's PIN, unless the meter was already open
\* when the job came to it.  Holds when an unlocked meter shows it in time.
FoundIsRight ==
    \A j \in Jobs : progress[j].found # None => progress[j].found = secret \/ job[j].wasOpen

\* "PIN not found in range", which the page says of a sweep that is finished and
\* not cancelled (meter.html:192), is true, or wrong in the last candidate alone:
\* a stop that comes while that one is tried cuts it short, and no test of the
\* stop follows (pin.py:94-95, 176-189).
NotFoundIsTrue ==
    \A j \in Jobs :
        /\ job[j].kind = "bruteforce" /\ progress[j].finished /\ ~progress[j].cancelled
        /\ progress[j].found = None /\ ~progress[j].error
        => secret \notin Candidates \/ (job[j].stop /\ secret = First + Total - 1)

\* A cancel request that reaches the runner ends the sweep at the candidate it
\* is trying, or the one it is about to try (pin.py:155-178).
HeardCancelStops ==
    \A j \in Jobs : job[j].heardAt # None => progress[j].tried <= job[j].heardAt + 1

\* A cancel request that was answered ok ends the sweep likewise (docs/API.md:166,
\* web/jobs.py:123-130).  Not so when it comes before the runner is stored.
AcknowledgedCancelStops ==
    \A j \in Jobs : job[j].ackedAt # None => progress[j].tried <= job[j].ackedAt + 1

\* Every job comes to an end, so the next one is not refused for ever.
JobsEnd == \A j \in Jobs : Running(j) ~> ~Running(j)
=============================================================================
