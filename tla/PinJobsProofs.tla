--------------------------- MODULE PinJobsProofs ---------------------------
(***************************************************************************)
(* What PinJobs promises, for every number of job objects, cancel requests *)
(* and candidates.                                                         *)
(***************************************************************************)
EXTENDS PinJobs, Recursion

\* What a job is at some place of its thread: a send never has a runner, a PIN
\* is set before it is entered, the finally of a sweep comes before its end, and
\* a sweep that was told to stop takes no further candidate.
JobOK(r, p) ==
    /\ r.kind = "send" => r.pc \notin {"create", "begin", "test", "end"} /\ ~r.runner
    /\ r.kind = "bruteforce" => r.pc \notin {"show", "sent"}
    /\ r.kind = "send" /\ r.pc # "off" => r.pin # None
    /\ r.pc \in {"try", "detect"} => r.pin # None
    /\ r.kind = "bruteforce" /\ r.pc = "leave" => p.finished /\ ~p.running
    /\ r.heardAt # None => r.stop /\ r.runner /\ p.tried <= r.heardAt

TypeInv == PinTypeOK /\ \A j \in Jobs : JobOK(job[j], progress[j])

LEMMA Updated ==
    ASSUME PinTypeOK, NEW j \in Jobs, NEW r, NEW p, Update(j, r, p)
    PROVE  /\ job'[j] = r /\ progress'[j] = p
           /\ \A i \in Jobs \ {j} : job'[i] = job[i] /\ progress'[i] = progress[i]
           /\ r \in JobRecord /\ p \in Progress =>
                  job' \in [Jobs -> JobRecord] /\ progress' \in [Jobs -> Progress]
  BY DEF PinTypeOK, Update

\* A step of its thread makes r and p of job j and its progress.
Leads(j, r, p) ==
    /\ r \in JobRecord /\ p \in Progress /\ JobOK(r, p)
    /\ Update(j, r, p)
    /\ r.kind = job[j].kind
    /\ r.pc = "off" => p.finished /\ ~p.running

LEMMA ThreadLeads ==
    ASSUME TypeInv, NEW j \in Jobs, JobThread(j)
    PROVE  \E r, p : Leads(j, r, p)
<1>j. job[j] \in JobRecord /\ progress[j] \in Progress /\ JobOK(job[j], progress[j]) /\ unlocked \in BOOLEAN
  BY DEF TypeInv, PinTypeOK
<1>n. First \in Nat /\ Total \in Nat /\ None \notin Jobs \cup Nat
  BY PinAssumption DEF PinAssumption
<1> USE <1>j, <1>n DEF JobRecord, JobPhases, Progress, JobOK
<1>1. CASE Show(j)
  <2> DEFINE r == [job[j] EXCEPT !.pc = "enter"]
           p == [progress[j] EXCEPT !.running = TRUE]
  <2>1. Update(j, r, p)
    BY <1>1 DEF Show
  <2>2. Leads(j, r, p)
    BY <1>1, <2>1 DEF Show, Leads
  <2> QED
    BY <2>2
<1>2. CASE Enter(j)
  <2>1. CASE job[j].kind = "send"
    <3> DEFINE r == [job[j] EXCEPT !.pc = "try", !.wasOpen = unlocked]
             p == progress[j]
    <3>1. Update(j, r, p)
      BY <1>2, <2>1 DEF Enter
    <3>2. Leads(j, r, p)
      BY <1>2, <2>1, <3>1 DEF Enter, Leads
    <3> QED
      BY <3>2
  <2>2. CASE job[j].kind # "send"
    <3> DEFINE r == [job[j] EXCEPT !.pc = "create", !.wasOpen = unlocked]
             p == progress[j]
    <3>1. Update(j, r, p)
      BY <1>2, <2>2 DEF Enter
    <3>2. Leads(j, r, p)
      BY <1>2, <2>2, <3>1 DEF Enter, Leads
    <3> QED
      BY <3>2
  <2> QED
    BY <2>1, <2>2
<1>3. CASE EnterFails(j)
  <2> DEFINE r == [job[j] EXCEPT !.pc = "failed"]
           p == progress[j]
  <2>1. Update(j, r, p)
    BY <1>3 DEF EnterFails
  <2>2. Leads(j, r, p)
    BY <1>3, <2>1 DEF EnterFails, Leads
  <2> QED
    BY <2>2
<1>4. CASE Create(j)
  <2> DEFINE r == [job[j] EXCEPT !.pc = "begin", !.runner = TRUE]
           p == progress[j]
  <2>1. Update(j, r, p)
    BY <1>4 DEF Create
  <2>2. Leads(j, r, p)
    BY <1>4, <2>1 DEF Create, Leads
  <2> QED
    BY <2>2
<1>5. CASE Begin(j)
  <2> DEFINE r == [job[j] EXCEPT !.pc = "test"]
           p == [progress[j] EXCEPT !.running = TRUE]
  <2>1. Update(j, r, p)
    BY <1>5 DEF Begin
  <2>2. Leads(j, r, p)
    BY <1>5, <2>1 DEF Begin, Leads
  <2> QED
    BY <2>2
<1>6. CASE Test(j)
  <2>1. CASE progress[j].tried >= Total
    <3> DEFINE r == [job[j] EXCEPT !.pc = "end"]
             p == progress[j]
    <3>1. Update(j, r, p)
      BY <1>6, <2>1 DEF Test, LoopHead
    <3>2. Leads(j, r, p)
      BY <1>6, <2>1, <3>1 DEF Test, LoopHead, Leads
    <3> QED
      BY <3>2
  <2>2. CASE progress[j].tried < Total /\ job[j].stop
    <3> DEFINE r == [job[j] EXCEPT !.pc = "end"]
             p == [progress[j] EXCEPT !.cancelled = TRUE]
    <3>1. Update(j, r, p)
      BY <1>6, <2>2 DEF Test, LoopHead
    <3>2. Leads(j, r, p)
      BY <1>6, <2>2, <3>1 DEF Test, LoopHead, Leads
    <3> QED
      BY <3>2
  <2>3. CASE progress[j].tried < Total /\ ~job[j].stop
    <3> DEFINE r == [job[j] EXCEPT !.pc = "try", !.pin = First + progress[j].tried]
             p == [progress[j] EXCEPT !.tried = progress[j].tried + 1]
    <3>1. Update(j, r, p)
      BY <1>6, <2>3 DEF Test, LoopHead
    <3>2. /\ job[j].heardAt = None
          /\ progress[j].tried + 1 \in Nat
          /\ First + progress[j].tried \in Nat
      BY <2>3
    <3>3. p \in Progress
      BY <3>2
    <3>4. r \in JobRecord
      BY <3>2
    <3>5. JobOK(r, p)
      BY <1>6, <3>2 DEF Test, LoopHead
    <3> QED
      BY <3>1, <3>3, <3>4, <3>5 DEF Leads
  <2> QED
    BY <2>1, <2>2, <2>3
<1>7. CASE Try(j)
  <2> DEFINE r == [job[j] EXCEPT !.pc = "detect"]
           p == progress[j]
  <2>1. Update(j, r, p)
    BY <1>7 DEF Try
  <2>2. Leads(j, r, p)
    BY <1>7, <2>1 DEF Try, Leads
  <2> QED
    BY <2>2
<1>8. CASE Detect(j)
  <2>1. PICK yes \in BOOLEAN : Answered(j, yes)
    BY <1>8 DEF Detect
  <2>2. job[j].pc = "detect"
    BY <1>8 DEF Detect
  <2>3. CASE job[j].kind = "send"
    <3> DEFINE r == [job[j] EXCEPT !.pc = "leave", !.answer = yes]
             p == progress[j]
    <3>1. Update(j, r, p)
      BY <2>1, <2>2, <2>3 DEF Answered
    <3>2. Leads(j, r, p)
      BY <2>1, <2>2, <2>3, <3>1 DEF Answered, Leads
    <3> QED
      BY <3>2
  <2>4. CASE job[j].kind # "send"
    <3> DEFINE r == [job[j] EXCEPT !.pc = IF yes THEN "end" ELSE "test"]
             p == [progress[j] EXCEPT !.found = IF yes THEN job[j].pin ELSE None]
    <3>1. Update(j, r, p)
      BY <2>1, <2>2, <2>4 DEF Answered
    <3>2. Leads(j, r, p)
      BY <2>1, <2>2, <2>4, <3>1 DEF Answered, Leads
    <3> QED
      BY <3>2
  <2> QED
    BY <2>3, <2>4
<1>9. CASE PortFails(j)
  <2>1. CASE job[j].kind = "send"
    <3> DEFINE r == [job[j] EXCEPT !.pc = "failed"]
             p == progress[j]
    <3>1. Update(j, r, p)
      BY <1>9, <2>1 DEF PortFails
    <3>2. Leads(j, r, p)
      BY <1>9, <2>1, <3>1 DEF PortFails, Leads
    <3> QED
      BY <3>2
  <2>2. CASE job[j].kind # "send"
    <3> DEFINE r == [job[j] EXCEPT !.pc = "end"]
             p == [progress[j] EXCEPT !.error = TRUE]
    <3>1. Update(j, r, p)
      BY <1>9, <2>2 DEF PortFails
    <3>2. Leads(j, r, p)
      BY <1>9, <2>2, <3>1 DEF PortFails, Leads
    <3> QED
      BY <3>2
  <2> QED
    BY <2>1, <2>2
<1>10. CASE End(j)
  <2> DEFINE r == [job[j] EXCEPT !.pc = "leave"]
           p == [progress[j] EXCEPT !.running = FALSE, !.finished = TRUE]
  <2>1. Update(j, r, p)
    BY <1>10 DEF End
  <2>2. Leads(j, r, p)
    BY <1>10, <2>1 DEF End, Leads
  <2> QED
    BY <2>2
<1>11. CASE Leave(j)
  <2>1. CASE job[j].kind = "send"
    <3> DEFINE r == [job[j] EXCEPT !.pc = "sent"]
             p == progress[j]
    <3>1. Update(j, r, p)
      BY <1>11, <2>1 DEF Leave
    <3>2. Leads(j, r, p)
      BY <1>11, <2>1, <3>1 DEF Leave, Leads
    <3> QED
      BY <3>2
  <2>2. CASE job[j].kind # "send"
    <3> DEFINE r == [job[j] EXCEPT !.pc = "off"]
             p == progress[j]
    <3>1. Update(j, r, p)
      BY <1>11, <2>2 DEF Leave
    <3>2. Leads(j, r, p)
      BY <1>11, <2>2, <3>1 DEF Leave, Leads
    <3> QED
      BY <3>2
  <2> QED
    BY <2>1, <2>2
<1>12. CASE Sent(j)
  <2> DEFINE found == IF job[j].answer THEN job[j].pin ELSE None
             r == [job[j] EXCEPT !.pc = "off"]
             p == [progress[j] EXCEPT !.found = found, !.tried = 1, !.running = FALSE, !.finished = TRUE]
  <2>1. Update(j, r, p)
    BY <1>12 DEF Sent
  <2>2. job[j].pc = "sent"
    BY <1>12 DEF Sent
  <2>3. job[j].kind = "send"
    BY <2>2
  <2>4. job[j].pin # None /\ job[j].heardAt = None
    BY <2>2, <2>3
  <2>5. found \in Nat \cup {None}
    BY <2>4
  <2>6. p \in Progress
    <3> HIDE DEF found
    <3> QED
      BY <2>5
  <2>7. r \in JobRecord
    OBVIOUS
  <2>8. JobOK(r, p)
    BY <2>3, <2>4
  <2>9. r.kind = job[j].kind /\ p.finished /\ ~p.running
    OBVIOUS
  <2>10. Leads(j, r, p)
    <3> HIDE DEF r, p, JobRecord, Progress, JobOK
    <3> QED
      BY <2>1, <2>6, <2>7, <2>8, <2>9 DEF Leads
  <2> QED
    BY <2>10
<1>13. CASE Fail(j)
  <2> DEFINE r == [job[j] EXCEPT !.pc = "off"]
           p == [progress[j] EXCEPT !.error = TRUE, !.running = FALSE, !.finished = TRUE]
  <2>1. Update(j, r, p)
    BY <1>13 DEF Fail
  <2>2. Leads(j, r, p)
    BY <1>13, <2>1 DEF Fail, Leads
  <2> QED
    BY <2>2
<1> QED
  BY <1>1, <1>2, <1>3, <1>4, <1>5, <1>6, <1>7, <1>8, <1>9, <1>10, <1>11, <1>12, <1>13 DEF JobThread

\* What a thread leaves alone.
LEMMA ThreadFrame ==
    ASSUME NEW j \in Jobs, PinTypeOK, JobThread(j)
    PROVE  /\ Running(j)
           /\ current' = current /\ cancel' = cancel /\ secret' = secret
           /\ unlocked' \in BOOLEAN
  BY DEF JobThread, Show, Enter, EnterFails, Create, Begin, Test, LoopHead, Try, Detect, PortFails, End,
     Leave, Sent, Fail, JobFrame, Running, PinTypeOK

-----------------------------------------------------------------------------
(* Types.                                                                  *)

LEMMA NewJobOK ==
    ASSUME NEW pin \in Pins
    PROVE  /\ NewJob("send", "show", pin) \in JobRecord /\ JobOK(NewJob("send", "show", pin), NoProgress)
           /\ NewJob("bruteforce", "enter", None) \in JobRecord
           /\ JobOK(NewJob("bruteforce", "enter", None), NoProgress)
           /\ Blank \in JobRecord /\ JobOK(Blank, NoProgress)
           /\ NoProgress \in Progress
<1>1. pin \in Nat /\ pin # None
  BY PinAssumption DEF PinAssumption, Pins
<1> QED
  BY <1>1 DEF NewJob, JobRecord, JobPhases, JobOK, NoProgress, Blank, Progress

LEMMA SomePin == 0 \in Pins
BY PowerPositive, PulsesAssumption DEF PulsesAssumption, Pins

LEMMA StartTypes ==
    ASSUME TypeInv, NEW j \in Jobs, NEW kind, NEW pc, NEW pin, Start(j, kind, pc, pin),
           NewJob(kind, pc, pin) \in JobRecord, JobOK(NewJob(kind, pc, pin), NoProgress)
    PROVE  TypeInv'
<1>1. Blank \in JobRecord /\ JobOK(Blank, NoProgress) /\ NoProgress \in Progress
  BY SomePin, NewJobOK
<1>2. ASSUME NEW i \in Jobs
      PROVE  job'[i] \in JobRecord /\ progress'[i] \in Progress /\ JobOK(job'[i], progress'[i])
  BY <1>1 DEF Start, TypeInv, PinTypeOK
<1>3. job' \in [Jobs -> JobRecord] /\ progress' \in [Jobs -> Progress]
  BY <1>2 DEF Start
<1> QED
  BY <1>2, <1>3 DEF Start, TypeInv, PinTypeOK

LEMMA DeliverTypes ==
    ASSUME TypeInv, NEW c \in Cancels, Deliver(c)
    PROVE  TypeInv'
<1> DEFINE j == cancel[c]
           at(x) == Earlier(x, j)
<1>1. j \in Jobs /\ cancel' \in [Cancels -> Jobs \cup {None}]
  BY DEF Deliver, TypeInv, PinTypeOK
<1>2. job[j] \in JobRecord /\ progress[j] \in Progress /\ JobOK(job[j], progress[j])
  BY <1>1 DEF TypeInv, PinTypeOK
<1>3. \A x \in Nat \cup {None} :
        /\ at(x) \in Nat
        /\ x = None => at(x) = progress[j].tried
        /\ x # None => at(x) = x
  BY <1>2 DEF Earlier, Progress
<1>4. job'[j] \in JobRecord /\ JobOK(job'[j], progress[j])
  <2>1. CASE ~Running(j)
    BY <1>1, <1>2, <2>1 DEF Deliver, TypeInv, PinTypeOK
  <2>2. CASE Running(j) /\ ~job[j].runner
    <3> HIDE DEF at
    <3>1. job'[j] = [job[j] EXCEPT !.ackedAt = at(job[j].ackedAt)]
      BY <1>1, <2>2 DEF Deliver, TypeInv, PinTypeOK, at
    <3>2. job[j].ackedAt \in Nat \cup {None}
      BY <1>2 DEF JobRecord
    <3>3. at(job[j].ackedAt) \in Nat \cup {None}
      BY <1>3, <3>2
    <3> QED
      BY <1>2, <3>1, <3>3 DEF JobRecord, JobOK
  <2>3. CASE Running(j) /\ job[j].runner
    <3> HIDE DEF at
    <3>1. job'[j] = [job[j] EXCEPT !.ackedAt = at(job[j].ackedAt), !.stop = TRUE,
                                   !.heardAt = at(job[j].heardAt)]
      BY <1>1, <1>2, <2>3 DEF Deliver, TypeInv, PinTypeOK, at, JobRecord
    <3>2. job[j].ackedAt \in Nat \cup {None} /\ job[j].heardAt \in Nat \cup {None}
      BY <1>2 DEF JobRecord
    <3>3. at(job[j].ackedAt) \in Nat \cup {None} /\ at(job[j].heardAt) \in Nat \cup {None}
      BY <1>3, <3>2
    <3>4. progress[j].tried \in Nat /\ progress[j].tried <= at(job[j].heardAt)
      <4>1. None \notin Nat
        BY PinAssumption DEF PinAssumption
      <4>2. progress[j].tried \in Nat
        BY <1>2, <4>1 DEF Progress
      <4>3. job[j].heardAt # None => progress[j].tried <= job[j].heardAt
        BY <1>2 DEF JobOK
      <4>4. CASE job[j].heardAt = None
        <5>1. at(job[j].heardAt) = progress[j].tried
          BY <1>3, <3>2, <4>4
        <5> QED
          BY <4>2, <5>1
      <4>5. CASE job[j].heardAt # None
        <5>1. at(job[j].heardAt) = job[j].heardAt
          BY <1>3, <3>2, <4>5
        <5> QED
          BY <4>2, <4>3, <4>5, <5>1
      <4> QED
        BY <4>4, <4>5
    <3> QED
      BY <1>2, <2>3, <3>1, <3>3, <3>4 DEF JobRecord, JobOK
  <2> QED
    BY <2>1, <2>2, <2>3
<1>5. \A i \in Jobs \ {j} : job'[i] = job[i]
  BY <1>1 DEF Deliver, TypeInv, PinTypeOK
<1>6. job' \in [Jobs -> JobRecord]
  BY <1>1, <1>4, <1>5 DEF Deliver, TypeInv, PinTypeOK
<1> QED
  BY <1>1, <1>4, <1>5, <1>6 DEF Deliver, TypeInv, PinTypeOK

LEMMA ThreadTypes ==
    ASSUME TypeInv, NEW j \in Jobs, JobThread(j)
    PROVE  TypeInv'
<1>1. PICK r, p : Leads(j, r, p)
  BY ThreadLeads
<1>2. /\ job'[j] = r /\ progress'[j] = p
      /\ \A i \in Jobs \ {j} : job'[i] = job[i] /\ progress'[i] = progress[i]
      /\ job' \in [Jobs -> JobRecord] /\ progress' \in [Jobs -> Progress]
  BY <1>1, Updated DEF Leads, TypeInv
<1> QED
  BY <1>1, <1>2, ThreadFrame DEF Leads, TypeInv, PinTypeOK

LEMMA TypeInit == Init => TypeInv
<1> SUFFICES ASSUME Init PROVE TypeInv
  OBVIOUS
<1>1. Blank \in JobRecord /\ JobOK(Blank, NoProgress) /\ NoProgress \in Progress
  BY SomePin, NewJobOK
<1> QED
  BY <1>1 DEF Init, TypeInv, PinTypeOK

LEMMA TypeStep == TypeInv /\ [Next]_vars => TypeInv'
<1> SUFFICES ASSUME TypeInv, [Next]_vars PROVE TypeInv'
  OBVIOUS
<1>1. ASSUME NEW j \in Jobs, Send(j) PROVE TypeInv'
  <2>1. PICK pin \in Pins : Start(j, "send", "show", pin)
    BY <1>1 DEF Send
  <2> QED
    BY <2>1, StartTypes, NewJobOK
<1>2. ASSUME NEW j \in Jobs, Bruteforce(j) PROVE TypeInv'
  BY <1>2, SomePin, StartTypes, NewJobOK DEF Bruteforce
<1>3. ASSUME NEW j \in Jobs, JobThread(j) PROVE TypeInv'
  BY <1>3, ThreadTypes
<1>4. ASSUME NEW c \in Cancels, LookUp(c) PROVE TypeInv'
  BY <1>4 DEF LookUp, TypeInv, PinTypeOK
<1>5. ASSUME NEW c \in Cancels, Deliver(c) PROVE TypeInv'
  BY <1>5, DeliverTypes
<1>6. CASE UNCHANGED vars
  BY <1>6 DEF vars, TypeInv, PinTypeOK
<1> QED
  BY <1>1, <1>2, <1>3, <1>4, <1>5, <1>6 DEF Next

\* Every variable keeps its type.
THEOREM PinTyping == Spec => []PinTypeOK
<1>1. TypeInv => PinTypeOK
  BY DEF TypeInv
<1> QED
  BY <1>1, TypeInit, TypeStep, PTL DEF Spec

-----------------------------------------------------------------------------
(* The job of the meter.                                                   *)

\* A thread that lives is the one of the current job, and the current job, once
\* over, says so.
CurrentInv ==
    /\ \A j \in Jobs : Running(j) => current = j
    /\ EndedIsFinished

LEMMA CurrentStep == TypeInv /\ CurrentInv /\ [Next]_vars => CurrentInv'
<1> SUFFICES ASSUME TypeInv, CurrentInv, [Next]_vars PROVE CurrentInv'
  OBVIOUS
<1>n. None \notin Jobs
  BY PinAssumption DEF PinAssumption
<1>1. ASSUME NEW j \in Jobs, NEW kind, NEW pc \in {"show", "enter"}, NEW pin, Start(j, kind, pc, pin)
      PROVE  CurrentInv'
  <2>1. \A i \in Jobs \ {j} : ~Running(i)
    BY <1>1, <1>n DEF Start, Reject, Fresh, CurrentInv
  <2>2. job'[j].pc = pc /\ \A i \in Jobs \ {j} : job'[i].pc = "off"
    BY <1>1, <2>1 DEF Start, NewJob, Blank
  <2> QED
    BY <1>1, <2>2 DEF Start, CurrentInv, EndedIsFinished, Running
<1>2. ASSUME NEW j \in Jobs, JobThread(j) PROVE CurrentInv'
  <2>1. PICK r, p : Leads(j, r, p)
    BY <1>2, ThreadLeads
  <2>2. /\ job'[j] = r /\ progress'[j] = p
        /\ \A i \in Jobs \ {j} : job'[i] = job[i] /\ progress'[i] = progress[i]
    BY <2>1, Updated DEF Leads, TypeInv
  <2>3. current' = current /\ current = j
    BY <1>2, ThreadFrame DEF TypeInv, CurrentInv
  <2> QED
    BY <2>1, <2>2, <2>3 DEF Leads, CurrentInv, EndedIsFinished, Running
<1>3. ASSUME NEW c \in Cancels, LookUp(c) PROVE CurrentInv'
  BY <1>3 DEF LookUp, CurrentInv, EndedIsFinished, Running
<1>4. ASSUME NEW c \in Cancels, Deliver(c) PROVE CurrentInv'
  <2>1. \A i \in Jobs : job'[i].pc = job[i].pc
    BY <1>4 DEF Deliver, TypeInv, PinTypeOK, JobRecord
  <2> QED
    BY <1>4, <2>1 DEF Deliver, TypeInv, PinTypeOK, CurrentInv, EndedIsFinished, Running
<1>5. CASE UNCHANGED vars
  BY <1>5 DEF vars, CurrentInv, EndedIsFinished, Running
<1> QED
  BY <1>1, <1>2, <1>3, <1>4, <1>5 DEF Next, Send, Bruteforce

LEMMA PinInductive == Spec => [](TypeInv /\ CurrentInv)
<1>1. Init => CurrentInv
  BY PinAssumption DEF PinAssumption, Init, CurrentInv, EndedIsFinished, Running, Blank, NewJob
<1> QED
  BY <1>1, TypeInit, TypeStep, CurrentStep, PTL DEF Spec

\* At most one PIN job runs for a meter (web/jobs.py:3-4, 101-102).
THEOREM OneJob == Spec => []OneJobAtATime
<1>1. CurrentInv => OneJobAtATime
  BY DEF CurrentInv, OneJobAtATime
<1> QED
  BY <1>1, PinInductive, PTL

\* The job the status request shows says finished once its thread is over,
\* however it ended (web/jobs.py:69-70, 85-87, pin.py:193-196).
THEOREM EndIsShown == Spec => []EndedIsFinished
<1>1. CurrentInv => EndedIsFinished
  BY DEF CurrentInv
<1> QED
  BY <1>1, PinInductive, PTL

\* A cancel request that reaches the runner ends the sweep at the candidate it
\* is trying or about to try, however many others there are (pin.py:155-178).
THEOREM CancelHeard == Spec => []HeardCancelStops
<1>1. TypeInv => HeardCancelStops
  <2> SUFFICES ASSUME TypeInv, NEW j \in Jobs, job[j].heardAt # None
               PROVE  progress[j].tried <= job[j].heardAt + 1
    BY DEF HeardCancelStops
  <2>1. progress[j].tried \in Nat /\ job[j].heardAt \in Nat /\ progress[j].tried <= job[j].heardAt
    BY PinAssumption DEF TypeInv, PinTypeOK, JobOK, JobRecord, Progress, PinAssumption
  <2> QED
    BY <2>1
<1> QED
  BY <1>1, TypeInit, TypeStep, PTL DEF Spec

-----------------------------------------------------------------------------
(* The pulses of a PIN.                                                    *)

\* A wave, by what behind its first two flashes is as long as a digit makes it.
Waves == {w \in Seq(Nat) : Len(w) >= 2}

LEMMA DigitEntered ==
    ASSUME NEW w \in Waves, NEW d \in Nat
    PROVE  /\ EnterDigit(w, d) \in Waves
           /\ Len(EnterDigit(w, d)) = Len(w) + d
           /\ \A i \in 1..(Len(w) + d) :
                EnterDigit(w, d)[i] = (IF i <= Len(w) THEN w[i] ELSE digit_gap)
                                      + (IF i = Len(w) + d THEN group_gap ELSE 0)
<1> USE PulsesAssumption DEF PulsesAssumption
<1> DEFINE gaps == [i \in 1..d |-> digit_gap]
           u == w \o gaps
<1>1. gaps \in Seq(Nat) /\ Len(gaps) = d
  OBVIOUS
<1>2. w \in Seq(Nat) /\ Len(w) \in Nat /\ Len(w) >= 2
  BY DEF Waves
<1>3. u \in Seq(Nat) /\ Len(u) = Len(w) + d /\ \A i \in 1..(Len(w) + d) : u[i] = IF i <= Len(w) THEN w[i] ELSE digit_gap
  <2>1. u \in Seq(Nat) /\ Len(u) = Len(w) + d
    BY <1>1, <1>2
  <2>2. ASSUME NEW i \in 1..(Len(w) + d) PROVE u[i] = IF i <= Len(w) THEN w[i] ELSE digit_gap
    BY <1>1, <1>2
  <2> QED
    BY <2>1, <2>2
<1> HIDE DEF u
<1>4. EnterDigit(w, d) = [u EXCEPT ![Len(u)] = u[Len(u)] + group_gap]
  BY DEF EnterDigit, Sleep, u
<1>5. u[Len(u)] \in Nat /\ Len(u) \in 1..Len(u)
  BY <1>2, <1>3
<1> DEFINE x == EnterDigit(w, d)
<1>6. x \in Seq(Nat) /\ Len(x) = Len(u) /\ \A i \in 1..Len(u) : x[i] = u[i] + (IF i = Len(u) THEN group_gap ELSE 0)
  <2>1. u[Len(u)] + group_gap \in Nat
    BY <1>5
  <2>2. x \in Seq(Nat) /\ Len(x) = Len(u)
    BY <1>3, <1>4, <1>5, <2>1
  <2>3. ASSUME NEW i \in 1..Len(u) PROVE x[i] = u[i] + (IF i = Len(u) THEN group_gap ELSE 0)
    <3>1. u[i] \in Nat
      BY <1>3
    <3> QED
      BY <1>3, <1>4, <1>5, <3>1
  <2> QED
    BY <2>2, <2>3
<1>7. x \in Waves /\ Len(x) = Len(w) + d
  BY <1>2, <1>3, <1>6 DEF Waves
<1>8. \A i \in 1..(Len(w) + d) : x[i] = (IF i <= Len(w) THEN w[i] ELSE digit_gap) + (IF i = Len(w) + d THEN group_gap ELSE 0)
  BY <1>3, <1>6
<1> HIDE DEF x
<1> QED
  BY <1>7, <1>8 DEF x

\* w is the wave after the first digits of a PIN, for each number of them.
Enters(w, pin) ==
    /\ w \in [0..Len(pin) -> Waves]
    /\ w[0] = Reset /\ \A i \in 1..Len(pin) : w[i] = EnterDigit(w[i - 1], pin[i])
    /\ EnterPin(pin) = w[Len(pin)]

LEMMA PinEntered ==
    ASSUME NEW pin \in Seq(Nat)
    PROVE  \E w : Enters(w, pin)
<1> USE PulsesAssumption DEF PulsesAssumption
<1> DEFINE D == 0..Len(pin)
           wave[i \in D] == IF i = 0 THEN Reset ELSE EnterDigit(wave[i - 1], pin[i])
           comb == [i \in D |-> [x \in Waves |-> IF i = 0 THEN Reset ELSE EnterDigit(x, pin[i])]]
<1>0. Len(pin) \in Nat /\ \A i \in 1..Len(pin) : pin[i] \in Nat
  OBVIOUS
<1>1. Reset \in Waves
  BY DEF Reset, Waves
<1>2. Counted(D, Waves, Reset, comb) /\ \A i \in D, x \in Waves : i # 0 => comb[i][x] = EnterDigit(x, pin[i])
  <2>1. \A i \in D, x \in Waves : i # 0 => EnterDigit(x, pin[i]) \in Waves
    <3>1. ASSUME NEW d \in Nat, NEW x \in Waves PROVE EnterDigit(x, d) \in Waves
      BY DigitEntered
    <3> QED
      BY <1>0, <3>1
  <2>2. comb \in [D -> [Waves -> Waves]]
    BY <1>1, <2>1
  <2>3. \A i \in D, x \in Waves : i # 0 => comb[i][x] = EnterDigit(x, pin[i])
    OBVIOUS
  <2>4. D \in SUBSET Nat /\ \A n \in D : n # 0 => n - 1 \in D
    BY <1>0
  <2> QED
    BY <1>1, <2>2, <2>3, <2>4 DEF Counted
<1> HIDE DEF comb
<1>3. PICK f : SolvesCounted(f, D, Waves, Reset, comb)
  BY <1>2, CountedRecursion
<1>4. f = [i \in D |-> IF i = 0 THEN Reset ELSE EnterDigit(f[i - 1], pin[i])]
  <2>1. \A i \in D : i # 0 => i - 1 \in D /\ f[i - 1] \in Waves
    <3>1. \A i \in D : i # 0 => i - 1 \in D
      BY <1>0
    <3>2. f \in [D -> Waves]
      BY <1>3 DEF SolvesCounted
    <3> HIDE DEF D
    <3> QED
      BY <3>1, <3>2
  <2> QED
    BY <1>2, <1>3, <2>1 DEF SolvesCounted
<1>5. wave = [i \in D |-> IF i = 0 THEN Reset ELSE EnterDigit(wave[i - 1], pin[i])]
  BY <1>4, Zenon DEF wave
<1>6. EnterPin(pin) = wave[Len(pin)]
  BY DEF EnterPin
<1> HIDE DEF wave
<1>7. DOMAIN wave = D /\ wave[0] = Reset /\ \A i \in 1..Len(pin) : wave[i] = EnterDigit(wave[i - 1], pin[i])
  BY <1>0, <1>5, SMTT(30)
<1> DEFINE T == {i \in Nat : i <= Len(pin) => wave[i] \in Waves}
<1>8. \A i \in Nat : i \in T
  <2>1. 0 \in T
    BY <1>1, <1>7
  <2>2. ASSUME NEW i \in Nat, i \in T PROVE i + 1 \in T
    <3> SUFFICES ASSUME i + 1 <= Len(pin) PROVE wave[i + 1] \in Waves
      OBVIOUS
    <3>1. wave[i + 1] = EnterDigit(wave[i], pin[i + 1]) /\ wave[i] \in Waves /\ pin[i + 1] \in Nat
      BY <1>0, <1>7, <2>2
    <3> QED
      BY <3>1, DigitEntered
  <2> HIDE DEF T
  <2> QED
    BY <2>1, <2>2, Induction
<1>9. wave \in [D -> Waves]
  <2>1. DOMAIN wave = D /\ wave = [i \in D |-> wave[i]]
    BY <1>5
  <2>2. \A i \in D : wave[i] \in Waves
    BY <1>0, <1>8
  <2> HIDE DEF D
  <2> QED
    BY <2>1, <2>2
<1> QED
  BY <1>6, <1>7, <1>9 DEF Enters

Ears == [digits : Seq(Nat), flashes : Nat]

\* ear is what the meter has taken in after the first silences of a wave, for
\* each number of them.
Hears(ear, wave) ==
    /\ ear \in [0..(Len(wave) - 2) -> Ears]
    /\ ear[0] = Awake(wave)
    /\ \A i \in 1..(Len(wave) - 2) : ear[i] = Listen(ear[i - 1], wave[i + 2])

LEMMA WaveHeard ==
    ASSUME NEW wave \in Waves, NEW f, Hears(f, wave)
    PROVE  Heard(wave) = f[Len(wave) - 2].digits
<1> DEFINE n == Len(wave) - 2
           D == 0..n
           ear[i \in D] == IF i = 0 THEN Awake(wave) ELSE Listen(ear[i - 1], wave[i + 2])
<1>1. n \in Nat
  BY DEF Waves
<1>2. f = [i \in D |-> IF i = 0 THEN Awake(wave) ELSE Listen(f[i - 1], wave[i + 2])]
  <2>1. f = [i \in D |-> f[i]]
    BY DEF Hears
  <2>2. \A i \in D : f[i] = IF i = 0 THEN Awake(wave) ELSE Listen(f[i - 1], wave[i + 2])
    BY <1>1 DEF Hears
  <2> QED
    BY <2>1, <2>2
<1>3. ear = [i \in D |-> IF i = 0 THEN Awake(wave) ELSE Listen(ear[i - 1], wave[i + 2])]
  BY <1>2, Zenon DEF ear
<1>4. Heard(wave) = ear[n].digits
  BY DEF Heard
<1> HIDE DEF ear
<1> DEFINE T == {i \in Nat : i <= n => ear[i] = f[i]}
<1>5. \A i \in Nat : i \in T
  <2>1. 0 \in T
    BY <1>1, <1>3 DEF Hears
  <2>2. ASSUME NEW i \in Nat, i \in T PROVE i + 1 \in T
    <3> SUFFICES ASSUME i + 1 <= n PROVE ear[i + 1] = f[i + 1]
      OBVIOUS
    <3>1. i + 1 \in D /\ i + 1 # 0 /\ (i + 1) - 1 = i /\ i + 1 \in 1..n
      BY <1>1
    <3> HIDE DEF n
    <3>2. ear[i + 1] = Listen(ear[i], wave[(i + 1) + 2])
      BY <1>3, <3>1
    <3>3. f[i + 1] = Listen(f[i], wave[(i + 1) + 2])
      BY <3>1 DEF Hears, n
    <3>4. ear[i] = f[i]
      BY <1>1, <2>2
    <3> QED
      BY <3>2, <3>3, <3>4
  <2> HIDE DEF T
  <2> QED
    BY <2>1, <2>2, Induction
<1> HIDE DEF n
<1>6. ear[n] = f[n]
  BY <1>1, <1>5
<1> QED
  BY <1>4, <1>6 DEF n

\* A silence that ends k digits.
LEMMA SilenceEnds ==
    ASSUME NEW k \in Nat
    PROVE  /\ (digit_gap + k * group_gap) \div group_gap = k
           /\ (k * group_gap) \div group_gap = k
<1> USE PulsesAssumption DEF PulsesAssumption
<1>1. group_gap \in Nat \ {0} /\ k \in Int /\ k * group_gap = group_gap * k /\ k * group_gap \in Int
  OBVIOUS
<1>2. digit_gap \in Nat /\ digit_gap < group_gap
  OBVIOUS
<1> QED
  BY <1>1, <1>2, Quotient

\* The meter has heard pin, and the last silence would end more digits were it longer.
Heeds(ear, wave, pin) ==
    /\ Hears(ear, wave)
    /\ ear[Len(wave) - 2] = [digits |-> pin, flashes |-> 0]
    /\ \E k \in Nat : IF Len(wave) = 2 THEN wave[2] = settle + k * group_gap
                                       ELSE k # 0 /\ wave[Len(wave)] = digit_gap + k * group_gap

LEMMA AppendedLast ==
    ASSUME NEW s \in Seq(Nat), NEW t \in Seq(Nat), NEW x \in Nat
    PROVE  Append(s \o t, x) = s \o Append(t, x)
<1>1. s \o t \in Seq(Nat) /\ <<x>> \in Seq(Nat)
  OBVIOUS
<1>2. Append(s \o t, x) = (s \o t) \o <<x>> /\ Append(t, x) = t \o <<x>>
  BY <1>1, AppendIsConcat
<1> QED
  BY <1>1, <1>2, ConcatAssociative

LEMMA OneMoreZero ==
    ASSUME NEW k \in Nat
    PROVE  Zeros(k + 1) = Append(Zeros(k), 0) /\ Zeros(k) \in Seq(Nat)
  BY DEF Zeros

LEMMA ZeroHeard ==
    ASSUME NEW w \in Waves, NEW pin \in Seq(Nat), NEW ear, Heeds(ear, w, pin)
    PROVE  \E f : Heeds(f, EnterDigit(w, 0), Append(pin, 0))
<1> USE PulsesAssumption DEF PulsesAssumption
<1> DEFINE u == EnterDigit(w, 0)
           n == Len(w)
<1>1. /\ w \in Seq(Nat) /\ n \in Nat /\ n >= 2
      /\ u \in Waves /\ Len(u) = n /\ \A i \in 1..n : u[i] = w[i] + (IF i = n THEN group_gap ELSE 0)
  <2>1. n \in Nat /\ n >= 2 /\ n + 0 = n
    BY DEF Waves
  <2>2. /\ u \in Waves /\ Len(u) = Len(w) + 0
        /\ \A i \in 1..(Len(w) + 0) : u[i] = (IF i <= Len(w) THEN w[i] ELSE digit_gap)
                                            + (IF i = Len(w) + 0 THEN group_gap ELSE 0)
    BY DigitEntered
  <2> HIDE DEF u
  <2>3. w \in Seq(Nat) /\ u \in Waves /\ Len(u) = n
    BY <2>1, <2>2 DEF Waves
  <2>4. ASSUME NEW i \in 1..n PROVE u[i] = w[i] + (IF i = n THEN group_gap ELSE 0)
    <3>1. i \in 1..(Len(w) + 0) /\ i <= Len(w) /\ (i = Len(w) + 0 <=> i = n)
      BY <2>1
    <3>2. u[i] = (IF i <= Len(w) THEN w[i] ELSE digit_gap) + (IF i = Len(w) + 0 THEN group_gap ELSE 0)
      BY <2>2, <3>1
    <3> QED
      BY <3>1, <3>2
  <2> QED
    BY <2>1, <2>3, <2>4, ZenonT(60)
<1> HIDE DEF u
<1>2. PICK k \in Nat : IF n = 2 THEN w[2] = settle + k * group_gap
                                 ELSE k # 0 /\ w[n] = digit_gap + k * group_gap
  BY DEF Heeds
<1>3. Hears(ear, w) /\ ear[n - 2] = [digits |-> pin, flashes |-> 0]
  BY DEF Heeds
<1>4. CASE n = 2
  <2> DEFINE f == [i \in 0..0 |-> [digits |-> Zeros(k + 1), flashes |-> 0]]
  <2>1. w[2] - settle = k * group_gap /\ u[2] = settle + (k + 1) * group_gap
        /\ u[2] - settle = (k + 1) * group_gap
    BY <1>1, <1>2, <1>4
  <2>2. pin = Zeros(k) /\ Awake(u) = [digits |-> Zeros(k + 1), flashes |-> 0]
    <3>1. k + 1 \in Nat
      OBVIOUS
    <3>2. ear[0] = [digits |-> pin, flashes |-> 0] /\ ear[0] = Awake(w)
      BY <1>3, <1>4 DEF Hears
    <3>3. Awake(w) = [digits |-> Zeros(k), flashes |-> 0]
      BY <2>1, SilenceEnds DEF Awake
    <3>4. [digits |-> pin, flashes |-> 0].digits = [digits |-> Zeros(k), flashes |-> 0].digits
      BY <3>2, <3>3
    <3> QED
      BY <2>1, <3>1, <3>4, SilenceEnds DEF Awake
  <2>3. f \in [0..0 -> Ears] /\ f[0] = Awake(u)
    <3>1. Zeros(k + 1) \in Seq(Nat)
      BY OneMoreZero
    <3> QED
      BY <2>2, <3>1 DEF Ears
  <2>4. Hears(f, u)
    <3>1. Len(u) - 2 = 0
      BY <1>1, <1>4
    <3> HIDE DEF f
    <3>2. f \in [0..(Len(u) - 2) -> Ears]
      BY <2>3, <3>1, Zenon
    <3>3. ASSUME NEW i \in 1..(Len(u) - 2) PROVE FALSE
      BY <1>1, <1>4
    <3> QED
      BY <2>3, <3>2, <3>3, Zenon DEF Hears
  <2>5. f[Len(u) - 2] = [digits |-> Append(pin, 0), flashes |-> 0]
    <3>1. Len(u) - 2 = 0 /\ 0 \in 0..0
      BY <1>1, <1>4
    <3>2. Zeros(k + 1) = Append(pin, 0)
      BY <2>2, OneMoreZero
    <3> QED
      BY <3>1, <3>2
  <2>6. Len(u) = 2 /\ k + 1 \in Nat
    BY <1>1, <1>4
  <2>7. Heeds(f, u, Append(pin, 0))
    BY <2>1, <2>4, <2>5, <2>6 DEF Heeds
  <2> QED
    BY <2>7 DEF u
<1>5. CASE n # 2
  <2> DEFINE m == n - 2
             e == ear[m - 1]
             new == [digits |-> Append(pin, 0), flashes |-> 0]
             f == [ear EXCEPT ![m] = new]
  <2>1. m \in Nat \ {0} /\ m + 2 = n /\ ear \in [0..m -> Ears] /\ e \in Ears
    <3>1. m \in Nat \ {0} /\ m + 2 = n /\ m - 1 \in 0..m
      BY <1>1, <1>5, SMTT(30)
    <3>2. ear \in [0..m -> Ears]
      BY <1>3 DEF Hears
    <3> HIDE DEF m
    <3> QED
      BY <3>1, <3>2
  <2>2. k \in Nat \ {0} /\ w[n] = digit_gap + k * group_gap /\ u[n] = digit_gap + (k + 1) * group_gap
    BY <1>1, <1>2, <1>5
  <2>3. ear[m] = Listen(e, w[n])
    <3>1. \A i \in 1..(n - 2) : ear[i] = Listen(ear[i - 1], w[i + 2])
      BY <1>3 DEF Hears
    <3>2. m \in 1..(n - 2)
      <4> HIDE DEF n
      <4>1. n \in Nat /\ n >= 2 /\ n # 2
        BY <1>1, <1>5
      <4> QED
        BY <4>1
    <3>3. ear[m] = Listen(ear[m - 1], w[m + 2])
      BY <3>1, <3>2, Zenon
    <3> QED
      BY <2>1, <3>3, Zenon
  <2> HIDE DEF e
  <2> DEFINE base == Append(e.digits, e.flashes + 1)
  <2>4. base \in Seq(Nat)
    BY <2>1 DEF Ears
  <2>5. Listen(e, w[n]) = [digits |-> base \o Zeros(k - 1), flashes |-> 0]
    BY <2>2, SilenceEnds DEF Listen
  <2>6. Listen(e, u[n]) = [digits |-> base \o Zeros(k), flashes |-> 0]
    <3>1. k + 1 \in Nat /\ k + 1 # 0 /\ (k + 1) - 1 = k
      BY <2>2
    <3> QED
      BY <2>2, <3>1, SilenceEnds DEF Listen
  <2>7. pin = base \o Zeros(k - 1)
    <3>1. [digits |-> pin, flashes |-> 0].digits = [digits |-> base \o Zeros(k - 1), flashes |-> 0].digits
      BY <1>3, <2>3, <2>5
    <3> QED
      BY <3>1
  <2>8. Append(pin, 0) = base \o Zeros(k)
    <3>1. k - 1 \in Nat /\ (k - 1) + 1 = k
      BY <2>2
    <3>2. Zeros(k) = Append(Zeros(k - 1), 0) /\ Zeros(k - 1) \in Seq(Nat)
      BY <3>1, OneMoreZero
    <3> HIDE DEF base
    <3>3. Append(base \o Zeros(k - 1), 0) = base \o Append(Zeros(k - 1), 0)
      <4>1. 0 \in Nat
        OBVIOUS
      <4> QED
        BY <2>4, <3>2, <4>1, AppendedLast, Zenon
    <3> QED
      BY <2>7, <3>2, <3>3, Zenon
  <2>9. new \in Ears /\ new = Listen(e, u[n])
    <3>1. Append(pin, 0) \in Seq(Nat)
      OBVIOUS
    <3> HIDE DEF base
    <3> QED
      BY <2>6, <2>8, <3>1 DEF Ears
  <2> HIDE DEF new, base
  <2>10. Hears(f, u)
    <3>1. Len(u) - 2 = m
      BY <1>1
    <3>2. f \in [0..m -> Ears] /\ f[0] = Awake(u)
      <4>1. u[2] = w[2]
        BY <1>1, <1>5
      <4>2. f[0] = ear[0]
        BY <2>1
      <4>3. ear[0] = Awake(w)
        BY <1>3 DEF Hears
      <4> QED
        BY <2>1, <2>9, <4>1, <4>2, <4>3 DEF Awake
    <3>3. ASSUME NEW i \in 1..m PROVE f[i] = Listen(f[i - 1], u[i + 2])
      <4>1. CASE i = m
        <5> HIDE DEF m
        <5>1. f[m] = new /\ f[m - 1] = ear[m - 1] /\ m + 2 = n
          BY <2>1
        <5> HIDE DEF f
        <5> QED
          BY <2>9, <4>1, <5>1 DEF e
      <4>2. CASE i # m
        <5>1. f[i] = ear[i] /\ f[i - 1] = ear[i - 1] /\ u[i + 2] = w[i + 2]
          BY <1>1, <2>1, <4>2
        <5>2. ear[i] = Listen(ear[i - 1], w[i + 2])
          BY <1>3, <2>1 DEF Hears
        <5> QED
          BY <5>1, <5>2
      <4> QED
        BY <4>1, <4>2
    <3> HIDE DEF f, m
    <3> QED
      BY <3>1, <3>2, <3>3 DEF Hears
  <2>11. f[Len(u) - 2] = [digits |-> Append(pin, 0), flashes |-> 0]
    BY <1>1, <2>1 DEF new
  <2>12. k + 1 \in Nat /\ k + 1 # 0 /\ Len(u) # 2 /\ u[Len(u)] = digit_gap + (k + 1) * group_gap
    BY <1>1, <1>5, <2>2
  <2>13. Heeds(f, u, Append(pin, 0))
    <3> HIDE DEF f
    <3> QED
      BY <2>10, <2>11, <2>12 DEF Heeds
  <2> QED
    BY <2>13 DEF u
<1> QED
  BY <1>4, <1>5, ZenonT(60)

\* One more flash within a digit, and its last.
LEMMA OneMoreFlash ==
    ASSUME NEW e \in Ears, NEW silence \in {digit_gap, digit_gap + group_gap}
    PROVE  Listen(e, silence) =
             IF silence = digit_gap THEN [digits |-> e.digits, flashes |-> e.flashes + 1]
             ELSE [digits |-> Append(e.digits, e.flashes + 1), flashes |-> 0]
<1> USE PulsesAssumption DEF PulsesAssumption
<1>1. digit_gap \div group_gap = 0 /\ (digit_gap + group_gap) \div group_gap = 1
  <2>1. digit_gap + 0 * group_gap = digit_gap /\ digit_gap + 1 * group_gap = digit_gap + group_gap
    OBVIOUS
  <2> QED
    BY <2>1, SilenceEnds
<1>2. digit_gap # digit_gap + group_gap
  OBVIOUS
<1>3. Zeros(1 - 1) = <<>>
  BY DEF Zeros
<1>4. Append(e.digits, e.flashes + 1) \o <<>> = Append(e.digits, e.flashes + 1)
  <2>1. Append(e.digits, e.flashes + 1) \in Seq(Nat)
    BY DEF Ears
  <2> QED
    BY <2>1, ConcatEmptySeq
<1>5. CASE silence = digit_gap
  <2>1. Listen(e, silence) = [e EXCEPT !.flashes = e.flashes + 1]
    BY <1>1, <1>5, Zenon DEF Listen
  <2> QED
    BY <1>5, <2>1 DEF Ears
<1>6. CASE silence = digit_gap + group_gap
  <2>1. 1 # 0
    OBVIOUS
  <2>2. Listen(e, silence) = [digits |-> Append(e.digits, e.flashes + 1) \o Zeros(1 - 1), flashes |-> 0]
    BY <1>1, <1>6, <2>1, Zenon DEF Listen
  <2> QED
    BY <1>2, <1>3, <1>4, <1>6, <2>2, Zenon
<1> QED
  BY <1>5, <1>6

LEMMA DigitHeard ==
    ASSUME NEW w \in Waves, NEW pin \in Seq(Nat), NEW ear, Heeds(ear, w, pin), NEW d \in Nat \ {0}
    PROVE  \E f : Heeds(f, EnterDigit(w, d), Append(pin, d))
<1> USE PulsesAssumption DEF PulsesAssumption
<1> DEFINE u == EnterDigit(w, d)
           n == Len(w)
           m == n - 2
<1>1. /\ n \in Nat /\ n >= 2 /\ m \in Nat /\ m + 2 = n
      /\ u \in Waves /\ Len(u) = n + d
      /\ \A i \in 1..(n + d) : u[i] = (IF i <= n THEN w[i] ELSE digit_gap) + (IF i = n + d THEN group_gap ELSE 0)
  BY DigitEntered DEF Waves
<1>2. \A i \in 1..n : w[i] \in Nat
  BY DEF Waves
<1>3. Hears(ear, w) /\ ear[m] = [digits |-> pin, flashes |-> 0] /\ ear \in [0..m -> Ears]
  BY DEF Heeds, Hears
<1>a. \A i \in 1..m : ear[i] = Listen(ear[i - 1], w[i + 2])
  BY <1>3 DEF Hears
<1> HIDE DEF u, n, m
<1> DEFINE f == [i \in 0..(m + d) |-> IF i <= m THEN ear[i]
                                      ELSE IF i < m + d THEN [digits |-> pin, flashes |-> i - m]
                                      ELSE [digits |-> Append(pin, d), flashes |-> 0]]
<1>4. f \in [0..(m + d) -> Ears]
  <2>1. ASSUME NEW i \in 0..(m + d) PROVE f[i] \in Ears
    <3>1. Append(pin, d) \in Seq(Nat)
      OBVIOUS
    <3>2. CASE i <= m
      BY <1>1, <1>3, <3>2
    <3>3. CASE i > m
      BY <1>1, <3>1, <3>3 DEF Ears
    <3> QED
      BY <1>1, <3>2, <3>3
  <2>2. f = [i \in 0..(m + d) |-> f[i]]
    OBVIOUS
  <2> HIDE DEF f
  <2> QED
    BY <2>1, <2>2
<1>5. Len(u) - 2 = m + d
  BY <1>1
<1>6. f[0] = Awake(u)
  <2>1. u[2] = w[2]
    BY <1>1, <1>2
  <2>2. f[0] = ear[0]
    BY <1>1
  <2>3. ear[0] = Awake(w)
    BY <1>3 DEF Hears
  <2> QED
    BY <2>1, <2>2, <2>3 DEF Awake
<1>7. ASSUME NEW i \in 1..(m + d) PROVE f[i] = Listen(f[i - 1], u[i + 2])
  <2>1. CASE i <= m
    <3>1. f[i] = ear[i] /\ f[i - 1] = ear[i - 1] /\ u[i + 2] = w[i + 2]
      BY <1>1, <1>2, <2>1, SMTT(30)
    <3>2. ear[i] = Listen(ear[i - 1], w[i + 2])
      BY <1>a, <2>1
    <3> QED
      BY <3>1, <3>2
  <2>2. CASE i > m
    <3>1. f[i - 1] = [digits |-> pin, flashes |-> (i - 1) - m] /\ f[i - 1] \in Ears
      <4>1. i - 1 \in 0..(m + d) /\ i - 1 < m + d /\ i - 1 >= m
        BY <1>1, <2>2
      <4>2. CASE i - 1 = m
        <5>1. f[i - 1] = ear[m] /\ (i - 1) - m = 0
          BY <1>1, <4>1, <4>2
        <5> QED
          BY <1>3, <1>4, <4>1, <5>1
      <4>3. CASE i - 1 # m
        <5>1. f[i - 1] = [digits |-> pin, flashes |-> (i - 1) - m]
          BY <1>1, <4>1, <4>3
        <5> HIDE DEF f
        <5> QED
          BY <1>4, <4>1, <5>1
      <4> QED
        BY <4>2, <4>3
    <3>2. u[i + 2] = IF i = m + d THEN digit_gap + group_gap ELSE digit_gap
      BY <1>1, <2>2
    <3>3. f[i] = IF i = m + d THEN [digits |-> Append(pin, d), flashes |-> 0]
                 ELSE [digits |-> pin, flashes |-> i - m]
      BY <1>1, <2>2
    <3>4. (i - 1) - m + 1 = i - m /\ (i = m + d => i - m = d)
      BY <1>1
    <3>5. digit_gap # digit_gap + group_gap
      OBVIOUS
    <3> HIDE DEF f
    <3> QED
      BY <3>1, <3>2, <3>3, <3>4, <3>5, OneMoreFlash
  <2> QED
    BY <1>1, <2>1, <2>2
<1>8. Hears(f, u)
  <2> HIDE DEF f
  <2> QED
    BY <1>4, <1>5, <1>6, <1>7 DEF Hears
<1>9. f[Len(u) - 2] = [digits |-> Append(pin, d), flashes |-> 0]
  BY <1>1, <1>5
<1>10. 1 \in Nat /\ 1 # 0 /\ Len(u) # 2 /\ u[Len(u)] = digit_gap + 1 * group_gap
  BY <1>1
<1> HIDE DEF f
<1>11. Heeds(f, u, Append(pin, d))
  BY <1>8, <1>9, <1>10 DEF Heeds
<1> QED
  BY <1>11 DEF u

\* A meter that hears the pulses of a PIN has heard that PIN.
LEMMA HeardIsEntered ==
    ASSUME NEW pin \in Seq(Nat)
    PROVE  Heard(EnterPin(pin)) = pin
<1> USE PulsesAssumption DEF PulsesAssumption
<1>1. PICK w : Enters(w, pin)
  BY PinEntered
<1> DEFINE Begun(i) == SubSeq(pin, 1, i)
           T == {i \in Nat : i <= Len(pin) => \E ear : Heeds(ear, w[i], Begun(i))}
<1>2. 0 \in T
  <2> DEFINE f == [i \in 0..0 |-> [digits |-> <<>>, flashes |-> 0]]
  <2>1. w[0] = Reset /\ Len(Reset) = 2 /\ Reset[2] = settle + 0 * group_gap /\ Reset[2] - settle = 0 * group_gap
    BY <1>1 DEF Enters, Reset
  <2>2. Awake(Reset) = [digits |-> <<>>, flashes |-> 0]
    BY <2>1, SilenceEnds DEF Awake, Zeros
  <2>3. Hears(f, Reset)
    <3>1. f \in [0..0 -> Ears] /\ f[0] = Awake(Reset)
      BY <2>2 DEF Ears
    <3>2. Len(Reset) - 2 = 0
      BY <2>1
    <3>3. ASSUME NEW i \in 1..(Len(Reset) - 2) PROVE FALSE
      BY <2>1
    <3> HIDE DEF f
    <3>4. f \in [0..(Len(Reset) - 2) -> Ears]
      BY <3>1, <3>2, Zenon
    <3> QED
      BY <3>1, <3>3, <3>4, Zenon DEF Hears
  <2>4. Begun(0) = <<>> /\ f[Len(Reset) - 2] = [digits |-> <<>>, flashes |-> 0]
    BY <2>1
  <2> HIDE DEF f
  <2>5. Heeds(f, Reset, <<>>)
    BY <2>1, <2>3, <2>4 DEF Heeds
  <2> QED
    BY <2>1, <2>4, <2>5
<1>3. ASSUME NEW i \in Nat, i \in T PROVE i + 1 \in T
  <2> SUFFICES ASSUME i + 1 <= Len(pin) PROVE \E ear : Heeds(ear, w[i + 1], Begun(i + 1))
    OBVIOUS
  <2>1. PICK ear : Heeds(ear, w[i], Begun(i))
    BY <1>3
  <2>2. pin[i + 1] \in Nat /\ Begun(i) \in Seq(Nat) /\ Begun(i + 1) = Append(Begun(i), pin[i + 1])
    OBVIOUS
  <2>3. w[i] \in Waves /\ w[i + 1] = EnterDigit(w[i], pin[i + 1])
    BY <1>1 DEF Enters
  <2> HIDE DEF Begun
  <2>4. CASE pin[i + 1] = 0
    BY <2>1, <2>2, <2>3, <2>4, ZeroHeard
  <2>5. CASE pin[i + 1] # 0
    BY <2>1, <2>2, <2>3, <2>5, DigitHeard
  <2> QED
    BY <2>4, <2>5
<1>4. Len(pin) \in T
  <2>1. Len(pin) \in Nat
    OBVIOUS
  <2> HIDE DEF T
  <2> QED
    BY <1>2, <1>3, <2>1, Induction
<1>5. PICK ear : Heeds(ear, w[Len(pin)], Begun(Len(pin)))
  BY <1>4
<1>6. Begun(Len(pin)) = pin /\ EnterPin(pin) = w[Len(pin)] /\ w[Len(pin)] \in Waves
  BY <1>1 DEF Enters
<1> HIDE DEF Begun
<1>7. Hears(ear, EnterPin(pin)) /\ ear[Len(EnterPin(pin)) - 2].digits = pin
  BY <1>5, <1>6 DEF Heeds
<1> QED
  BY <1>6, <1>7, WaveHeard

\* The digits of a number are as few as can hold it.
LEMMA WidthHolds ==
    ASSUME NEW n \in Nat
    PROVE  /\ Width(n) \in Nat \ {0} /\ n < Power(Base, Width(n))
           /\ Width(n) = 1 \/ n >= Power(Base, Width(n) - 1)
<1> USE PulsesAssumption DEF PulsesAssumption
<1> DEFINE OK(k) == n < Power(Base, k) /\ (k = 1 \/ n >= Power(Base, k - 1))
           T == {k \in 1..(n + 1) : n < Power(Base, k)}
<1>1. \A k \in Nat : Power(Base, k) \in Nat
  BY PowerEquation
<1>2. T \in SUBSET Nat /\ T # {}
  <2>1. n + 1 < Power(Base, n + 1) /\ n + 1 \in 1..(n + 1)
    BY PowerExceeds
  <2>2. n + 1 \in T
    BY <1>1, <2>1
  <2> QED
    BY <2>2
<1>3. PICK k \in T : \A i \in T : k <= i
  BY <1>2, LeastNumber
<1>4. k \in 1..(n + 1) /\ OK(k)
  <2>1. CASE k # 1
    <3>1. k - 1 \in 1..(n + 1) /\ k - 1 \notin T
      BY <1>3, <2>1
    <3>2. ~(n < Power(Base, k - 1)) /\ Power(Base, k - 1) \in Nat
      BY <1>1, <3>1
    <3> QED
      BY <1>3, <3>2
  <2> QED
    BY <1>3, <2>1
<1>5. Width(n) \in 1..(n + 1) /\ OK(Width(n))
  BY <1>4 DEF Width
<1> QED
  BY <1>5

\* A number needs no more digits than a PIN has just if it is one.
LEMMA WidthFits ==
    ASSUME NEW n \in Nat
    PROVE  Width(n) \in Nat /\ (Width(n) <= PinLength <=> n < Power(Base, PinLength))
<1> USE PulsesAssumption DEF PulsesAssumption
<1> DEFINE v == Width(n)
<1>1. v \in Nat \ {0} /\ n < Power(Base, v) /\ (v = 1 \/ n >= Power(Base, v - 1))
  BY WidthHolds
<1> HIDE DEF v
<1>2. \A k \in Nat : Power(Base, k) \in Nat
  BY PowerEquation
<1>3. ASSUME v > PinLength PROVE ~(n < Power(Base, PinLength))
  <2>1. v # 1 /\ v - 1 \in Nat /\ PinLength <= v - 1 /\ n >= Power(Base, v - 1)
    BY <1>1, <1>3
  <2>2. v - 1 = PinLength \/ Power(Base, PinLength) < Power(Base, v - 1)
    BY <2>1, PowerGrows
  <2> QED
    BY <1>2, <2>1, <2>2
<1>4. ASSUME v <= PinLength PROVE n < Power(Base, PinLength)
  <2>1. v = PinLength \/ Power(Base, v) < Power(Base, PinLength)
    BY <1>1, <1>4, PowerGrows
  <2> QED
    BY <1>1, <1>2, <2>1
<1> QED
  BY <1>1, <1>3, <1>4 DEF v

\* Different numbers are written differently.
LEMMA WrittenApart ==
    ASSUME NEW m \in Nat, NEW n \in Nat, m < Power(Base, PinLength), n < Power(Base, PinLength),
           Written(m, PinLength) = Written(n, PinLength)
    PROVE  m = n
<1> USE PulsesAssumption DEF PulsesAssumption
<1>1. ASSUME NEW k \in Nat, k < Power(Base, PinLength)
      PROVE  ValueOf(Base, Written(k, PinLength)) = k
  <2>1. ValueOf(Base, Written(k, PinLength)) = k % Power(Base, PinLength)
    BY DigitsAddUp DEF Written
  <2>2. Power(Base, PinLength) \in Nat
    BY PowerEquation
  <2>3. ASSUME NEW x \in Nat, k < x PROVE k % x = k
    BY <2>3
  <2> QED
    BY <1>1, <2>1, <2>2, <2>3
<1> QED
  BY <1>1

LEMMA WrittenType ==
    ASSUME NEW n \in Nat, NEW width \in Nat
    PROVE  Written(n, width) \in Seq(Nat) /\ Len(Written(n, width)) = width
<1> USE PulsesAssumption DEF PulsesAssumption
<1>1. 0..(Base - 1) \in SUBSET Nat /\ n \in Int /\ Base \in Nat \ {0}
  OBVIOUS
<1>2. Written(n, width) \in Seq(0..(Base - 1))
  BY <1>1, DigitsType DEF Written
<1>3. Len(Written(n, width)) = width
  BY DEF Written, DigitsOf
<1> QED
  BY <1>1, <1>2, <1>3

\* A candidate unlocks just the meter whose PIN it is; one beyond the PINs there
\* are has too many digits.
LEMMA CandidateUnlocks ==
    ASSUME NEW n \in Nat, NEW s \in Pins
    PROVE  Heard(EnterPin(ZeroFilled(n))) = MetersPin(s) <=> n = s
<1> USE PulsesAssumption DEF PulsesAssumption
<1>1. s \in Nat /\ s < Power(Base, PinLength) /\ Power(Base, PinLength) \in Nat
  BY PowerPositive DEF Pins
<1>2. Written(s, PinLength) \in Seq(Nat) /\ Len(Written(s, PinLength)) = PinLength
  BY <1>1, WrittenType
<1>3. Width(n) \in Nat /\ (Width(n) <= PinLength <=> n < Power(Base, PinLength))
  BY WidthFits
<1>4. CASE n < Power(Base, PinLength)
  <2>1. ZeroFilled(n) = Written(n, PinLength)
    BY <1>3, <1>4 DEF ZeroFilled
  <2>2. Heard(EnterPin(ZeroFilled(n))) = Written(n, PinLength)
    BY <2>1, WrittenType, HeardIsEntered
  <2> QED
    BY <1>1, <1>4, <2>2, WrittenApart DEF MetersPin
<1>5. CASE ~(n < Power(Base, PinLength))
  <2>1. ZeroFilled(n) = Written(n, Width(n)) /\ Width(n) # PinLength
    BY <1>3, <1>5 DEF ZeroFilled
  <2>2. Heard(EnterPin(ZeroFilled(n))) = Written(n, Width(n)) /\ Len(Written(n, Width(n))) = Width(n)
    BY <1>3, <2>1, WrittenType, HeardIsEntered
  <2>3. Written(n, Width(n)) # Written(s, PinLength)
    BY <1>2, <2>1, <2>2
  <2>4. n # s
    BY <1>1, <1>5
  <2> QED
    BY <2>2, <2>3, <2>4 DEF MetersPin
<1> QED
  BY <1>4, <1>5

-----------------------------------------------------------------------------
(* The PIN.                                                                *)

\* What a job finds out of a meter that is unlocked (u) or not: unless it was open
\* when the job came to it, the meter is locked until the job has entered the
\* PIN, and what is detected then is that PIN.
FoundOK(r, p, u) ==
    /\ r.pc \in {"show", "enter", "create", "begin"} => p.found = None
    /\ r.pc \in {"show", "enter"} \/ r.kind = "bruteforce" => ~r.answer
    /\ p.found # None => p.found = secret \/ r.wasOpen
    /\ r.answer => r.pin = secret \/ r.wasOpen
    /\ r.pc \in {"create", "begin", "try"} \/ (r.pc = "test" /\ ~r.stop) => r.wasOpen \/ ~u
    /\ r.pc = "detect" /\ u => r.pin = secret \/ r.wasOpen

\* The PIN is none of the first k candidates.
Passed(k) == ~(First <= secret /\ secret < First + k)

\* How far a sweep has come: the PIN is none of the candidates behind it, or the
\* last of them, cut short by a stop.
RangeOK(r, p, u) ==
    r.kind = "bruteforce" =>
        /\ p.finished => r.pc \in {"leave", "off"}
        /\ r.pc \in {"enter", "create", "begin"} => p.tried = 0
        /\ r.pc = "test" => Passed(p.tried) \/ (r.stop /\ secret = First + p.tried - 1)
        /\ r.pc \in {"try", "detect"} =>
              p.tried # 0 /\ r.pin = First + p.tried - 1 /\ Passed(p.tried - 1)
        /\ r.pc = "detect" /\ r.pin = secret => u
        /\ r.pc \in {"end", "leave", "off"} /\ p.found = None /\ ~p.error /\ ~p.cancelled =>
              Passed(Total) \/ (r.stop /\ secret = First + Total - 1)

SecretInv ==
    \A j \in Jobs : /\ FoundOK(job[j], progress[j], unlocked)
                    /\ RangeOK(job[j], progress[j], unlocked)

\* What a job's thread does to the job, when an unlocked meter shows it in time.
LEMMA ThreadSecret ==
    ASSUME PromptMeter, TypeInv, NEW j \in Jobs, JobThread(j),
           FoundOK(job[j], progress[j], unlocked), RangeOK(job[j], progress[j], unlocked)
    PROVE  FoundOK(job'[j], progress'[j], unlocked') /\ RangeOK(job'[j], progress'[j], unlocked')
<1>j. /\ job \in [Jobs -> JobRecord] /\ progress \in [Jobs -> Progress]
      /\ job[j] \in JobRecord /\ progress[j] \in Progress /\ JobOK(job[j], progress[j])
      /\ secret \in Pins /\ unlocked \in BOOLEAN
  BY DEF TypeInv, PinTypeOK
<1>n. First \in Nat /\ Total \in Nat /\ None \notin Nat /\ secret \in Nat
  BY PinAssumption DEF PinAssumption, TypeInv, PinTypeOK, Pins
<1> USE <1>j, <1>n DEF JobRecord, JobPhases, Progress, JobOK, FoundOK, RangeOK
<1>1. CASE Show(j)
  <2>1. /\ job'[j] = [job[j] EXCEPT !.pc = "enter"]
        /\ progress'[j] = [progress[j] EXCEPT !.running = TRUE]
        /\ unlocked' = unlocked
    BY <1>1 DEF Show, Update
  <2>2. job[j].pc = "show"
    BY <1>1 DEF Show
  <2> QED
    BY <2>1, <2>2
<1>2. CASE Enter(j)
  <2>1. /\ job'[j] = [job[j] EXCEPT !.pc = IF job[j].kind = "send" THEN "try" ELSE "create",
                                      !.wasOpen = unlocked]
        /\ progress'[j] = progress[j]
        /\ unlocked' = unlocked
    BY <1>2 DEF Enter, Update
  <2>2. job[j].pc = "enter"
    BY <1>2 DEF Enter
  <2> QED
    BY <2>1, <2>2
<1>3. CASE EnterFails(j)
  <2>1. /\ job'[j] = [job[j] EXCEPT !.pc = "failed"]
        /\ progress'[j] = progress[j]
        /\ unlocked' = unlocked
    BY <1>3 DEF EnterFails, Update
  <2>2. job[j].pc \in {"enter", "create"}
    BY <1>3 DEF EnterFails
  <2> QED
    BY <2>1, <2>2
<1>4. CASE Create(j)
  <2>1. /\ job'[j] = [job[j] EXCEPT !.pc = "begin", !.runner = TRUE]
        /\ progress'[j] = progress[j]
        /\ unlocked' = unlocked
    BY <1>4 DEF Create, Update
  <2>2. job[j].pc = "create"
    BY <1>4 DEF Create
  <2> QED
    BY <2>1, <2>2
<1>5. CASE Begin(j)
  <2>1. /\ job'[j] = [job[j] EXCEPT !.pc = "test"]
        /\ progress'[j] = [progress[j] EXCEPT !.running = TRUE]
        /\ unlocked' = unlocked
    BY <1>5 DEF Begin, Update
  <2>2. job[j].pc = "begin"
    BY <1>5 DEF Begin
  <2>3. Passed(0)
    BY DEF Passed
  <2> QED
    BY <2>1, <2>2, <2>3
<1>6. CASE End(j)
  <2>1. /\ job'[j] = [job[j] EXCEPT !.pc = "leave"]
        /\ progress'[j] = [progress[j] EXCEPT !.running = FALSE, !.finished = TRUE]
        /\ unlocked' = unlocked
    BY <1>6 DEF End, Update
  <2>2. job[j].pc = "end"
    BY <1>6 DEF End
  <2> QED
    BY <2>1, <2>2
<1>7. CASE Leave(j)
  <2>1. /\ job'[j] = [job[j] EXCEPT !.pc = IF job[j].kind = "send" THEN "sent" ELSE "off"]
        /\ progress'[j] = progress[j]
        /\ unlocked' = unlocked
    BY <1>7 DEF Leave, Update
  <2>2. job[j].pc = "leave"
    BY <1>7 DEF Leave
  <2> QED
    BY <2>1, <2>2
<1>8. CASE Sent(j)
  <2>1. /\ job'[j] = [job[j] EXCEPT !.pc = "off"]
        /\ progress'[j] = [progress[j] EXCEPT !.found = IF job[j].answer THEN job[j].pin ELSE None,
                                                !.tried = 1, !.running = FALSE, !.finished = TRUE]
        /\ unlocked' = unlocked
    BY <1>8 DEF Sent, Update
  <2>2. job[j].pc = "sent"
    BY <1>8 DEF Sent
  <2> QED
    BY <2>1, <2>2
<1>9. CASE Fail(j)
  <2>1. /\ job'[j] = [job[j] EXCEPT !.pc = "off"]
        /\ progress'[j] = [progress[j] EXCEPT !.error = TRUE, !.running = FALSE, !.finished = TRUE]
        /\ unlocked' = unlocked
    BY <1>9 DEF Fail, Update
  <2>2. job[j].pc = "failed"
    BY <1>9 DEF Fail
  <2> QED
    BY <2>1, <2>2
<1>10. CASE Test(j)
  <2>1. job[j].pc = "test" /\ unlocked' = unlocked
    BY <1>10 DEF Test, LoopHead
  <2>2. CASE progress[j].tried >= Total
    <3>1. job'[j] = [job[j] EXCEPT !.pc = "end"] /\ progress'[j] = progress[j]
      BY <1>10, <2>2 DEF Test, LoopHead, Update
    <3>2. \/ Passed(Total)
          \/ job[j].stop /\ secret = First + Total - 1
          \/ job[j].kind # "bruteforce"
      <4>1. \A k \in Nat : k >= Total =>
              /\ Passed(k) => Passed(Total)
              /\ secret = First + k - 1 => Passed(Total) \/ secret = First + Total - 1
        BY DEF Passed
      <4>2. \/ Passed(progress[j].tried)
            \/ job[j].stop /\ secret = First + progress[j].tried - 1
            \/ job[j].kind # "bruteforce"
        BY <2>1
      <4>3. progress[j].tried \in Nat
        OBVIOUS
      <4> QED
        BY ONLY <2>2, <4>1, <4>2, <4>3
    <3> QED
      BY <2>1, <3>1, <3>2
  <2>3. CASE progress[j].tried < Total /\ job[j].stop
    <3>1. Update(j, [job[j] EXCEPT !.pc = "end"], [progress[j] EXCEPT !.cancelled = TRUE])
      BY <1>10, <2>3 DEF Test, LoopHead
    <3>2. job'[j] = [job[j] EXCEPT !.pc = "end"] /\ progress'[j] = [progress[j] EXCEPT !.cancelled = TRUE]
      BY <3>1 DEF Update
    <3> QED
      BY <2>1, <2>3, <3>2
  <2>4. CASE progress[j].tried < Total /\ ~job[j].stop
    <3>1. /\ job'[j] = [job[j] EXCEPT !.pc = "try", !.pin = First + progress[j].tried]
          /\ progress'[j] = [progress[j] EXCEPT !.tried = progress[j].tried + 1]
      BY <1>10, <2>4 DEF Test, LoopHead, Update
    <3>2. \A k \in Nat : k + 1 # 0 /\ (k + 1) - 1 = k /\ First + (k + 1) - 1 = First + k
      OBVIOUS
    <3>3. job[j].kind = "bruteforce" => Passed(progress[j].tried)
      BY <2>1, <2>4
    <3>4. progress[j].tried \in Nat /\ secret' = secret
      BY <1>10 DEF Test, LoopHead, JobFrame
    <3> QED
      BY <2>1, <2>4, <3>1, <3>2, <3>3, <3>4 DEF Passed
  <2> QED
    BY <2>2, <2>3, <2>4
<1>11. CASE Try(j)
  <2>1. job'[j] = [job[j] EXCEPT !.pc = "detect"] /\ progress'[j] = progress[j] /\ job[j].pc = "try"
    BY <1>11 DEF Try, Update
  <2>2. unlocked' = (unlocked \/ job[j].pin = secret)
    <3>1. unlocked' = (unlocked \/ Heard(EnterPin(ZeroFilled(job[j].pin))) = MetersPin(secret))
      BY <1>11 DEF Try
    <3>2. job[j].pin \in Nat
      BY <2>1
    <3> QED
      BY <3>1, <3>2, CandidateUnlocks
  <2> QED
    BY <2>1, <2>2
<1>12. CASE Detect(j)
  <2>1. job[j].pc = "detect" /\ unlocked' = unlocked
    BY <1>12 DEF Detect
  <2>2. PICK yes \in BOOLEAN : Answered(j, yes) /\ IF yes THEN unlocked ELSE job[j].stop \/ ~unlocked
    BY <1>12 DEF Detect
  <2>3. CASE job[j].kind = "send"
    <3>1. job'[j] = [job[j] EXCEPT !.pc = "leave", !.answer = yes] /\ progress'[j] = progress[j]
      BY <2>2, <2>3 DEF Answered, Update
    <3> QED
      BY <2>1, <2>2, <2>3, <3>1
  <2>4. CASE job[j].kind # "send" /\ yes
    <3>1. /\ job'[j] = [job[j] EXCEPT !.pc = "end"]
          /\ progress'[j] = [progress[j] EXCEPT !.found = job[j].pin]
      BY <2>2, <2>4 DEF Answered, Update
    <3> QED
      BY <2>1, <2>2, <2>4, <3>1
  <2>5. CASE job[j].kind # "send" /\ ~yes
    <3>1. /\ job'[j] = [job[j] EXCEPT !.pc = "test"]
          /\ progress'[j] = [progress[j] EXCEPT !.found = None]
      BY <2>2, <2>5 DEF Answered, Update
    <3>2. ~job[j].stop => ~unlocked
      BY <2>2, <2>5
    <3>3. Passed(progress[j].tried) \/ (job[j].stop /\ secret = First + progress[j].tried - 1)
      <4>1. /\ progress[j].tried \in Nat /\ progress[j].tried # 0
            /\ job[j].pin = First + progress[j].tried - 1 /\ Passed(progress[j].tried - 1)
        BY <2>1, <2>5
      <4>2. job[j].pin = secret => job[j].stop
        BY <2>1, <2>5, <3>2
      <4>3. \A k \in Nat : k # 0 /\ Passed(k - 1) => Passed(k) \/ secret = First + k - 1
        BY DEF Passed
      <4> QED
        BY ONLY <4>1, <4>2, <4>3
    <3> QED
      BY <2>1, <2>2, <2>5, <3>1, <3>2, <3>3
  <2> QED
    BY <2>3, <2>4, <2>5
<1>13. CASE PortFails(j)
  <2>1. job[j].pc \in {"try", "detect"} /\ unlocked' = unlocked
    BY <1>13 DEF PortFails
  <2>2. CASE job[j].kind = "send"
    <3>1. job'[j] = [job[j] EXCEPT !.pc = "failed"] /\ progress'[j] = progress[j]
      BY <1>13, <2>2 DEF PortFails, Update
    <3> QED
      BY <2>1, <2>2, <3>1
  <2>3. CASE job[j].kind # "send"
    <3>1. job'[j] = [job[j] EXCEPT !.pc = "end"] /\ progress'[j] = [progress[j] EXCEPT !.error = TRUE]
      BY <1>13, <2>3 DEF PortFails, Update
    <3> QED
      BY <2>1, <2>3, <3>1
  <2> QED
    BY <2>2, <2>3
<1> QED
  BY <1>1, <1>2, <1>3, <1>4, <1>5, <1>6, <1>7, <1>8, <1>9, <1>10, <1>11, <1>12, <1>13 DEF JobThread

LEMMA SecretStep ==
    ASSUME PromptMeter, TypeInv, CurrentInv, SecretInv, [Next]_vars
    PROVE  SecretInv'
<1>n. None \notin Jobs
  BY PinAssumption DEF PinAssumption
<1>1. ASSUME NEW j \in Jobs, NEW kind, NEW pc, NEW pin, Start(j, kind, pc, pin),
             <<kind, pc>> \in {<<"send", "show">>, <<"bruteforce", "enter">>}
      PROVE  SecretInv'
  <2>1. \A i \in Jobs \ {j} : ~Running(i)
    BY <1>1, <1>n DEF Start, Reject, Fresh, CurrentInv
  <2>2. /\ job'[j] = NewJob(kind, pc, pin) /\ progress'[j] = NoProgress
        /\ \A i \in Jobs \ {j} : job'[i] = Blank /\ progress'[i] = NoProgress
        /\ secret' = secret /\ unlocked' = unlocked
    BY <1>1, <2>1 DEF Start
  <2>3. /\ FoundOK(NewJob(kind, pc, pin), NoProgress, unlocked)
        /\ RangeOK(NewJob(kind, pc, pin), NoProgress, unlocked)
        /\ FoundOK(Blank, NoProgress, unlocked) /\ RangeOK(Blank, NoProgress, unlocked)
    BY <1>1 DEF FoundOK, RangeOK, NewJob, NoProgress, Blank
  <2>4. ASSUME NEW i \in Jobs
        PROVE  FoundOK(job'[i], progress'[i], unlocked') /\ RangeOK(job'[i], progress'[i], unlocked')
    BY <2>2, <2>3
  <2> QED
    BY <2>2, <2>4 DEF SecretInv, FoundOK, RangeOK, Passed
<1>2. ASSUME NEW j \in Jobs, JobThread(j) PROVE SecretInv'
  <2>1. Running(j) /\ secret' = secret
    BY <1>2, ThreadFrame DEF TypeInv
  <2>2. FoundOK(job'[j], progress'[j], unlocked') /\ RangeOK(job'[j], progress'[j], unlocked')
    BY <1>2, ThreadSecret DEF SecretInv
  <2>3. ASSUME NEW i \in Jobs \ {j}
        PROVE  FoundOK(job'[i], progress'[i], unlocked') /\ RangeOK(job'[i], progress'[i], unlocked')
    <3>1. PICK r, p : Leads(j, r, p)
      BY <1>2, ThreadLeads
    <3>2. job'[i] = job[i] /\ progress'[i] = progress[i]
      BY <3>1, Updated DEF Leads, TypeInv
    <3>3. job[i].pc = "off"
      BY <2>1 DEF CurrentInv, Running
    <3>4. FoundOK(job[i], progress[i], unlocked) /\ RangeOK(job[i], progress[i], unlocked)
      BY DEF SecretInv
    <3> QED
      BY <3>2, <3>3, <3>4 DEF FoundOK, RangeOK
  <2> QED
    BY <2>1, <2>2, <2>3 DEF SecretInv, FoundOK, RangeOK, Passed
<1>3. ASSUME NEW c \in Cancels, LookUp(c) PROVE SecretInv'
  BY <1>3 DEF LookUp, SecretInv, FoundOK, RangeOK, Passed
<1>4. ASSUME NEW c \in Cancels, Deliver(c) PROVE SecretInv'
  <2>1. progress' = progress /\ secret' = secret /\ unlocked' = unlocked
    BY <1>4 DEF Deliver
  <2>2. ASSUME NEW i \in Jobs
        PROVE  /\ job'[i].kind = job[i].kind /\ job'[i].pc = job[i].pc /\ job'[i].pin = job[i].pin
               /\ job'[i].answer = job[i].answer /\ job'[i].wasOpen = job[i].wasOpen
               /\ job[i].stop => job'[i].stop
    BY <1>4 DEF Deliver, TypeInv, PinTypeOK, JobRecord
  <2> QED
    BY <2>1, <2>2 DEF SecretInv, FoundOK, RangeOK, Passed
<1>5. CASE UNCHANGED vars
  BY <1>5 DEF vars, SecretInv, FoundOK, RangeOK, Passed
<1> QED
  BY <1>1, <1>2, <1>3, <1>4, <1>5 DEF Next, Send, Bruteforce

LEMMA SecretInductive ==
    ASSUME PromptMeter
    PROVE  Spec => []SecretInv
<1>1. Init => SecretInv
  BY PinAssumption DEF PinAssumption, Init, SecretInv, FoundOK, RangeOK, Blank, NewJob, NoProgress
<1>2. TypeInv /\ CurrentInv /\ SecretInv /\ [Next]_vars => SecretInv'
  BY SecretStep
<1> QED
  BY <1>1, <1>2, PinInductive, PTL DEF Spec

\* The PIN a job reports is the one the meter was unlocked with, whatever its
\* digits are and wherever the range begins and ends, unless the meter was open
\* before (pin.py:155-196).  The meter is one that shows in time that it is
\* unlocked.
THEOREM RightPinFound ==
    ASSUME PromptMeter
    PROVE  Spec => []FoundIsRight
<1>1. SecretInv => FoundIsRight
  BY DEF SecretInv, FoundOK, FoundIsRight
<1> QED
  BY <1>1, SecretInductive, PTL

\* A sweep that says "PIN not found in range" has passed over the PIN in no range
\* there is, except as the last candidate, when a stop cut that one short
\* (pin.py:165-196).
THEOREM RangeWithoutPin ==
    ASSUME PromptMeter
    PROVE  Spec => []NotFoundIsTrue
<1>1. ASSUME TypeInv, SecretInv PROVE NotFoundIsTrue
  <2>1. ASSUME NEW j \in Jobs
        PROVE  /\ job[j].kind = "bruteforce" /\ progress[j].finished /\ ~progress[j].cancelled
               /\ progress[j].found = None /\ ~progress[j].error
               => Passed(Total) \/ (job[j].stop /\ secret = First + Total - 1)
    BY <1>1 DEF SecretInv, RangeOK
  <2>2. Passed(Total) => secret \notin Candidates
    <3>1. First \in Nat /\ Total \in Nat
      BY PinAssumption DEF PinAssumption
    <3>2. secret \in Candidates => First <= secret /\ secret < First + Total
      BY <3>1 DEF Candidates
    <3> QED
      BY <3>2 DEF Passed
  <2>3. ASSUME NEW j \in Jobs
        PROVE  /\ job[j].kind = "bruteforce" /\ progress[j].finished /\ ~progress[j].cancelled
               /\ progress[j].found = None /\ ~progress[j].error
               => secret \notin Candidates \/ (job[j].stop /\ secret = First + Total - 1)
    <3> HIDE DEF Passed
    <3> QED
      BY <2>1, <2>2, Zenon
  <2> QED
    BY <2>3, Zenon DEF NotFoundIsTrue
<1> QED
  BY <1>1, SecretInductive, PinInductive, PTL
=============================================================================
