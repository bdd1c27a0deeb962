---------------------------- MODULE Windows_proofs ----------------------------
(***************************************************************************)
(* Proofs about the two things the Windows executor does: runs             *)
(* (WindowsExecutor, for any tasks, any budget of attempts and any window) *)
(* and profile operations (WindowsProfiles, for any profiles, any pool of  *)
(* addresses and any queue at the gateway).                                *)
(*                                                                         *)
(* What the process may report of a run depends on what it learned several *)
(* requests ago, while CAPE, the scheduler, the analyst and the broker     *)
(* went on: IInv says what of that is still true.  What it may report of a *)
(* profile depends on an answer of the gateway, which also works on        *)
(* requests that were given up: VMInv says why the answer is about the     *)
(* machine that the control plane means.                                   *)
(***************************************************************************)
EXTENDS WindowsExecutor, WindowsProfiles, FiniteSetTheorems, WellFoundedInduction,
        SequenceTheorems, TLAPS


-----------------------------------------------------------------------------
(* The inductive invariant *)

\* Before the loop, the process has no status to go by.
Starting == {"network", "submit", "record"}

\* In and after the loop it has a task, and the control plane has recorded it.
Working ==
  {"heartbeat", "renew", "status", "ready", "registering", "poll", "finish", "stopping",
   "handoff", "collect", "revoke", "report", "stopped", "acknowledge"}

\* A stage that waits has attempts left, and one at work has had one.
Budget ==
  /\ stage = "queued" => attempts < MaxAttempts
  /\ stage = "active" => attempts > 0

\* The clock of a window starts with its session.
WindowKept == WindowFixed /\ (session = "none" => elapsed = 0)

\* What a process knows of its task, and where it knows it.
TaskKnown ==
  /\ pc \in {"idle", "down"} => task = None
  /\ pc \in {"idle", "down"} \cup Starting => stop = "none" /\ seen = "none" /\ ~handoff
  /\ pc = "network" => task = native
  /\ pc = "submit" => task = None /\ native = None
  /\ pc = "record" => task # None
  /\ pc \in Working => task # None /\ native = task
  /\ pc \in {"ready", "registering", "poll"} => seen # "none"

TasksStarted ==
  /\ native # None => tasks[native] # "none"
  /\ task # None => tasks[task] # "none"

\* A task that was seen to be over is over, and what relies on that comes after it.
TaskOver ==
  /\ seen = "done" \/ handoff => task # None /\ tasks[task] = "done"
  /\ pc \in {"handoff", "collect", "revoke", "report"} => handoff
  /\ pc \in {"stopped", "acknowledge"} => tasks[task] # "active"
  /\ pc \in {"report", "acknowledge"} => lease # "held"

\* The process that settled the stage has done with it.
Settled ==
  stage \in {"completed", "acknowledged"} =>
    /\ pc \in {"idle", "fail", "down"}
    /\ native # None /\ tasks[native] # "active" /\ lease # "held"

IInv ==
  /\ TypeOK
  /\ Budget
  /\ WindowKept
  /\ TaskKnown
  /\ TasksStarted
  /\ TaskOver
  /\ Settled

-----------------------------------------------------------------------------
(* The clock *)

LEMMA MinOfTwo ==
  ASSUME NEW a \in Nat, NEW b \in Nat
  PROVE  Min({a, b}) = IF a <= b THEN a ELSE b
BY DEF Min

LEMMA MaxOfTwo ==
  ASSUME NEW a \in Int, NEW b \in Int
  PROVE  Max({a, b}) = IF a >= b THEN a ELSE b
BY DEF Max

-----------------------------------------------------------------------------
(* Preservation *)

USE DEF Starting, Working, Raising

\* Where a status of the task leads.
LEMMA LoopLeads ==
  ASSUME NEW value \in {"active", "done", "failed"}, LoopEnds(value), handoff \in BOOLEAN
  PROVE  pc' \in {"heartbeat", "handoff", "failing"} /\ handoff' \in BOOLEAN
BY DEF LoopEnds

\* A new attempt starts with the recorded task, and there was one left to make.
LEMMA ClaimKeeps ==
  ASSUME IInv, Claim
  PROVE  IInv'
<1>1. TypeOK'
  <2>1. attempts' \in 0 .. MaxAttempts
    BY TasksAssumption DEF IInv, TypeOK, Budget, Claim
  <2>2. /\ stage' = "active" /\ cancelling' \in BOOLEAN /\ pc' = "network" /\ task' = native
        /\ UNCHANGED <<native, pending, session, remaining, elapsed, stop, seen, handoff, console>>
        /\ UNCHANGED <<lease, tasks>>
    BY DEF Claim, Step, sessionVars
  <2>3. TypeOK
    BY DEF IInv
  <2> QED  BY <2>1, <2>2, <2>3 DEF TypeOK
<1>2. Budget' /\ WindowKept'
  <2>1. attempts' > 0 /\ stage' = "active"
    BY DEF IInv, TypeOK, Claim
  <2> QED  BY <2>1 DEF IInv, Budget, WindowKept, WindowFixed, Claim, sessionVars
<1>3. TaskKnown'
  BY DEF IInv, TaskKnown, Claim, Step
<1>4. TasksStarted'
  BY DEF IInv, TasksStarted, Claim
<1>5. TaskOver'
  BY DEF IInv, TaskKnown, TaskOver, Claim, Step
<1>6. Settled'
  BY DEF Settled, Claim
<1> QED  BY <1>1, <1>2, <1>3, <1>4, <1>5, <1>6 DEF IInv

\* Whatever the answer, the task is what the claim found.
LEMMA AcquireKeeps ==
  ASSUME IInv, Acquire
  PROVE  IInv'
<1>1. TypeOK'
  BY DEF IInv, TypeOK, Acquire, planeVars, sessionVars, claimVars
<1>2. Budget' /\ WindowKept'
  BY DEF IInv, Budget, WindowKept, WindowFixed, Acquire, planeVars, sessionVars
<1>3. TaskKnown'
  BY DEF IInv, TaskKnown, Acquire, planeVars, claimVars
<1>4. TasksStarted'
  BY DEF IInv, TasksStarted, Acquire, planeVars, claimVars
<1>5. TaskOver'
  BY DEF IInv, TaskOver, Acquire, claimVars
<1>6. Settled'
  BY DEF IInv, Settled, Acquire, planeVars
<1> QED  BY <1>1, <1>2, <1>3, <1>4, <1>5, <1>6 DEF IInv

\* A task is submitted only if none is known.
LEMMA SubmitKeeps ==
  ASSUME IInv, Submit
  PROVE  IInv'
<1>1. TypeOK'
  BY DEF IInv, TypeOK, Submit, planeVars, sessionVars
<1>2. Budget' /\ WindowKept'
  BY DEF IInv, Budget, WindowKept, WindowFixed, Submit, planeVars, sessionVars
<1>3. TaskKnown'
  BY NoneAssumption DEF IInv, TaskKnown, Submit
<1>4. TasksStarted'
  BY DEF IInv, TypeOK, TasksStarted, Submit, planeVars
<1>5. TaskOver'
  BY DEF IInv, TaskKnown, TaskOver, Submit
<1>6. Settled'
  BY DEF IInv, Settled, Submit, planeVars
<1> QED  BY <1>1, <1>2, <1>3, <1>4, <1>5, <1>6 DEF IInv

\* The loop is entered with the recorded task.
LEMMA RecordTaskKeeps ==
  ASSUME IInv, RecordTask
  PROVE  IInv'
<1>1. TypeOK'
  BY DEF IInv, TypeOK, RecordTask, sessionVars, claimVars
<1>2. Budget' /\ WindowKept'
  BY DEF IInv, Budget, WindowKept, WindowFixed, RecordTask, sessionVars
<1>3. TaskKnown'
  BY DEF IInv, TaskKnown, RecordTask, claimVars
<1>4. TasksStarted'
  BY DEF IInv, TasksStarted, RecordTask, claimVars
<1>5. TaskOver'
  BY DEF IInv, TaskOver, RecordTask, claimVars
<1>6. Settled'
  BY DEF IInv, Settled, RecordTask
<1> QED  BY <1>1, <1>2, <1>3, <1>4, <1>5, <1>6 DEF IInv

\* What the answer says of the run is remembered; the rest is the scheduler's.
LEMMA HeartbeatKeeps ==
  ASSUME IInv, Heartbeat
  PROVE  IInv'
<1>1. TypeOK'
  <2>1. CASE Expires
    BY <2>1 DEF IInv, TypeOK, Terminal, Heartbeat, Step, Expires, Ends, ClosesSession
  <2>2. CASE UNCHANGED <<planeVars, sessionVars>>
    BY <2>2 DEF IInv, TypeOK, Heartbeat, Step, planeVars, sessionVars
  <2> QED  BY <2>1, <2>2 DEF Heartbeat
<1>2. Budget' /\ WindowKept'
  <2>1. CASE Expires
    BY <2>1 DEF IInv, Budget, WindowKept, WindowFixed, Expires, Ends, MayRetry, ClosesSession,
       sessionVars
  <2>2. CASE UNCHANGED <<planeVars, sessionVars>>
    BY <2>2 DEF IInv, Budget, WindowKept, WindowFixed, planeVars, sessionVars
  <2> QED  BY <2>1, <2>2 DEF Heartbeat
<1>3. TaskKnown'
  BY DEF IInv, TaskKnown, Heartbeat, Step, Expires, planeVars
<1>4. TasksStarted'
  BY DEF IInv, TasksStarted, Heartbeat, Expires, planeVars
<1>5. TaskOver'
  BY DEF IInv, TaskOver, Heartbeat, Step
<1>6. Settled'
  BY DEF Settled, Heartbeat, Valid, Expires, Ends, planeVars
<1> QED  BY <1>1, <1>2, <1>3, <1>4, <1>5, <1>6 DEF IInv

\* A stop leads to the end of the task, and past it if the task is over.
LEMMA RenewKeeps ==
  ASSUME IInv, Renew
  PROVE  IInv'
<1>1. TypeOK'
  BY DEF IInv, TypeOK, Renew, planeVars, sessionVars, claimVars
<1>2. Budget' /\ WindowKept'
  BY DEF IInv, Budget, WindowKept, WindowFixed, Renew, planeVars, sessionVars
<1>3. TaskKnown'
  BY DEF IInv, TaskKnown, Renew, planeVars, claimVars
<1>4. TasksStarted'
  BY DEF IInv, TasksStarted, Renew, planeVars, claimVars
<1>5. TaskOver'
  BY DEF IInv, TaskOver, Renew, claimVars
<1>6. Settled'
  BY DEF IInv, Settled, Renew, planeVars
<1> QED  BY <1>1, <1>2, <1>3, <1>4, <1>5, <1>6 DEF IInv

\* A task that is over stays over.
LEMMA StatusKeeps ==
  ASSUME IInv, Status
  PROVE  IInv'
<1>1. TypeOK'
  <2>1. seen' \in {"active", "done", "failed"}
    BY DEF IInv, TypeOK, TaskKnown, TasksStarted, Status
  <2>2. /\ pc' \in {"ready", "poll", "heartbeat", "handoff", "failing"}
        /\ handoff' \in BOOLEAN
    BY <2>1, LoopLeads DEF IInv, TypeOK, Status
  <2> QED  BY <2>1, <2>2 DEF IInv, TypeOK, Status, planeVars, sessionVars
<1>2. Budget' /\ WindowKept'
  BY DEF IInv, Budget, WindowKept, WindowFixed, Status, planeVars, sessionVars
<1>3. TaskKnown'
  BY DEF IInv, TypeOK, TaskKnown, TasksStarted, Status, LoopEnds, planeVars
<1>4. TasksStarted'
  BY DEF IInv, TasksStarted, Status, planeVars
<1>5. TaskOver'
  BY DEF IInv, TypeOK, TaskKnown, TasksStarted, TaskOver, Status, LoopEnds
<1>6. Settled'
  BY DEF IInv, Settled, Status, planeVars
<1> QED  BY <1>1, <1>2, <1>3, <1>4, <1>5, <1>6 DEF IInv

\* The status it goes by may be old, but a task does not start again.
LEMMA PollKeeps ==
  ASSUME IInv, Poll
  PROVE  IInv'
<1>1. TypeOK'
  <2>1. seen \in {"active", "done", "failed"}
    BY DEF IInv, TypeOK, TaskKnown, Poll
  <2>2. /\ pc' \in {"finish", "heartbeat", "handoff", "failing"}
        /\ handoff' \in BOOLEAN
        /\ session' \in {session, "finalizing"}
    BY <2>1, LoopLeads DEF IInv, TypeOK, Poll
  <2> QED  BY <2>2 DEF IInv, TypeOK, Poll, planeVars
<1>2. Budget' /\ WindowKept'
  BY DEF IInv, Budget, WindowKept, WindowFixed, Poll, planeVars
<1>3. TaskKnown'
  BY DEF IInv, TypeOK, TaskKnown, Poll, LoopEnds, planeVars
<1>4. TasksStarted'
  BY DEF IInv, TasksStarted, Poll, planeVars
<1>5. TaskOver'
  BY DEF IInv, TypeOK, TaskKnown, TaskOver, Poll, LoopEnds
<1>6. Settled'
  BY DEF Settled, Poll, Valid, planeVars
<1> QED  BY <1>1, <1>2, <1>3, <1>4, <1>5, <1>6 DEF IInv

\* CAPE ends the task before the request returns.
LEMMA FinishTaskKeeps ==
  ASSUME IInv, FinishTask
  PROVE  IInv'
<1>1. TypeOK'
  <2>1. task \in Tasks /\ tasks[task] # "none"
    BY DEF IInv, TypeOK, TaskKnown, TasksStarted, FinishTask
  <2>2. /\ tasks' \in [Tasks -> {"none", "active", "done", "failed"}]
        /\ seen' = tasks'[task] /\ seen' \in {"done", "failed"} /\ LoopEnds(seen')
    BY <2>1 DEF IInv, TypeOK, FinishTask, TaskStops
  <2>3. pc' \in {"handoff", "failing"} /\ handoff' \in BOOLEAN
    BY <2>2, Zenon DEF IInv, TypeOK, LoopEnds
  <2>4. UNCHANGED <<planeVars, sessionVars, task, stop, lease>> /\ console' = "finished"
    BY DEF FinishTask
  <2> QED  BY <2>2, <2>3, <2>4 DEF IInv, TypeOK, planeVars, sessionVars
<1>2. Budget' /\ WindowKept'
  BY DEF IInv, Budget, WindowKept, WindowFixed, FinishTask, planeVars, sessionVars
<1>3. TaskKnown'
  BY DEF IInv, TypeOK, TaskKnown, TasksStarted, FinishTask, TaskStops, LoopEnds, planeVars
<1>4. TasksStarted'
  BY DEF IInv, TasksStarted, FinishTask, TaskStops, planeVars
<1>5. TaskOver'
  BY DEF IInv, TypeOK, TaskKnown, TasksStarted, TaskOver, FinishTask, TaskStops, LoopEnds
<1>6. Settled'
  BY DEF IInv, Settled, FinishTask, planeVars
<1> QED  BY <1>1, <1>2, <1>3, <1>4, <1>5, <1>6 DEF IInv

\* The same for a stop.
LEMMA StopTaskKeeps ==
  ASSUME IInv, StopTask
  PROVE  IInv'
<1>1. TypeOK'
  BY DEF IInv, TypeOK, TaskKnown, StopTask, Step, TaskStops, planeVars, sessionVars, claimVars
<1>2. Budget' /\ WindowKept'
  BY DEF IInv, Budget, WindowKept, WindowFixed, StopTask, planeVars, sessionVars
<1>3. TaskKnown'
  BY DEF IInv, TaskKnown, StopTask, Step, planeVars, claimVars
<1>4. TasksStarted'
  BY DEF IInv, TasksStarted, StopTask, TaskStops, planeVars, claimVars
<1>5. TaskOver'
  BY DEF IInv, TypeOK, TaskKnown, TaskOver, StopTask, Step, TaskStops, claimVars
<1>6. Settled'
  BY DEF IInv, Settled, StopTask, Step, planeVars
<1> QED  BY <1>1, <1>2, <1>3, <1>4, <1>5, <1>6 DEF IInv

\* The loop for the handoff begins again.
LEMMA AwaitHandoffKeeps ==
  ASSUME IInv, AwaitHandoff
  PROVE  IInv'
<1>1. TypeOK'
  BY DEF IInv, TypeOK, AwaitHandoff, Step, planeVars, sessionVars, claimVars
<1>2. Budget' /\ WindowKept'
  BY DEF IInv, Budget, WindowKept, WindowFixed, AwaitHandoff, planeVars, sessionVars
<1>3. TaskKnown'
  BY DEF IInv, TaskKnown, AwaitHandoff, Step, planeVars, claimVars
<1>4. TasksStarted'
  BY DEF IInv, TasksStarted, AwaitHandoff, planeVars, claimVars
<1>5. TaskOver'
  BY DEF IInv, TaskOver, AwaitHandoff, Step, claimVars
<1>6. Settled'
  BY DEF IInv, Settled, AwaitHandoff, Step, planeVars
<1> QED  BY <1>1, <1>2, <1>3, <1>4, <1>5, <1>6 DEF IInv

\* The evidence is collected from a task that is over.
LEMMA HandoffEndsKeeps ==
  ASSUME IInv, HandoffEnds
  PROVE  IInv'
<1>1. TypeOK'
  BY DEF IInv, TypeOK, HandoffEnds, planeVars, sessionVars, claimVars
<1>2. Budget' /\ WindowKept'
  BY DEF IInv, Budget, WindowKept, WindowFixed, HandoffEnds, planeVars, sessionVars
<1>3. TaskKnown'
  BY DEF IInv, TaskKnown, HandoffEnds, planeVars, claimVars
<1>4. TasksStarted'
  BY DEF IInv, TasksStarted, HandoffEnds, planeVars, claimVars
<1>5. TaskOver'
  BY DEF IInv, TaskOver, HandoffEnds, claimVars
<1>6. Settled'
  BY DEF IInv, Settled, HandoffEnds, planeVars
<1> QED  BY <1>1, <1>2, <1>3, <1>4, <1>5, <1>6 DEF IInv

\* The evidence of that task is complete.
LEMMA CollectKeeps ==
  ASSUME IInv, Collect
  PROVE  IInv'
<1>1. TypeOK'
  BY DEF IInv, TypeOK, Collect, Step, planeVars, sessionVars, claimVars
<1>2. Budget' /\ WindowKept'
  BY DEF IInv, Budget, WindowKept, WindowFixed, Collect, planeVars, sessionVars
<1>3. TaskKnown'
  BY DEF IInv, TaskKnown, Collect, Step, planeVars, claimVars
<1>4. TasksStarted'
  BY DEF IInv, TasksStarted, Collect, planeVars, claimVars
<1>5. TaskOver'
  BY DEF IInv, TaskOver, Collect, Step, claimVars
<1>6. Settled'
  BY DEF IInv, Settled, Collect, Step, planeVars
<1> QED  BY <1>1, <1>2, <1>3, <1>4, <1>5, <1>6 DEF IInv

\* The process reports only after its egress lease is gone.
LEMMA RevokeKeeps ==
  ASSUME IInv, Revoke
  PROVE  IInv'
<1>1. TypeOK'
  <2>1. \/ UNCHANGED claimVars
        \/ Forgets
    BY DEF Revoke, Revoked, Dies
  <2>2. task' \in Tasks \cup {None} /\ handoff' \in BOOLEAN
    BY <2>1 DEF IInv, TypeOK, Forgets, claimVars
  <2>3. /\ stop' \in {"none", "cancelled", "timeout"}
        /\ seen' \in {"none", "active", "done", "failed"}
        /\ console' \in {"closed", "registered", "finished"}
    BY <2>1 DEF IInv, TypeOK, Forgets, claimVars
  <2>4. /\ lease' \in {"none", "held", "lost"}
        /\ pc' \in {"report", "failing", "acknowledge", "fail", "down"}
    BY DEF IInv, TypeOK, Revoke, Revoked, Dies
  <2> QED  BY <2>2, <2>3, <2>4 DEF IInv, TypeOK, Revoke, planeVars, sessionVars
<1>2. Budget' /\ WindowKept'
  BY DEF IInv, Budget, WindowKept, WindowFixed, Revoke, planeVars, sessionVars
<1>3. TaskKnown'
  BY DEF IInv, TaskKnown, Revoke, Revoked, Dies, Forgets, planeVars, claimVars
<1>4. TasksStarted'
  BY DEF IInv, TasksStarted, Revoke, Revoked, Dies, Forgets, planeVars, claimVars
<1>5. TaskOver'
  BY DEF IInv, TaskOver, Revoke, Revoked, Dies, Forgets, claimVars
<1>6. Settled'
  BY DEF IInv, Settled, Revoke, planeVars
<1> QED  BY <1>1, <1>2, <1>3, <1>4, <1>5, <1>6 DEF IInv

\* The completed stage has a task that is over and no lease; nothing is done afterwards.
LEMMA ReportKeeps ==
  ASSUME IInv, Report
  PROVE  IInv'
<1>1. TypeOK'
  <2>1. \/ UNCHANGED <<stage, cancelling, sessionVars>>
        \/ Ends("completed") /\ ClosesSession("ended")
    BY DEF Report
  <2>2. /\ stage' \in {"queued", "active"} \cup Terminal
        /\ cancelling' \in BOOLEAN
        /\ session' \in {session, "none", "ended"}
        /\ remaining' = remaining /\ elapsed' = elapsed
    BY <2>1 DEF IInv, TypeOK, Ends, ClosesSession, Terminal, sessionVars
  <2>3. \/ pc' = "idle" /\ Forgets /\ UNCHANGED lease
        \/ pc' = "fail" /\ UNCHANGED <<claimVars, lease>>
    BY DEF Report, Released
  <2>4. /\ task' \in Tasks \cup {None} /\ handoff' \in BOOLEAN
        /\ stop' \in {"none", "cancelled", "timeout"}
        /\ seen' \in {"none", "active", "done", "failed"}
        /\ console' \in {"closed", "registered", "finished"}
    BY <2>3 DEF IInv, TypeOK, Forgets, claimVars
  <2> QED  BY <2>2, <2>3, <2>4 DEF IInv, TypeOK, Report
<1>2. Budget' /\ WindowKept'
  BY DEF IInv, Budget, WindowKept, WindowFixed, Report, Ends, ClosesSession, sessionVars
<1>3. TaskKnown'
  BY DEF TaskKnown, Report, Released, Forgets
<1>4. TasksStarted'
  BY DEF IInv, TasksStarted, Report, Released, Forgets, claimVars
<1>5. TaskOver'
  BY DEF IInv, TaskOver, Report, Released, Forgets, claimVars
<1>6. Settled'
  BY DEF IInv, TaskKnown, TaskOver, Settled, Report, Released
<1> QED  BY <1>1, <1>2, <1>3, <1>4, <1>5, <1>6 DEF IInv

\* The same for a cancellation.
LEMMA AcknowledgeKeeps ==
  ASSUME IInv, Acknowledge
  PROVE  IInv'
<1>1. TypeOK'
  <2>1. cancelling' \in BOOLEAN
    BY DEF IInv, TypeOK, Acknowledge, Reports, Ends, planeVars
  <2> QED
    BY <2>1, NoneAssumption, TasksAssumption, DurationAssumption
    DEF IInv, TypeOK, Terminal, Budget, TaskKnown, TasksStarted, Acknowledge, Reports, Dies,
       Valid, Ends, ClosesSession, Released, Forgets, planeVars, sessionVars
<1>2. Budget' /\ WindowKept'
  BY DEF IInv, Budget, WindowKept, WindowFixed, Acknowledge, Reports, Ends, ClosesSession,
     planeVars, sessionVars
<1>3. TaskKnown'
  BY DEF TaskKnown, Acknowledge, Reports, Dies, Released, Forgets
<1>4. TasksStarted'
  BY DEF IInv, TasksStarted, Acknowledge, Reports, Dies, Released, Forgets, planeVars
<1>5. TaskOver'
  BY DEF TaskOver, Acknowledge, Reports, Dies, Released, Forgets
<1>6. Settled'
  BY DEF IInv, TaskKnown, TaskOver, Settled, Acknowledge, Reports, Dies, Released, planeVars
<1> QED  BY <1>1, <1>2, <1>3, <1>4, <1>5, <1>6 DEF IInv

\* A stage that is queued again has an attempt left.
LEMMA FailKeeps ==
  ASSUME IInv, Fail
  PROVE  IInv'
<1>1. TypeOK'
  <2>1. cancelling' \in BOOLEAN
    BY DEF IInv, TypeOK, Fail, Reports, Ends
  <2> QED
    BY <2>1, NoneAssumption, TasksAssumption, DurationAssumption
    DEF IInv, TypeOK, Terminal, Budget, TaskKnown, TasksStarted, Fail, Reports, Dies, Valid,
       Ends, ClosesSession, Released, Forgets, MayRetry, sessionVars
<1>2. Budget' /\ WindowKept'
  BY DEF IInv, Budget, WindowKept, WindowFixed, Fail, Reports, Ends, ClosesSession, MayRetry,
     sessionVars
<1>3. TaskKnown'
  BY DEF TaskKnown, Fail, Reports, Dies, Released, Forgets
<1>4. TasksStarted'
  BY DEF IInv, TasksStarted, Fail, Reports, Dies, Released, Forgets
<1>5. TaskOver'
  BY DEF TaskOver, Fail, Reports, Dies, Released, Forgets
<1>6. Settled'
  BY DEF IInv, Settled, Fail, Reports, Dies, Ends
<1> QED  BY <1>1, <1>2, <1>3, <1>4, <1>5, <1>6 DEF IInv

\* The scheduler ends what is not settled.
LEMMA LeaseExpiresKeeps ==
  ASSUME IInv, LeaseExpires
  PROVE  IInv'
<1>1. TypeOK'
  BY DEF IInv, TypeOK, Terminal, LeaseExpires, Expires, Ends, ClosesSession, claimVars
<1>2. Budget' /\ WindowKept'
  BY DEF IInv, Budget, WindowKept, WindowFixed, LeaseExpires, Expires, Ends, MayRetry, ClosesSession
<1>3. TaskKnown'
  BY DEF IInv, TaskKnown, LeaseExpires, Expires, claimVars
<1>4. TasksStarted'
  BY DEF IInv, TasksStarted, LeaseExpires, Expires, claimVars
<1>5. TaskOver'
  BY DEF IInv, TaskOver, LeaseExpires, claimVars
<1>6. Settled'
  BY DEF Settled, LeaseExpires, Expires, Ends
<1> QED  BY <1>1, <1>2, <1>3, <1>4, <1>5, <1>6 DEF IInv

\* A cancellation changes what the next heartbeat says, no more.
LEMMA CancelKeeps ==
  ASSUME IInv, Cancel
  PROVE  IInv'
<1>1. TypeOK'
  <2>1. cancelling' \in BOOLEAN /\ stage' \in {stage, "ended"}
    BY DEF IInv, TypeOK, Cancel
  <2> QED  BY <2>1 DEF IInv, TypeOK, Terminal, Cancel, sessionVars, claimVars
<1>2. Budget' /\ WindowKept'
  BY DEF IInv, Budget, WindowKept, WindowFixed, Cancel, sessionVars
<1>3. TaskKnown'
  BY DEF IInv, TaskKnown, Cancel, claimVars
<1>4. TasksStarted'
  BY DEF IInv, TasksStarted, Cancel, claimVars
<1>5. TaskOver'
  BY DEF IInv, TaskOver, Cancel, claimVars
<1>6. Settled'
  BY DEF Settled, Cancel
<1> QED  BY <1>1, <1>2, <1>3, <1>4, <1>5, <1>6 DEF IInv

\* The window is not changed by a request to finish.
LEMMA FinishSessionKeeps ==
  ASSUME IInv, FinishSession
  PROVE  IInv'
<1>1. TypeOK'
  BY DEF IInv, TypeOK, FinishSession, planeVars, claimVars
<1>2. Budget' /\ WindowKept'
  BY DEF IInv, Budget, WindowKept, WindowFixed, FinishSession, planeVars
<1>3. TaskKnown'
  BY DEF IInv, TaskKnown, FinishSession, planeVars, claimVars
<1>4. TasksStarted'
  BY DEF IInv, TasksStarted, FinishSession, planeVars, claimVars
<1>5. TaskOver'
  BY DEF IInv, TaskOver, FinishSession, claimVars
<1>6. Settled'
  BY DEF IInv, Settled, FinishSession, planeVars
<1> QED  BY <1>1, <1>2, <1>3, <1>4, <1>5, <1>6 DEF IInv

\* What a dead process knew is forgotten.
LEMMA CrashKeeps ==
  ASSUME IInv, Crash
  PROVE  IInv'
<1>1. TypeOK'
  BY NoneAssumption, TasksAssumption, DurationAssumption
  DEF IInv, TypeOK, Terminal, Budget, TaskKnown, TasksStarted, Crash, Dies, Forgets,
     planeVars, sessionVars
<1>2. Budget' /\ WindowKept'
  BY DEF IInv, Budget, WindowKept, WindowFixed, Crash, planeVars, sessionVars
<1>3. TaskKnown'
  BY DEF TaskKnown, Crash, Dies, Forgets
<1>4. TasksStarted'
  BY DEF IInv, TasksStarted, Crash, Dies, Forgets, planeVars
<1>5. TaskOver'
  BY DEF TaskOver, Crash, Dies, Forgets
<1>6. Settled'
  BY DEF IInv, Settled, Crash, Dies, planeVars
<1> QED  BY <1>1, <1>2, <1>3, <1>4, <1>5, <1>6 DEF IInv

\* A new process knows nothing.
LEMMA RestartKeeps ==
  ASSUME IInv, Restart
  PROVE  IInv'
<1>1. TypeOK'
  BY DEF IInv, TypeOK, Restart, Step, planeVars, sessionVars, claimVars
<1>2. Budget' /\ WindowKept'
  BY DEF IInv, Budget, WindowKept, WindowFixed, Restart, planeVars, sessionVars
<1>3. TaskKnown'
  BY DEF IInv, TaskKnown, Restart, Step, claimVars
<1>4. TasksStarted'
  BY DEF IInv, TasksStarted, Restart, planeVars, claimVars
<1>5. TaskOver'
  BY DEF IInv, TaskOver, Restart, Step, claimVars
<1>6. Settled'
  BY DEF IInv, Settled, Restart, Step, planeVars
<1> QED  BY <1>1, <1>2, <1>3, <1>4, <1>5, <1>6 DEF IInv

\* A lease that is gone can only help.
LEMMA BrokerDropsKeeps ==
  ASSUME IInv, BrokerDrops
  PROVE  IInv'
<1>1. TypeOK'
  BY DEF IInv, TypeOK, BrokerDrops, planeVars, sessionVars, claimVars
<1>2. Budget' /\ WindowKept'
  BY DEF IInv, Budget, WindowKept, WindowFixed, BrokerDrops, planeVars, sessionVars
<1>3. TaskKnown'
  BY DEF IInv, TaskKnown, BrokerDrops, planeVars, claimVars
<1>4. TasksStarted'
  BY DEF IInv, TasksStarted, BrokerDrops, planeVars, claimVars
<1>5. TaskOver'
  BY DEF IInv, TaskOver, BrokerDrops, claimVars
<1>6. Settled'
  BY DEF IInv, Settled, BrokerDrops, planeVars
<1> QED  BY <1>1, <1>2, <1>3, <1>4, <1>5, <1>6 DEF IInv

\* A registration is sent, or its answer given up.
LEMMA ReadyKeeps ==
  ASSUME IInv, Ready
  PROVE  IInv'
<1>1. /\ UNCHANGED <<stage, attempts, cancelling, native, sessionVars, claimVars, lease, tasks>>
      /\ pc \in {"ready", "registering"} /\ pc' \in {"registering", "heartbeat"}
      /\ pending' \subseteq pending \cup {attempts} /\ (pending' # pending => Valid)
  BY DEF Ready, Step
<1>2. pending' \subseteq 1 .. MaxAttempts
  BY <1>1 DEF IInv, TypeOK, Budget, Valid
<1>3. TypeOK'
  BY <1>1, <1>2 DEF IInv, TypeOK, sessionVars, claimVars
<1>4. Budget' /\ WindowKept'
  BY <1>1 DEF IInv, Budget, WindowKept, WindowFixed, sessionVars
<1>5. TaskKnown' /\ TasksStarted'
  BY <1>1 DEF IInv, TaskKnown, TasksStarted, claimVars
<1>6. TaskOver' /\ Settled'
  BY <1>1 DEF IInv, TaskOver, Settled, claimVars
<1> QED  BY <1>3, <1>4, <1>5, <1>6 DEF IInv

\* However late it is, a registration keeps the window of the session that was there.
LEMMA RegistrationKeeps ==
  ASSUME IInv, NEW n \in pending, RegisterSession(n)
  PROVE  IInv'
<1>1. Window \in 0 .. Duration /\ (session # "none" => Window <= remaining)
  BY MinOfTwo, DurationAssumption DEF IInv, TypeOK, Window
<1>2. /\ session' = "ready" /\ remaining' = Window /\ elapsed' = elapsed
      /\ pending' \subseteq pending
      /\ UNCHANGED <<stage, attempts, cancelling, native, task, stop, seen, handoff, lease, tasks>>
      /\ \/ UNCHANGED <<pc, console>>
         \/ pc = "registering" /\ pc' = "poll" /\ console' = "registered"
  BY DEF RegisterSession
<1>3. TypeOK'
  <2>1. /\ remaining' \in 0 .. Duration /\ elapsed' \in 0 .. Duration
        /\ pending' \subseteq 1 .. MaxAttempts
    BY <1>1, <1>2 DEF IInv, TypeOK
  <2> QED  BY <1>2, <2>1 DEF IInv, TypeOK
<1>4. WindowKept'
  <2>1. CASE session = "none"
    BY <1>1, <1>2, <2>1 DEF IInv, WindowKept, WindowFixed
  <2>2. CASE session # "none"
    BY <1>1, <1>2, <2>2, DurationAssumption DEF IInv, TypeOK, WindowKept, WindowFixed
  <2> QED  BY <2>1, <2>2
<1>5. Budget' /\ TaskKnown' /\ TasksStarted'
  BY <1>2 DEF IInv, Budget, TaskKnown, TasksStarted
<1>6. TaskOver' /\ Settled'
  BY <1>2 DEF IInv, TaskOver, Settled
<1> QED  BY <1>3, <1>4, <1>5, <1>6 DEF IInv

\* Time takes from the window what it adds to the session.
LEMMA TickKeeps ==
  ASSUME IInv, Tick
  PROVE  IInv'
<1>1. /\ elapsed' = IF elapsed + 1 <= Duration THEN elapsed + 1 ELSE Duration
      /\ remaining' = IF remaining - 1 >= 0 THEN remaining - 1 ELSE 0
  BY MinOfTwo, MaxOfTwo, DurationAssumption DEF IInv, TypeOK, Tick
<1>2. TypeOK'
  BY <1>1, DurationAssumption DEF IInv, TypeOK, Tick, planeVars, claimVars
<1>3. WindowKept'
  BY <1>1 DEF IInv, TypeOK, WindowKept, WindowFixed, Tick
<1>4. Budget' /\ TaskKnown' /\ TasksStarted' /\ TaskOver' /\ Settled'
  BY DEF IInv, Budget, TaskKnown, TasksStarted, TaskOver, Settled, Tick, planeVars, claimVars
<1> QED  BY <1>2, <1>3, <1>4 DEF IInv

\* A task ends; one that was over was not active.
LEMMA TaskEndsKeeps ==
  ASSUME IInv, NEW t \in Tasks, TaskEnds(t)
  PROVE  IInv'
<1>1. PICK s \in {"done", "failed"} : tasks' = [tasks EXCEPT ![t] = s]
  BY DEF TaskEnds
<1>2. UNCHANGED <<planeVars, sessionVars, pc, claimVars, lease>> /\ tasks[t] = "active"
  BY DEF TaskEnds
<1>3. TypeOK' /\ Budget' /\ WindowKept'
  BY <1>1, <1>2 DEF IInv, TypeOK, Budget, WindowKept, WindowFixed, planeVars, sessionVars,
     claimVars
<1>4. TaskKnown' /\ TasksStarted'
  BY <1>1, <1>2 DEF IInv, TaskKnown, TasksStarted, planeVars, claimVars
<1>5. TaskOver' /\ Settled'
  BY <1>1, <1>2 DEF IInv, TaskOver, Settled, planeVars, claimVars
<1> QED  BY <1>3, <1>4, <1>5 DEF IInv

\* An exception ends the loops; the revocation and the report of a failure follow.
LEMMA RaisesKeeps ==
  ASSUME IInv, IsRefused \/ LosesNetwork \/ Raises
  PROVE  IInv'
<1>1. /\ pc \in Raising /\ pc' = "failing"
      /\ UNCHANGED <<planeVars, sessionVars, claimVars, lease, tasks>>
  BY DEF IsRefused, LosesNetwork, Raises, RaisesFrom, Refused
<1>2. TypeOK' /\ Budget' /\ WindowKept'
  BY <1>1 DEF IInv, TypeOK, Budget, WindowKept, WindowFixed, planeVars, sessionVars, claimVars
<1>3. TaskKnown' /\ TasksStarted' /\ TaskOver' /\ Settled'
  BY <1>1 DEF IInv, TaskKnown, TasksStarted, TaskOver, Settled, planeVars, claimVars
<1> QED  BY <1>2, <1>3 DEF IInv

-----------------------------------------------------------------------------
(* The theorems *)

LEMMA InitKeeps == Init => IInv
<1> SUFFICES ASSUME Init PROVE IInv
  OBVIOUS
<1>1. TypeOK
  <2>1. 0 \in 0 .. MaxAttempts /\ 0 \in 0 .. Duration
    BY TasksAssumption, DurationAssumption
  <2>2. tasks \in [Tasks -> {"none", "active", "done", "failed"}]
    BY DEF Init
  <2> QED  BY <2>1 DEF Init, TypeOK
<1>2. Budget /\ WindowKept
  BY TasksAssumption DEF Init, Budget, WindowKept, WindowFixed
<1>3. TaskKnown /\ TasksStarted /\ TaskOver /\ Settled
  BY DEF Init, TaskKnown, TasksStarted, TaskOver, Settled
<1> QED  BY <1>1, <1>2, <1>3 DEF IInv

LEMMA NextKeeps == IInv /\ [Next]_vars => IInv'
<1> SUFFICES ASSUME IInv, [Next]_vars PROVE IInv'
  OBVIOUS
<1>1. CASE ProcessNext \/ Raises
  BY <1>1, ClaimKeeps, AcquireKeeps, SubmitKeeps, RecordTaskKeeps, HeartbeatKeeps, RenewKeeps,
     StatusKeeps, ReadyKeeps, PollKeeps, FinishTaskKeeps, StopTaskKeeps, AwaitHandoffKeeps,
     HandoffEndsKeeps, CollectKeeps, RaisesKeeps, RevokeKeeps, ReportKeeps, AcknowledgeKeeps,
     FailKeeps DEF ProcessNext
<1>2. CASE UNCHANGED vars
  BY <1>2 DEF IInv, TypeOK, Budget, WindowKept, WindowFixed, TaskKnown, TasksStarted,
     TaskOver, Settled, vars, planeVars, sessionVars, claimVars
<1> QED  BY <1>1, <1>2, LeaseExpiresKeeps, CancelKeeps, FinishSessionKeeps, RegistrationKeeps,
   TaskEndsKeeps, CrashKeeps, RestartKeeps, BrokerDropsKeeps, TickKeeps DEF Next

\* The invariant holds in every state of every run of the executor.
LEMMA InvariantHolds == Spec => []IInv
BY InitKeeps, NextKeeps, PTL DEF Spec

\* Every variable holds values of its type; in particular no more attempts are made than the
\* stage has.
THEOREM TypeCorrect == Spec => []TypeOK
<1>1. IInv => TypeOK
  BY DEF IInv
<1> QED  BY <1>1, InvariantHolds, PTL

\* A completed analysis, or an acknowledged cancellation, has left CAPE's active states, and
\* its process has no egress lease, whatever failed on the way there.
THEOREM SettledIsQuiet == Spec => []SettledRunIsQuiet
<1>1. IInv => SettledRunIsQuiet
  BY DEF IInv, Settled, SettledRunIsQuiet
<1> QED  BY <1>1, InvariantHolds, PTL

\* No registration of the console, of whichever attempt, makes the analyst's window longer.
THEOREM WindowStaysFixed == Spec => []WindowFixed
<1>1. IInv => WindowFixed
  BY DEF IInv, WindowKept
<1> QED  BY <1>1, InvariantHolds, PTL

-----------------------------------------------------------------------------
(* Profiles: the inductive invariant *)

\* A profile's machine has all its parts.
Whole(p) == p \in domains \cap entries \cap files /\ address[p] # 0

\* Nothing is left of a profile's machine but what was left unnoticed.
Absent(p) ==
  /\ p \notin (domains \ strayDomains) \cup entries \cup files
  /\ address[p] = 0 \/ p \in strayAddresses

\* A profile has an operation while it is created or deleted; the executor has one while it
\* asks and until it has completed it, and its lease may have lapsed, but not ended.
OperationKept ==
  /\ \A p \in Profiles : op[p] # "none" <=> profile[p] \in {"provisioning", "deleting"}
  /\ doing \in {"idle", "down"} => current = NoProfile /\ result = "none"
  /\ doing \in {"asking", "complete"} =>
       current \in Profiles /\ op[current] \in {"leased", "lapsed"}
  /\ doing = "asking" => result = "none"
  /\ doing = "complete" => result # "none"

\* A profile has the label of its machine from its creation to its deletion.
LabelsKept ==
  \A p \in Profiles :
    /\ p \in labelled => profile[p] \in {"active", "deleting", "error"}
    /\ profile[p] = "active" => p \in labelled

\* A request is the one that the executor's operation needs.
AwaitedIs(r) == doing = "asking" /\ r.profile = current /\ r.kind = KindOf(current)

\* The executor awaits the one request that it asks, and that request is the one it needs.
AwaitedKept ==
  /\ \A i \in 1 .. Len(waiting) : waiting[i].awaited =>
       /\ AwaitedIs(waiting[i])
       /\ \A k \in 1 .. Len(waiting) : waiting[k].awaited => k = i
       /\ ~(job # NoJob /\ job.awaited)
  /\ job # NoJob /\ job.awaited => AwaitedIs(job)
  /\ doing = "asking" =>
       \/ job # NoJob /\ job.awaited
       \/ \E i \in 1 .. Len(waiting) : waiting[i].awaited

\* What the control plane knows of the profile of a request, awaited or not: it exists if it
\* is to be created, and is not active again once it is to be deleted.
Possible(r) ==
  IF r.kind = "create" THEN profile[r.profile] # "none"
                       ELSE profile[r.profile] \in {"deleting", "error", "deleted"}

RequestsPossible ==
  /\ \A i \in 1 .. Len(waiting) : Possible(waiting[i])
  /\ job # NoJob => Possible(job)

\* A machine that was answered to be there is there: only deletions take parts from it.
CreatedIsWhole ==
  result = "done" /\ KindOf(current) = "create" => Whole(current)

\* The states of a profile whose machine nobody is to take apart.
Living == {"provisioning", "active"}

\* So is one with a file, unless its profile failed or is to be deleted.
FilesWhole ==
  \A p \in files :
    /\ profile[p] # "none"
    /\ profile[p] \in Living => Whole(p)

\* And so is the machine of a profile that analysts may select.
ActiveWhole == \A p \in Profiles : profile[p] = "active" => Whole(p)

\* The steps of a creation that found no file.
Building == {"define", "reserve", "customize", "enter", "record"}

\* What a creation knows at each of its steps.
CreationKnows ==
  job # NoJob /\ job.kind = "create" =>
    /\ job.step \in {"check"} \cup Building
    /\ job.step \in Building => job.profile \notin files
    /\ job.step \in {"define", "reserve"} => Free # {}
    /\ job.step \in Building \ {"define"} => job.profile \in domains
    /\ job.step \in Building \ {"define", "reserve"} => address[job.profile] # 0
    /\ job.step = "record" => job.profile \in entries

\* What a deletion knows at each of its steps.
DeletionKnows ==
  job # NoJob /\ job.kind = "delete" =>
    /\ job.step \in {"check", "leave", "undefine", "release"}
    /\ job.step # "check" => job.profile \in files
    /\ job.step \in {"undefine", "release"} => job.profile \notin entries
    /\ job.step = "release" => job.profile \notin domains \ strayDomains

\* The request that is served is for p and at one of these steps.
InWork(p, steps) == job # NoJob /\ p = job.profile /\ job.step \in steps

\* Unless it was left unnoticed, each part of a machine is where a file or a request accounts
\* for it.
PartsKnown ==
  \A p \in Profiles :
    /\ p \in domains \ strayDomains => InWork(p, Building \ {"define"}) \/ p \in files
    /\ address[p] # 0 /\ p \notin strayAddresses =>
         InWork(p, Building \ {"define", "reserve"}) \/ p \in files

\* In order, the awaited request is the last of all: what the executor gave up is served
\* before it.
AwaitedLast ==
  /\ \A i \in 1 .. Len(waiting) : waiting[i].awaited => i = Len(waiting)
  /\ job # NoJob /\ job.awaited => waiting = <<>>

\* Then the label tells the requests for creations from those for deletions, and no request is
\* left when it changes.
Fits(r) ==
  IF r.kind = "create"
  THEN r.profile \notin labelled /\ profile[r.profile] \in {"provisioning", "deleting", "error"}
  ELSE r.profile \in labelled /\ profile[r.profile] \in {"deleting", "error"}

RequestsFit ==
  /\ \A i \in 1 .. Len(waiting) : Fits(waiting[i])
  /\ job # NoJob => Fits(job)

\* And what was answered stays true, since no request is left that could change it.
AnswersStay ==
  result = "done" =>
    /\ waiting = <<>> /\ job = NoJob
    /\ KindOf(current) = "delete" => Absent(current)

\* The conjuncts about operations and requests.
ControlInv ==
  /\ Typed
  /\ OperationKept
  /\ LabelsKept
  /\ AwaitedKept
  /\ RequestsPossible

\* The conjuncts about machines.
MachineInv ==
  /\ CreatedIsWhole
  /\ FilesWhole
  /\ ActiveWhole
  /\ CreationKnows
  /\ DeletionKnows
  /\ PartsKnown

\* What holds besides as long as requests are served in the order of their arrival.
OrderInv ==
  ~overtaken =>
    /\ AwaitedLast
    /\ RequestsFit
    /\ AnswersStay

\* The inductive invariant.
VMInv == ControlInv /\ MachineInv /\ OrderInv

-----------------------------------------------------------------------------

\* A set of naturals that is not empty has a least element.
LEMMA LeastNumber ==
  ASSUME NEW T, T \subseteq Nat, T # {}
  PROVE  \E m \in T : \A n \in T : m <= n
<1>1. PICK m \in T : \A n \in T : ~(<<n, m>> \in OpToRel(<, Nat))
  BY WFMin, NatLessThanWellFounded, Zenon
<1>2. \A n \in T : <<n, m>> \in Nat \X Nat /\ <<n, m>>[1] = n /\ <<n, m>>[2] = m
  OBVIOUS
<1>3. \A n \in T : ~(n < m)
  BY <1>1, <1>2, Zenon DEF OpToRel
<1>. QED  BY <1>3

\* The address that a creation takes is one of the pool.
LEMMA NextAddress ==
  ASSUME Free # {}
  PROVE  Min(Free) \in Addresses \ {0}
<1>1. Free \subseteq Nat \ {0} /\ Free \subseteq Addresses
  BY AddressesAssumption DEF Free
<1>2. PICK m \in Free : \A n \in Free : m <= n
  BY <1>1, LeastNumber
<1>3. Min(Free) \in Free
  BY <1>2 DEF Min
<1>. QED  BY <1>1, <1>3

\* A request that is queued is the last, and the others stay where they are.
LEMMA Appended ==
  ASSUME waiting \in Seq(Request), NEW r \in Request,
         waiting' = Append(waiting, r)
  PROVE  /\ waiting' \in Seq(Request)
         /\ waiting' # <<>>
         /\ Len(waiting') = Len(waiting) + 1
         /\ waiting'[Len(waiting')] = r
         /\ \A i \in 1 .. Len(waiting') :
              i # Len(waiting') => i \in 1 .. Len(waiting) /\ waiting'[i] = waiting[i]
<1>. QED  BY AppendProperties, LenProperties

\* When a request is served, those after it move up by one.
LEMMA Served ==
  ASSUME waiting \in Seq(Request), NEW i \in DOMAIN waiting, waiting' = Without(waiting, i)
  PROVE  /\ waiting' \in Seq(Request)
         /\ Len(waiting) \in Nat \ {0} /\ Len(waiting') = Len(waiting) - 1
         /\ i \in 1 .. Len(waiting) /\ waiting[i] \in Request
         /\ \A k \in 1 .. Len(waiting') :
              /\ k < i => k \in 1 .. Len(waiting) /\ waiting'[k] = waiting[k]
              /\ ~(k < i) => k + 1 \in 1 .. Len(waiting) /\ waiting'[k] = waiting[k + 1]
<1>1. /\ Len(waiting) \in Nat
      /\ DOMAIN waiting = 1 .. Len(waiting)
      /\ \A k \in 1 .. Len(waiting) : waiting[k] \in Request
  BY LenProperties, ElementOfSeq
<1>2. i \in 1 .. Len(waiting) /\ Len(waiting) \in Nat \ {0} /\ Len(waiting) - 1 \in Nat
  BY <1>1
<1>. DEFINE left(k) == IF k < i THEN waiting[k] ELSE waiting[k + 1]
<1>3. \A k \in 1 .. Len(waiting) - 1 :
        /\ left(k) \in Request
        /\ k < i => k \in 1 .. Len(waiting)
        /\ ~(k < i) => k + 1 \in 1 .. Len(waiting)
  BY <1>1, <1>2
<1>4. waiting' = [k \in 1 .. Len(waiting) - 1 |-> left(k)]
  BY DEF Without
<1>. HIDE DEF left
<1>5. waiting' \in Seq(Request)
  BY <1>2, <1>3, <1>4, IsASeq
<1>6. Len(waiting') = Len(waiting) - 1
  BY <1>2, <1>4, <1>5, LenProperties
<1>7. \A k \in 1 .. Len(waiting') : waiting'[k] = left(k)
  BY <1>4, <1>6
<1>. QED  BY <1>1, <1>2, <1>3, <1>5, <1>6, <1>7 DEF left

\* A client that goes leaves its requests, and none of them is awaited.
LEMMA Abandoned ==
  ASSUME waiting \in Seq(Request), job \in Job \cup {NoJob}, Abandons
  PROVE  /\ waiting' \in Seq(Request)
         /\ Len(waiting') = Len(waiting)
         /\ waiting = <<>> => waiting' = <<>>
         /\ \A i \in 1 .. Len(waiting) :
              /\ ~waiting'[i].awaited
              /\ waiting'[i].kind = waiting[i].kind
              /\ waiting'[i].profile = waiting[i].profile
         /\ job' \in Job \cup {NoJob}
         /\ job' = NoJob <=> job = NoJob
         /\ job # NoJob =>
              /\ ~job'.awaited
              /\ job'.kind = job.kind
              /\ job'.profile = job.profile
              /\ job'.step = job.step
<1>1. /\ Len(waiting) \in Nat
      /\ DOMAIN waiting = 1 .. Len(waiting)
      /\ \A i \in 1 .. Len(waiting) : waiting[i] \in Request
  BY LenProperties, ElementOfSeq
<1>2. waiting' \in Seq(Request)
  <2>1. \A i \in 1 .. Len(waiting) : [waiting[i] EXCEPT !.awaited = FALSE] \in Request
    BY <1>1 DEF Request
  <2>2. waiting' = [i \in 1 .. Len(waiting) |-> [waiting[i] EXCEPT !.awaited = FALSE]]
    BY <1>1 DEF Abandons
  <2>. QED  BY <1>1, <2>1, <2>2, IsASeq
<1>3. Len(waiting') = Len(waiting)
  BY <1>1, <1>2, LenProperties DEF Abandons
<1>4. waiting = <<>> => waiting' = <<>>
  BY <1>2, <1>3, EmptySeq
<1>5. ASSUME NEW i \in 1 .. Len(waiting)
      PROVE  /\ ~waiting'[i].awaited
             /\ waiting'[i].kind = waiting[i].kind
             /\ waiting'[i].profile = waiting[i].profile
  BY <1>1 DEF Abandons, Request
<1>6. /\ job' \in Job \cup {NoJob}
      /\ job' = NoJob <=> job = NoJob
      /\ job # NoJob =>
           /\ ~job'.awaited
           /\ job'.kind = job.kind
           /\ job'.profile = job.profile
           /\ job'.step = job.step
  BY DEF Abandons, Job, NoJob, Steps
<1>. QED  BY <1>2, <1>3, <1>4, <1>5, <1>6

\* The invariant implies that the executor awaits one request, and only while it asks.
LEMMA AwaitsTheOne == ControlInv => AwaitsOne
<1>. SUFFICES ASSUME ControlInv PROVE AwaitsOne
  OBVIOUS
<1>1. Len(waiting) \in Nat /\ DOMAIN waiting = 1 .. Len(waiting)
  BY LenProperties DEF ControlInv, Typed
<1>2. CASE doing # "asking"
  BY <1>1, <1>2, Zenon DEF ControlInv, AwaitedKept, AwaitedIs, AwaitsOne, Awaited
<1>3. CASE doing = "asking" /\ job # NoJob /\ job.awaited
  <2>1. Awaited = {0}
    BY <1>1, <1>3, Zenon DEF ControlInv, AwaitedKept, Awaited
  <2>. QED  BY <1>3, <2>1 DEF AwaitsOne
<1>4. CASE doing = "asking" /\ ~(job # NoJob /\ job.awaited)
  <2>1. PICK i \in 1 .. Len(waiting) : waiting[i].awaited
    BY <1>4, Zenon DEF ControlInv, AwaitedKept
  <2>2. \A k \in 1 .. Len(waiting) : waiting[k].awaited => k = i
    BY <2>1, Zenon DEF ControlInv, AwaitedKept
  <2>3. Awaited = {k \in 1 .. Len(waiting) : waiting[k].awaited}
    BY <1>1, <1>4, Zenon DEF Awaited
  <2>. QED  BY <1>4, <2>1, <2>2, <2>3 DEF AwaitsOne
<1>. QED  BY <1>2, <1>3, <1>4

\* The invariant holds when nothing exists.
LEMMA InitHolds == VMInit => VMInv
<1>. SUFFICES ASSUME VMInit PROVE VMInv
  OBVIOUS
<1>0. waiting \in Seq(Request) /\ Len(waiting) = 0
  BY EmptySeq DEF VMInit
<1>1. Typed
  BY <1>0 DEF VMInit, Typed
<1>2. OperationKept /\ LabelsKept /\ AwaitedKept /\ RequestsPossible
  BY <1>0 DEF VMInit, OperationKept, LabelsKept, AwaitedKept, RequestsPossible
<1>3. MachineInv
  BY DEF VMInit, MachineInv, CreatedIsWhole, FilesWhole, ActiveWhole, CreationKnows,
         DeletionKnows, PartsKnown, InWork
<1>4. OrderInv
  BY <1>0 DEF VMInit, OrderInv, AwaitedLast, RequestsFit, AnswersStay
<1>. QED  BY <1>1, <1>2, <1>3, <1>4 DEF VMInv, ControlInv

-----------------------------------------------------------------------------
(* The control plane *)

\* A profile whose operation is queued had none, so that no answer is about it.
LEMMA OperationQueued ==
  ASSUME VMInv, NEW p \in Profiles, NEW state \in {"provisioning", "deleting"},
         profile[p] \in IF state = "provisioning" THEN {"none"} ELSE {"active", "error"},
         profile' = [profile EXCEPT ![p] = state],
         op' = [op EXCEPT ![p] = "queued"],
         UNCHANGED <<labelled, executorVars, gatewayVars>>
  PROVE  VMInv'
<1>. USE DEF executorVars, gatewayVars, machineVars, strayVars
<1>0. /\ Typed /\ Len(waiting) \in Nat
      /\ \A i \in 1 .. Len(waiting) : waiting[i] \in Request
      /\ job # NoJob => job \in Job
  BY LenProperties, ElementOfSeq DEF VMInv, ControlInv, Typed
<1>1. Typed'
  BY <1>0 DEF Typed
<1>2. OperationKept' /\ LabelsKept'
  BY <1>0 DEF VMInv, ControlInv, OperationKept, LabelsKept, Typed
<1>3. doing \in {"asking", "complete"} => current # p /\ KindOf(current)' = KindOf(current)
  BY <1>0 DEF VMInv, ControlInv, OperationKept, KindOf, Typed
<1>4. result = "done" => KindOf(current)' = KindOf(current)
  BY <1>0, <1>3 DEF VMInv, ControlInv, OperationKept, Typed
<1>5. AwaitedKept'
  BY <1>3, Zenon DEF VMInv, ControlInv, AwaitedKept, AwaitedIs
<1>6. RequestsPossible'
  BY <1>0 DEF VMInv, ControlInv, RequestsPossible, Possible, Request, Job, Typed
<1>7. MachineInv'
  <2>1. CreatedIsWhole'
    BY <1>4 DEF VMInv, MachineInv, CreatedIsWhole, Whole
  <2>2. FilesWhole' /\ ActiveWhole'
    BY <1>0 DEF VMInv, MachineInv, FilesWhole, ActiveWhole, Whole, Typed, Living
  <2>3. CreationKnows' /\ DeletionKnows' /\ PartsKnown'
    BY DEF VMInv, MachineInv, CreationKnows, DeletionKnows, PartsKnown, InWork, Free
  <2>. QED  BY <2>1, <2>2, <2>3 DEF MachineInv
<1>8. OrderInv'
  <2>. SUFFICES ASSUME ~overtaken PROVE AwaitedLast' /\ RequestsFit' /\ AnswersStay'
    BY DEF OrderInv
  <2>1. AwaitedLast' /\ AnswersStay'
    BY <1>4 DEF VMInv, OrderInv, AwaitedLast, AnswersStay, Absent
  <2>2. RequestsFit'
    BY <1>0 DEF VMInv, OrderInv, RequestsFit, Fits, Request, Job, Typed
  <2>. QED  BY <2>1, <2>2
<1>. QED  BY <1>1, <1>2, <1>5, <1>6, <1>7, <1>8 DEF VMInv, ControlInv

\* A profile is created.
LEMMA CreateProfileStep ==
  ASSUME VMInv, NEW p \in Profiles, CreateProfile(p)
  PROVE  VMInv'
BY OperationQueued DEF CreateProfile

\* A profile is deleted.
LEMMA DeleteProfileStep ==
  ASSUME VMInv, NEW p \in Profiles, DeleteProfile(p)
  PROVE  VMInv'
BY OperationQueued DEF DeleteProfile

\* A lapsed lease still is one that the executor works under.
LEMMA LeaseLapsesStep ==
  ASSUME VMInv, NEW p \in Profiles, LeaseLapses(p)
  PROVE  VMInv'
<1>. USE DEF LeaseLapses, executorVars, gatewayVars, machineVars, strayVars
<1>1. ControlInv'
  BY DEF VMInv, ControlInv, Typed, OperationKept, LabelsKept, AwaitedKept, AwaitedIs,
         RequestsPossible, Possible, KindOf
<1>2. MachineInv'
  BY DEF VMInv, MachineInv, CreatedIsWhole, FilesWhole, ActiveWhole, CreationKnows,
         DeletionKnows, PartsKnown, InWork, Free, KindOf, Whole
<1>3. OrderInv'
  BY DEF VMInv, OrderInv, AwaitedLast, RequestsFit, Fits, AnswersStay, KindOf, Absent
<1>. QED  BY <1>1, <1>2, <1>3 DEF VMInv

-----------------------------------------------------------------------------
(* The executor *)

\* The request of a claim is the last and fits its profile.
LEMMA ClaimStep ==
  ASSUME VMInv, NEW p \in Profiles, ClaimOperation(p)
  PROVE  VMInv'
<1>. USE DEF ClaimOperation, Learns, machineVars, strayVars
<1>0. /\ Typed /\ Len(waiting) \in Nat /\ result = "none"
      /\ profile[p] \in {"provisioning", "deleting"}
      /\ KindOf(p) \in Kind
      /\ current' = p /\ KindOf(p)' = KindOf(p)
      /\ doing' \in {"asking", "complete"} /\ result' # "done"
  BY LenProperties
     DEF VMInv, ControlInv, Typed, OperationKept, KindOf, Kind
<1>1. /\ \A i \in 1 .. Len(waiting) : ~waiting[i].awaited
      /\ ~(job # NoJob /\ job.awaited)
  BY Zenon DEF VMInv, ControlInv, AwaitedKept, AwaitedIs
<1>2. OperationKept' /\ LabelsKept'
  BY <1>0 DEF VMInv, ControlInv, OperationKept, LabelsKept, Typed
<1>3. MachineInv' /\ AnswersStay'
  <2>1. CreatedIsWhole' /\ AnswersStay'
    BY <1>0 DEF CreatedIsWhole, AnswersStay
  <2>2. FilesWhole' /\ ActiveWhole'
    BY DEF VMInv, MachineInv, FilesWhole, ActiveWhole, Whole
  <2>3. CreationKnows' /\ DeletionKnows' /\ PartsKnown'
    BY DEF VMInv, MachineInv, CreationKnows, DeletionKnows, PartsKnown, InWork, Free
  <2>. QED  BY <2>1, <2>2, <2>3 DEF MachineInv
<1>4. CASE KindOf(p) = "delete" /\ p \notin labelled
  <2>1. Typed'
    BY <1>0, <1>4 DEF Typed
  <2>2. AwaitedKept' /\ AwaitedLast'
    BY <1>1, <1>4, Zenon DEF AwaitedKept, AwaitedIs, AwaitedLast
  <2>3. RequestsPossible' /\ (~overtaken => RequestsFit')
    BY <1>4 DEF VMInv, ControlInv, RequestsPossible, Possible, OrderInv, RequestsFit, Fits
  <2>. QED  BY <1>2, <1>3, <2>1, <2>2, <2>3 DEF VMInv, ControlInv, OrderInv
<1>5. CASE ~(KindOf(p) = "delete" /\ p \notin labelled)
  <2>. DEFINE request == [kind |-> KindOf(p), profile |-> p, awaited |-> TRUE]
  <2>0. /\ request \in Request
        /\ waiting' = Append(waiting, request)
        /\ doing' = "asking"
    BY <1>0, <1>5 DEF Request
  <2>1. /\ waiting' \in Seq(Request)
        /\ waiting' # <<>>
        /\ Len(waiting') = Len(waiting) + 1
        /\ waiting'[Len(waiting')] = request
        /\ \A i \in 1 .. Len(waiting') :
             i # Len(waiting') => i \in 1 .. Len(waiting) /\ waiting'[i] = waiting[i]
    BY <1>0, <2>0, Appended DEF Typed
  <2>2. Typed'
    BY <1>0, <2>0, <2>1 DEF Typed
  <2>3. AwaitedKept' /\ AwaitedLast'
    <3>1. /\ Len(waiting') \in 1 .. Len(waiting')
          /\ waiting'[Len(waiting')].awaited
          /\ waiting'[Len(waiting')].profile = current'
          /\ waiting'[Len(waiting')].kind = KindOf(p)
      BY <1>0, <2>1
    <3>2. AwaitedIs(waiting[Len(waiting)])'
      BY <1>0, <2>0, <3>1 DEF AwaitedIs, KindOf
    <3>3. \A i \in 1 .. Len(waiting') :
            waiting'[i].awaited => i = Len(waiting') /\ AwaitedIs(waiting[i])'
      BY <1>1, <2>1, <3>2, Zenon
    <3>4. ~(job' # NoJob /\ job'.awaited)
      BY <1>1
    <3>. QED  BY <2>1, <3>1, <3>3, <3>4, Zenon DEF AwaitedKept, AwaitedLast
  <2>4. RequestsPossible'
    <3>1. Possible(request)
      BY <1>0 DEF Possible, KindOf
    <3>2. \A i \in 1 .. Len(waiting') : Possible(waiting'[i])
      BY <2>1, <3>1, Zenon DEF VMInv, ControlInv, RequestsPossible
    <3>. QED  BY <3>2 DEF VMInv, ControlInv, RequestsPossible, Possible
  <2>5. ~overtaken => RequestsFit'
    <3>1. Fits(request)
      BY <1>0, <1>5 DEF VMInv, ControlInv, LabelsKept, Fits, KindOf
    <3>2. ~overtaken => \A i \in 1 .. Len(waiting') : Fits(waiting'[i])
      BY <2>1, <3>1, Zenon DEF VMInv, OrderInv, RequestsFit
    <3>. QED  BY <3>2 DEF VMInv, OrderInv, RequestsFit, Fits
  <2>. QED  BY <1>2, <1>3, <2>2, <2>3, <2>4, <2>5 DEF VMInv, ControlInv, OrderInv
<1>. QED  BY <1>4, <1>5

\* A client that gives up, or dies, awaits nothing.
LEMMA AbandonedStep ==
  ASSUME VMInv, Abandons, UNCHANGED <<profileVars, machineVars, overtaken>>,
         \/ /\ doing = "asking" /\ doing' = "complete"
            /\ result' = "failed" /\ current' = current
         \/ doing' = "down" /\ result' = "none" /\ current' = NoProfile
  PROVE  VMInv'
<1>. USE DEF profileVars, machineVars, strayVars
<1>0. Typed /\ Len(waiting) \in Nat
  BY LenProperties DEF VMInv, ControlInv, Typed
<1>1. /\ waiting' \in Seq(Request)
      /\ Len(waiting') = Len(waiting)
      /\ \A i \in 1 .. Len(waiting) :
           /\ ~waiting'[i].awaited
           /\ waiting'[i].kind = waiting[i].kind
           /\ waiting'[i].profile = waiting[i].profile
      /\ job' \in Job \cup {NoJob}
      /\ job' = NoJob <=> job = NoJob
      /\ job # NoJob =>
           /\ ~job'.awaited
           /\ job'.kind = job.kind
           /\ job'.profile = job.profile
           /\ job'.step = job.step
  BY <1>0, Abandoned DEF Typed
<1>2. Typed'
  BY <1>0, <1>1 DEF Typed
<1>3. OperationKept' /\ LabelsKept'
  BY <1>0 DEF VMInv, ControlInv, OperationKept, LabelsKept, Typed
<1>4. AwaitedKept' /\ AwaitedLast'
  <2>1. \A i \in 1 .. Len(waiting') : ~waiting'[i].awaited
    BY <1>1
  <2>2. ~(job' # NoJob /\ job'.awaited)
    BY <1>1, Zenon
  <2>3. doing' # "asking"
    OBVIOUS
  <2>. QED  BY <2>1, <2>2, <2>3, Zenon DEF AwaitedKept, AwaitedLast
<1>5. RequestsPossible' /\ (~overtaken => RequestsFit')
  BY <1>1 DEF VMInv, ControlInv, RequestsPossible, Possible, OrderInv, RequestsFit, Fits
<1>6. MachineInv' /\ AnswersStay'
  <2>1. CreatedIsWhole' /\ AnswersStay'
    BY DEF CreatedIsWhole, AnswersStay
  <2>2. FilesWhole' /\ ActiveWhole'
    BY DEF VMInv, MachineInv, FilesWhole, ActiveWhole, Whole
  <2>3. CreationKnows' /\ DeletionKnows' /\ PartsKnown'
    BY <1>1 DEF VMInv, MachineInv, CreationKnows, DeletionKnows, PartsKnown, InWork, Free
  <2>. QED  BY <2>1, <2>2, <2>3 DEF MachineInv
<1>. QED  BY <1>2, <1>3, <1>4, <1>5, <1>6 DEF VMInv, ControlInv, OrderInv

\* A completion without error changes the label when no request is left; one with an error
\* leaves the label as it is.
LEMMA CompleteStep ==
  ASSUME VMInv, CompleteOperation
  PROVE  VMInv'
<1>. USE DEF ForgetsOperation, gatewayVars, machineVars, strayVars
<1>0. /\ Typed /\ Len(waiting) \in Nat /\ doing = "complete"
      /\ \A i \in 1 .. Len(waiting) : waiting[i] \in Request
      /\ job # NoJob => job \in Job
      /\ current \in Profiles /\ profile[current] \in {"provisioning", "deleting"}
      /\ result \in {"done", "failed"}
      /\ UNCHANGED <<waiting, job, machineVars, overtaken>>
      /\ doing' \in {"idle", "down"} /\ current' = NoProfile /\ result' = "none"
  BY LenProperties, ElementOfSeq
     DEF VMInv, ControlInv, Typed, OperationKept, CompleteOperation
<1>1. AwaitedKept' /\ AwaitedLast'
  <2>1. /\ \A i \in 1 .. Len(waiting) : ~waiting[i].awaited
        /\ ~(job # NoJob /\ job.awaited)
        /\ doing' # "asking"
    <3>1. doing # "asking" /\ doing' # "asking"
      BY <1>0
    <3>. QED  BY <3>1, Zenon DEF VMInv, ControlInv, AwaitedKept, AwaitedIs
  <2>2. waiting' = waiting /\ job' = job
    BY <1>0
  <2>. QED  BY <2>1, <2>2, Zenon DEF AwaitedKept, AwaitedLast
<1>2. CreationKnows' /\ DeletionKnows' /\ PartsKnown' /\ CreatedIsWhole' /\ AnswersStay'
  BY <1>0 DEF VMInv, MachineInv, CreationKnows, DeletionKnows, PartsKnown, InWork, Free,
         CreatedIsWhole, AnswersStay
<1>3. CASE UNCHANGED profileVars
  <2>1. Typed' /\ OperationKept' /\ LabelsKept' /\ RequestsPossible'
    BY <1>0, <1>3 DEF VMInv, ControlInv, Typed, OperationKept, LabelsKept,
         RequestsPossible, Possible, profileVars
  <2>2. FilesWhole' /\ ActiveWhole'
    BY <1>0, <1>3 DEF VMInv, MachineInv, FilesWhole, ActiveWhole, Whole, profileVars
  <2>3. ~overtaken => RequestsFit'
    BY <1>0, <1>3 DEF VMInv, OrderInv, RequestsFit, Fits, profileVars
  <2>. QED  BY <1>0, <1>1, <1>2, <2>1, <2>2, <2>3 DEF VMInv, ControlInv, MachineInv, OrderInv
<1>4. CASE /\ profile' = [profile EXCEPT ![current] = ProfileAfter(current)]
           /\ labelled' = LabelledAfter(current)
           /\ op' = [op EXCEPT ![current] = "none"]
  <2>1. Typed' /\ OperationKept'
    BY <1>0, <1>4 DEF VMInv, ControlInv, Typed, OperationKept, ProfileAfter,
         LabelledAfter
  <2>2. LabelsKept'
    BY <1>0, <1>4 DEF VMInv, ControlInv, Typed, LabelsKept, ProfileAfter,
         LabelledAfter, KindOf
  <2>3. RequestsPossible'
    BY <1>0, <1>4 DEF VMInv, ControlInv, RequestsPossible, Possible, Request, Job,
         Typed, ProfileAfter, KindOf
  <2>4. FilesWhole' /\ ActiveWhole'
    BY <1>0, <1>4 DEF VMInv, ControlInv, MachineInv, CreatedIsWhole, FilesWhole, ActiveWhole,
         Living, Whole, Typed, ProfileAfter, KindOf
  <2>5. ~overtaken => RequestsFit'
    <3>1. CASE ~overtaken /\ result = "done"
      BY <1>0, <3>1, EmptySeq DEF VMInv, OrderInv, AnswersStay, RequestsFit
    <3>2. CASE ~overtaken /\ result = "failed"
      BY <1>0, <1>4, <3>2 DEF VMInv, OrderInv, RequestsFit, Fits, Request, Job,
         Typed, ProfileAfter, LabelledAfter
    <3>. QED  BY <1>0, <3>1, <3>2
  <2>. QED
    BY <1>0, <1>1, <1>2, <2>1, <2>2, <2>3, <2>4, <2>5 DEF VMInv, ControlInv, MachineInv, OrderInv
<1>. QED  BY <1>3, <1>4 DEF CompleteOperation

\* A process that starts awaits nothing.
LEMMA RestartStep ==
  ASSUME VMInv, ExecutorRestart
  PROVE  VMInv'
<1>. USE DEF ExecutorRestart, profileVars, gatewayVars, machineVars, strayVars
<1>1. Typed' /\ OperationKept' /\ LabelsKept' /\ RequestsPossible'
  BY DEF VMInv, ControlInv, Typed, OperationKept, LabelsKept, RequestsPossible, Possible
<1>2. AwaitedKept'
  BY DEF VMInv, ControlInv, AwaitedKept, AwaitedIs
<1>3. MachineInv'
  BY DEF VMInv, MachineInv, CreatedIsWhole, FilesWhole, ActiveWhole, CreationKnows,
         DeletionKnows, PartsKnown, InWork, Free, KindOf, Whole
<1>4. OrderInv'
  BY DEF VMInv, OrderInv, AwaitedLast, RequestsFit, Fits, AnswersStay, KindOf, Absent
<1>. QED  BY <1>1, <1>2, <1>3, <1>4 DEF VMInv, ControlInv

-----------------------------------------------------------------------------
(* The gateway *)

\* A step of a request goes on or answers.
Moves == (\E s \in Steps : Goes(s)) \/ Answers("done") \/ Answers("failed")

\* A step that goes on leaves the request what it is; one that answers tells an executor that
\* awaits it.
LEMMA Moved ==
  ASSUME VMInv, job # NoJob, Moves
  PROVE  \/ /\ job' \in Job /\ job' # NoJob
            /\ job'.kind = job.kind /\ job'.profile = job.profile
            /\ job'.awaited = job.awaited
            /\ UNCHANGED <<doing, current, result>>
         \/ /\ job' = NoJob /\ ~job.awaited
            /\ UNCHANGED <<doing, current, result>>
         \/ /\ job' = NoJob /\ job.awaited
            /\ doing = "asking" /\ doing' = "complete" /\ current' = current
            /\ result' \in {"done", "failed"}
<1>1. ASSUME NEW s \in Steps, Goes(s)
      PROVE  /\ job' \in Job /\ job' # NoJob
             /\ job'.kind = job.kind /\ job'.profile = job.profile
             /\ job'.awaited = job.awaited
             /\ UNCHANGED <<doing, current, result>>
  BY <1>1 DEF Goes, Job, NoJob, Steps, executorVars, VMInv, ControlInv, Typed
<1>2. ASSUME NEW r \in {"done", "failed"}, Answers(r), job.awaited
      PROVE  /\ job' = NoJob
             /\ doing = "asking" /\ doing' = "complete" /\ current' = current
             /\ result' \in {"done", "failed"}
  BY <1>2, Zenon DEF VMInv, ControlInv, AwaitedKept, AwaitedIs, Answers, Learns
<1>3. ASSUME NEW r \in {"done", "failed"}, Answers(r), ~job.awaited
      PROVE  job' = NoJob /\ UNCHANGED <<doing, current, result>>
  BY <1>3 DEF Answers, executorVars
<1>. QED  BY <1>1, <1>2, <1>3, Zenon DEF Moves

\* No step of a request disturbs what is known of operations and requests.
LEMMA JobMoves ==
  ASSUME VMInv, job # NoJob, Moves, UNCHANGED <<profileVars, waiting, overtaken>>,
         domains' \subseteq Profiles, address' \in [Profiles -> Addresses \cup {0}],
         entries' \subseteq Profiles, files' \subseteq Profiles,
         strayDomains' \subseteq Profiles, strayAddresses' \subseteq Profiles
  PROVE  ControlInv' /\ (~overtaken => AwaitedLast' /\ RequestsFit')
<1>. USE DEF profileVars
<1>0. /\ Typed /\ Len(waiting) \in Nat /\ job \in Job
      /\ doing = "asking" => current \in Profiles /\ op[current] \in {"leased", "lapsed"}
  BY LenProperties DEF VMInv, ControlInv, Typed, OperationKept
<1>1. CASE /\ job' \in Job /\ job' # NoJob
           /\ job'.kind = job.kind /\ job'.profile = job.profile
           /\ job'.awaited = job.awaited
           /\ UNCHANGED <<doing, current, result>>
  <2>1. Typed' /\ OperationKept' /\ LabelsKept' /\ RequestsPossible'
    BY <1>0, <1>1
       DEF VMInv, ControlInv, Typed, OperationKept, LabelsKept, RequestsPossible, Possible
  <2>2. AwaitedKept'
    BY <1>1 DEF VMInv, ControlInv, AwaitedKept, AwaitedIs, KindOf
  <2>3. ~overtaken => AwaitedLast' /\ RequestsFit'
    BY <1>1 DEF VMInv, OrderInv, AwaitedLast, RequestsFit, Fits
  <2>. QED  BY <2>1, <2>2, <2>3 DEF ControlInv
<1>2. CASE /\ job' = NoJob /\ ~job.awaited
           /\ UNCHANGED <<doing, current, result>>
  <2>1. Typed' /\ OperationKept' /\ LabelsKept' /\ RequestsPossible'
    BY <1>0, <1>2
       DEF VMInv, ControlInv, Typed, OperationKept, LabelsKept, RequestsPossible, Possible
  <2>2. AwaitedKept'
    <3>1. \A i \in 1 .. Len(waiting) : waiting[i].awaited =>
            /\ AwaitedIs(waiting[i])
            /\ \A k \in 1 .. Len(waiting) : waiting[k].awaited => k = i
      BY Zenon DEF VMInv, ControlInv, AwaitedKept
    <3>2. doing = "asking" => \E i \in 1 .. Len(waiting) : waiting[i].awaited
      BY <1>2, Zenon DEF VMInv, ControlInv, AwaitedKept
    <3>3. /\ waiting' = waiting /\ doing' = doing /\ current' = current
          /\ profile' = profile /\ job' = NoJob
      BY <1>2
    <3>4. \A i \in 1 .. Len(waiting') : waiting'[i].awaited =>
            /\ AwaitedIs(waiting[i])'
            /\ \A k \in 1 .. Len(waiting') : waiting'[k].awaited => k = i
      BY <3>1, <3>3 DEF AwaitedIs, KindOf
    <3>5. doing' = "asking" => \E i \in 1 .. Len(waiting') : waiting'[i].awaited
      BY <3>2, <3>3
    <3>. QED  BY <3>3, <3>4, <3>5, Zenon DEF AwaitedKept
  <2>3. ~overtaken => AwaitedLast' /\ RequestsFit'
    BY <1>2 DEF VMInv, OrderInv, AwaitedLast, RequestsFit, Fits
  <2>. QED  BY <2>1, <2>2, <2>3 DEF ControlInv
<1>3. CASE /\ job' = NoJob /\ job.awaited
           /\ doing = "asking" /\ doing' = "complete" /\ current' = current
           /\ result' \in {"done", "failed"}
  <2>1. Typed' /\ OperationKept' /\ LabelsKept' /\ RequestsPossible'
    BY <1>0, <1>3
       DEF VMInv, ControlInv, Typed, OperationKept, LabelsKept, RequestsPossible, Possible
  <2>2. AwaitedKept' /\ AwaitedLast'
    <3>1. \A i \in 1 .. Len(waiting) : ~waiting[i].awaited
      BY <1>3, Zenon DEF VMInv, ControlInv, AwaitedKept
    <3>2. waiting' = waiting /\ job' = NoJob /\ doing' # "asking"
      BY <1>3
    <3>. QED  BY <3>1, <3>2, Zenon DEF AwaitedKept, AwaitedLast
  <2>3. ~overtaken => RequestsFit'
    BY <1>3 DEF VMInv, OrderInv, RequestsFit, Fits
  <2>. QED  BY <2>1, <2>2, <2>3 DEF ControlInv
<1>. QED  BY <1>1, <1>2, <1>3, Moved

\* A step for p changes p's machine and no other.
OnlyMachine(p) ==
  /\ domains' \subseteq Profiles /\ entries' \subseteq Profiles /\ files' \subseteq Profiles
  /\ address' \in [Profiles -> Addresses \cup {0}]
  /\ strayDomains' \subseteq Profiles /\ strayAddresses' \subseteq Profiles
  /\ \A q \in Profiles \ {p} :
       /\ q \in domains' <=> q \in domains
       /\ q \in entries' <=> q \in entries
       /\ q \in files' <=> q \in files
       /\ address'[q] = address[q]
       /\ q \in strayDomains' <=> q \in strayDomains
       /\ q \in strayAddresses' <=> q \in strayAddresses

\* A request builds only what has no file, and makes no machine whole that it deletes.
MachineChanges(p) ==
  /\ OnlyMachine(p)
  /\ \/ UNCHANGED machineVars
     \/ job.kind = "create" /\ p \notin files
     \/ job.kind = "delete" /\ p \in files /\ ~Whole(p)'

\* What is answered without error is true if the step makes the machine what it says, and if
\* it takes nothing from a machine that is there.
LEMMA AnswerIsTrue ==
  ASSUME VMInv, job # NoJob, NEW p, p = job.profile, Moves,
         UNCHANGED <<profileVars, waiting, overtaken>>, MachineChanges(p),
         job.awaited /\ result' = "done" =>
           /\ job.kind = "create" => Whole(p)'
           /\ job.kind = "delete" => Absent(p)'
  PROVE  CreatedIsWhole' /\ (~overtaken => AnswersStay')
<1>. USE DEF profileVars
<1>0. KindOf(current') = KindOf(current)' /\ KindOf(current)' \in {"create", "delete"}
  BY DEF KindOf
<1>1. CASE result' # "done"
  BY <1>1 DEF CreatedIsWhole, AnswersStay
<1>2. CASE result' = "done" /\ UNCHANGED <<current, result>>
  <2>1. ~overtaken => AnswersStay'
    BY <1>2 DEF VMInv, OrderInv, AnswersStay
  <2>2. ASSUME KindOf(current) = "create"
        PROVE  Whole(current)'
    <3>1. Whole(current) /\ profile[current] = "provisioning" /\ current \in files
      BY <1>2, <2>2 DEF VMInv, MachineInv, CreatedIsWhole, KindOf, Whole
    <3>2. CASE current # p
      <4>1. current \in Profiles
        BY <3>1 DEF VMInv, ControlInv, Typed
      <4>. QED  BY <1>2, <3>1, <3>2, <4>1 DEF MachineChanges, OnlyMachine, Whole
    <3>3. CASE current = p
      <4>1. job.kind # "delete"
        BY <3>1, <3>3 DEF VMInv, ControlInv, RequestsPossible, Possible
      <4>2. UNCHANGED machineVars
        BY <3>1, <3>3, <4>1 DEF MachineChanges
      <4>. QED  BY <1>2, <3>1, <4>2 DEF machineVars, strayVars, Whole
    <3>. QED  BY <3>2, <3>3
  <2>3. KindOf(current)' = KindOf(current)
    BY <1>2 DEF KindOf
  <2>. QED  BY <2>1, <2>2, <2>3 DEF CreatedIsWhole
<1>3. CASE /\ job' = NoJob /\ job.awaited /\ result' = "done"
           /\ doing = "asking" /\ doing' = "complete" /\ current' = current
  <2>1. current = p /\ KindOf(current) = job.kind
    BY <1>3, Zenon DEF VMInv, ControlInv, AwaitedKept, AwaitedIs
  <2>2. KindOf(current)' = job.kind
    BY <1>3, <2>1 DEF KindOf
  <2>3. ~overtaken => waiting = <<>>
    BY <1>3, Zenon DEF VMInv, OrderInv, AwaitedLast
  <2>4. CreatedIsWhole'
    BY <1>3, <2>1, <2>2, Zenon DEF CreatedIsWhole, Whole
  <2>5. KindOf(current)' = "delete" => Absent(current)'
    BY <1>3, <2>1, <2>2, Zenon DEF Absent
  <2>. QED  BY <1>3, <2>3, <2>4, <2>5 DEF AnswersStay
<1>. QED  BY <1>1, <1>2, <1>3, Moved

\* A step for p leaves the machines of the others as they are, and p's if analysts may select it.
LEMMA OthersKept ==
  ASSUME VMInv, job # NoJob, NEW p, p = job.profile, UNCHANGED profileVars,
         MachineChanges(p),
         job.kind = "create" /\ p \in files' /\ profile[p] \in Living => Whole(p)'
  PROVE  FilesWhole' /\ ActiveWhole'
<1>. USE DEF profileVars
<1>0. /\ p \in Profiles /\ job.kind \in {"create", "delete"} /\ OnlyMachine(p)
      /\ profile[p] # "none"
      /\ profile[p] \in Living => job.kind = "create"
  BY DEF VMInv, ControlInv, RequestsPossible, Possible, Living, Typed, Job, Kind, MachineChanges
<1>1. FilesWhole'
  BY <1>0 DEF VMInv, MachineInv, FilesWhole, Whole, OnlyMachine
<1>2. ASSUME NEW q \in Profiles, profile[q] = "active"
      PROVE  Whole(q)'
  <2>1. Whole(q)
    BY <1>2 DEF VMInv, MachineInv, ActiveWhole
  <2>2. CASE q # p
    BY <1>0, <2>1, <2>2 DEF OnlyMachine, Whole
  <2>3. CASE q = p
    <3>1. UNCHANGED machineVars
      BY <1>0, <1>2, <2>1, <2>3 DEF MachineChanges, Living, Whole
    <3>. QED  BY <2>1, <3>1 DEF machineVars, strayVars, Whole
  <2>. QED  BY <2>2, <2>3
<1>. QED  BY <1>1, <1>2 DEF ActiveWhole

\* What each step of a request knows.
JobKnown(p) ==
  /\ Typed /\ job \in Job /\ job # NoJob /\ p \in Profiles
  /\ CreationKnows /\ DeletionKnows /\ PartsKnown
  /\ job.awaited => result = "none" /\ (job.kind = "create" => profile[p] \in Living)
  /\ job.kind = "create" /\ p \in files /\ profile[p] \in Living => Whole(p)

\* The invariant says all of this.
LEMMA JobFacts ==
  ASSUME VMInv, job # NoJob, NEW p, p = job.profile
  PROVE  JobKnown(p)
<1>1. /\ Typed /\ job \in Job /\ p \in Profiles
      /\ CreationKnows /\ DeletionKnows /\ PartsKnown
      /\ p \in files /\ profile[p] \in Living => Whole(p)
  BY DEF VMInv, ControlInv, MachineInv, FilesWhole, Typed, Job
<1>2. ASSUME job.awaited
      PROVE  doing = "asking" /\ p = current /\ job.kind = KindOf(current)
  BY <1>2, Zenon DEF VMInv, ControlInv, AwaitedKept, AwaitedIs
<1>3. ASSUME job.awaited
      PROVE  result = "none" /\ (job.kind = "create" => profile[p] \in Living)
  BY <1>2, <1>3 DEF VMInv, ControlInv, OperationKept, KindOf, Living
<1>. QED  BY <1>1, <1>3, Zenon DEF JobKnown

\* What each step of a request has to see to.
LEMMA JobKeeps ==
  ASSUME VMInv, job # NoJob, NEW p, p = job.profile, Moves, MachineChanges(p),
         UNCHANGED <<profileVars, waiting, overtaken>>,
         CreationKnows', DeletionKnows', PartsKnown',
         job.awaited /\ result' = "done" =>
           /\ job.kind = "create" => Whole(p)'
           /\ job.kind = "delete" => Absent(p)',
         job.kind = "create" /\ p \in files' /\ profile[p] \in Living => Whole(p)'
  PROVE  VMInv' /\ MachineChanges(p)
<1>1. ControlInv' /\ (~overtaken => AwaitedLast' /\ RequestsFit')
  BY JobMoves DEF MachineChanges, OnlyMachine
<1>2. CreatedIsWhole' /\ (~overtaken => AnswersStay')
  BY AnswerIsTrue
<1>3. FilesWhole' /\ ActiveWhole'
  BY OthersKept
<1>. QED  BY <1>1, <1>2, <1>3 DEF VMInv, MachineInv, OrderInv

\* A machine that has its file is whole, and none is created over it.
LEMMA CheckCreateStep ==
  ASSUME VMInv, CheckCreate,
         UNCHANGED <<profileVars, waiting, overtaken>>, NEW p, p = job.profile
  PROVE  VMInv' /\ MachineChanges(p)
<1>. USE DEF CheckCreate, At, machineVars, strayVars
<1>0. JobKnown(p)
  BY JobFacts
<1>1. Moves
  BY DEF Moves, Steps
<1>2. MachineChanges(p)
  BY <1>0 DEF MachineChanges, OnlyMachine, JobKnown, Typed, CreationKnows, Building, Whole
<1>3. CreationKnows' /\ DeletionKnows' /\ PartsKnown'
  <2>1. CASE job' = NoJob
    BY <1>0, <2>1
       DEF JobKnown, CreationKnows, DeletionKnows, PartsKnown, InWork, Building,
           Goes, Job, NoJob, Typed
  <2>2. CASE job' # NoJob
    BY <1>0, <2>2
       DEF JobKnown, CreationKnows, DeletionKnows, PartsKnown, InWork, Building,
           Free, Goes, Answers, Job, Typed
  <2>. QED  BY <2>1, <2>2
<1>4. ASSUME job.awaited, result' = "done"
      PROVE  /\ job.kind = "create" => Whole(p)'
             /\ job.kind = "delete" => Absent(p)'
  BY <1>0, <1>4
     DEF JobKnown, Goes, executorVars, Answers, Learns, Whole, Absent, CreationKnows,
         Building, Typed
<1>5. job.kind = "create" /\ p \in files' /\ profile[p] \in Living => Whole(p)'
  BY <1>0 DEF JobKnown, Whole, CreationKnows, Building
<1>. QED  BY <1>0, <1>1, <1>2, <1>3, <1>4, <1>5, JobKeeps DEF JobKnown

\* The domain is the first part.
LEMMA DefineStep ==
  ASSUME VMInv, Define,
         UNCHANGED <<profileVars, waiting, overtaken>>, NEW p, p = job.profile
  PROVE  VMInv' /\ MachineChanges(p)
<1>. USE DEF Define, At, machineVars, strayVars
<1>0. JobKnown(p)
  BY JobFacts
<1>1. Moves
  BY DEF Moves, Steps
<1>2. MachineChanges(p)
  BY <1>0 DEF MachineChanges, OnlyMachine, JobKnown, Typed, CreationKnows, Building, Whole
<1>3. CreationKnows' /\ DeletionKnows' /\ PartsKnown'
  <2>1. CASE job' = NoJob
    BY <1>0, <2>1
       DEF JobKnown, CreationKnows, DeletionKnows, PartsKnown, InWork, Building,
           Goes, Job, NoJob, Typed
  <2>2. CASE job' # NoJob
    BY <1>0, <2>2
       DEF JobKnown, CreationKnows, DeletionKnows, PartsKnown, InWork, Building,
           Free, Goes, Answers, Job, Typed
  <2>. QED  BY <2>1, <2>2
<1>4. job.awaited => result' # "done"
  BY <1>0 DEF JobKnown, Goes, Answers, Learns, executorVars
<1>5. job.kind = "create" /\ p \in files' /\ profile[p] \in Living => Whole(p)'
  BY <1>0 DEF JobKnown, Whole, CreationKnows, Building
<1>. QED  BY <1>0, <1>1, <1>2, <1>3, <1>4, <1>5, JobKeeps DEF JobKnown

\* The address is one that no machine has, and not zero.
LEMMA ReserveStep ==
  ASSUME VMInv, Reserve,
         UNCHANGED <<profileVars, waiting, overtaken>>, NEW p, p = job.profile
  PROVE  VMInv' /\ MachineChanges(p)
<1>. USE DEF Reserve, At, machineVars, strayVars, RemovesDomain, RemovesAddress
<1>0. JobKnown(p)
  BY JobFacts
<1>1. Moves
  BY DEF Moves, Steps
<1>2. MachineChanges(p)
  BY <1>0, NextAddress
     DEF MachineChanges, OnlyMachine, JobKnown, Typed, CreationKnows, Building, Whole
<1>3. CreationKnows' /\ DeletionKnows' /\ PartsKnown'
  <2>1. CASE job' = NoJob
    BY <1>0, <2>1, NextAddress
       DEF JobKnown, CreationKnows, DeletionKnows, PartsKnown, InWork, Building,
           Goes, Job, NoJob, Typed
  <2>2. CASE job' # NoJob
    BY <1>0, <2>2, NextAddress
       DEF JobKnown, CreationKnows, DeletionKnows, PartsKnown, InWork, Building,
           Free, Goes, Answers, Job, Typed
  <2>. QED  BY <2>1, <2>2
<1>4. job.awaited => result' # "done"
  BY <1>0 DEF JobKnown, Goes, Answers, Learns, executorVars
<1>5. job.kind = "create" /\ p \in files' /\ profile[p] \in Living => Whole(p)'
  BY <1>0 DEF JobKnown, Whole, CreationKnows, Building
<1>. QED  BY <1>0, <1>1, <1>2, <1>3, <1>4, <1>5, JobKeeps DEF JobKnown

\* A creation that fails takes back what it made.
LEMMA CustomizeStep ==
  ASSUME VMInv, Customize,
         UNCHANGED <<profileVars, waiting, overtaken>>, NEW p, p = job.profile
  PROVE  VMInv' /\ MachineChanges(p)
<1>. USE DEF Customize, At, machineVars, strayVars, RemovesDomain, RemovesAddress
<1>0. JobKnown(p)
  BY JobFacts
<1>1. Moves
  BY DEF Moves, Steps
<1>2. MachineChanges(p)
  BY <1>0
     DEF MachineChanges, OnlyMachine, JobKnown, Typed, CreationKnows, Building, Whole,
         Undoes
<1>3. CreationKnows' /\ DeletionKnows' /\ PartsKnown'
  <2>1. CASE job' = NoJob
    BY <1>0, <2>1
       DEF JobKnown, CreationKnows, DeletionKnows, PartsKnown, InWork, Building,
           Goes, Job, NoJob, Typed, Undoes
  <2>2. CASE job' # NoJob
    BY <1>0, <2>2
       DEF JobKnown, CreationKnows, DeletionKnows, PartsKnown, InWork, Building,
           Free, Goes, Answers, Job, Typed
  <2>. QED  BY <2>1, <2>2
<1>4. job.awaited => result' # "done"
  BY <1>0 DEF JobKnown, Goes, Answers, Learns, executorVars
<1>5. job.kind = "create" /\ p \in files' /\ profile[p] \in Living => Whole(p)'
  BY <1>0 DEF JobKnown, Whole, CreationKnows, Building, Undoes
<1>. QED  BY <1>0, <1>1, <1>2, <1>3, <1>4, <1>5, JobKeeps DEF JobKnown

\* CAPE learns of the machine.
LEMMA EnterStep ==
  ASSUME VMInv, Enter,
         UNCHANGED <<profileVars, waiting, overtaken>>, NEW p, p = job.profile
  PROVE  VMInv' /\ MachineChanges(p)
<1>. USE DEF Enter, At, machineVars, strayVars, RemovesDomain, RemovesAddress
<1>0. JobKnown(p)
  BY JobFacts
<1>1. Moves
  BY DEF Moves, Steps
<1>2. MachineChanges(p)
  BY <1>0
     DEF MachineChanges, OnlyMachine, JobKnown, Typed, CreationKnows, Building, Whole,
         Undoes
<1>3. CreationKnows' /\ DeletionKnows' /\ PartsKnown'
  <2>1. CASE job' = NoJob
    BY <1>0, <2>1
       DEF JobKnown, CreationKnows, DeletionKnows, PartsKnown, InWork, Building,
           Goes, Job, NoJob, Typed, Undoes
  <2>2. CASE job' # NoJob
    BY <1>0, <2>2
       DEF JobKnown, CreationKnows, DeletionKnows, PartsKnown, InWork, Building,
           Free, Goes, Answers, Job, Typed
  <2>. QED  BY <2>1, <2>2
<1>4. job.awaited => result' # "done"
  BY <1>0 DEF JobKnown, Goes, Answers, Learns, executorVars
<1>5. job.kind = "create" /\ p \in files' /\ profile[p] \in Living => Whole(p)'
  BY <1>0 DEF JobKnown, Whole, CreationKnows, Building, Undoes
<1>. QED  BY <1>0, <1>1, <1>2, <1>3, <1>4, <1>5, JobKeeps DEF JobKnown

\* The file makes the machine whole.
LEMMA RecordStep ==
  ASSUME VMInv, Record,
         UNCHANGED <<profileVars, waiting, overtaken>>, NEW p, p = job.profile
  PROVE  VMInv' /\ MachineChanges(p)
<1>. USE DEF Record, At, machineVars, strayVars, RemovesDomain, RemovesAddress
<1>0. JobKnown(p)
  BY JobFacts
<1>1. Moves
  BY DEF Moves, Steps
<1>2. MachineChanges(p)
  BY <1>0
     DEF MachineChanges, OnlyMachine, JobKnown, Typed, CreationKnows, Building, Whole,
         Undoes
<1>3. CreationKnows' /\ DeletionKnows' /\ PartsKnown'
  BY <1>0
     DEF JobKnown, CreationKnows, DeletionKnows, PartsKnown, InWork, Building,
         Answers, Job, NoJob, Typed, Undoes
<1>4. ASSUME job.awaited, result' = "done"
      PROVE  /\ job.kind = "create" => Whole(p)'
             /\ job.kind = "delete" => Absent(p)'
  BY <1>0, <1>4
     DEF JobKnown, Goes, executorVars, Answers, Learns, Whole, Absent, CreationKnows,
         Building, Typed
<1>5. job.kind = "create" /\ p \in files' /\ profile[p] \in Living => Whole(p)'
  BY <1>0 DEF JobKnown, Whole, CreationKnows, Building, Undoes
<1>. QED  BY <1>0, <1>1, <1>2, <1>3, <1>4, <1>5, JobKeeps DEF JobKnown

\* Only a machine that has its file is deleted.
LEMMA CheckDeleteStep ==
  ASSUME VMInv, CheckDelete,
         UNCHANGED <<profileVars, waiting, overtaken>>, NEW p, p = job.profile
  PROVE  VMInv' /\ MachineChanges(p)
<1>. USE DEF CheckDelete, At, machineVars, strayVars
<1>0. JobKnown(p)
  BY JobFacts
<1>1. Moves
  BY DEF Moves, Steps
<1>2. MachineChanges(p)
  BY <1>0 DEF MachineChanges, OnlyMachine, JobKnown, Typed, DeletionKnows, Building, Whole
<1>3. CreationKnows' /\ DeletionKnows' /\ PartsKnown'
  <2>1. CASE job' = NoJob
    BY <1>0, <2>1
       DEF JobKnown, CreationKnows, DeletionKnows, PartsKnown, InWork, Building,
           Goes, Job, NoJob, Typed
  <2>2. CASE job' # NoJob
    BY <1>0, <2>2
       DEF JobKnown, CreationKnows, DeletionKnows, PartsKnown, InWork, Building,
           Free, Goes, Answers, Job, Typed
  <2>. QED  BY <2>1, <2>2
<1>4. job.awaited => result' # "done"
  BY <1>0 DEF JobKnown, Goes, Answers, Learns, executorVars
<1>5. job.kind = "create" /\ p \in files' /\ profile[p] \in Living => Whole(p)'
  BY <1>0 DEF JobKnown, Whole, DeletionKnows, Building
<1>. QED  BY <1>0, <1>1, <1>2, <1>3, <1>4, <1>5, JobKeeps DEF JobKnown

\* CAPE forgets the machine before anything of it goes.
LEMMA LeaveStep ==
  ASSUME VMInv, Leave,
         UNCHANGED <<profileVars, waiting, overtaken>>, NEW p, p = job.profile
  PROVE  VMInv' /\ MachineChanges(p)
<1>. USE DEF Leave, At, machineVars, strayVars, Leaves
<1>0. JobKnown(p)
  BY JobFacts
<1>1. Moves
  BY DEF Moves, Steps
<1>2. MachineChanges(p)
  BY <1>0 DEF MachineChanges, OnlyMachine, JobKnown, Typed, DeletionKnows, Building, Whole
<1>3. CreationKnows' /\ DeletionKnows' /\ PartsKnown'
  <2>1. CASE job' = NoJob
    BY <1>0, <2>1
       DEF JobKnown, CreationKnows, DeletionKnows, PartsKnown, InWork, Building,
           Goes, Job, NoJob, Typed
  <2>2. CASE job' # NoJob
    BY <1>0, <2>2
       DEF JobKnown, CreationKnows, DeletionKnows, PartsKnown, InWork, Building,
           Free, Goes, Answers, Job, Typed
  <2>. QED  BY <2>1, <2>2
<1>4. job.awaited => result' # "done"
  BY <1>0 DEF JobKnown, Goes, Answers, Learns, executorVars
<1>5. job.kind = "create" /\ p \in files' /\ profile[p] \in Living => Whole(p)'
  BY <1>0 DEF JobKnown, Whole, DeletionKnows, Building
<1>. QED  BY <1>0, <1>1, <1>2, <1>3, <1>4, <1>5, JobKeeps DEF JobKnown

\* The domain goes.
LEMMA UndefineStep ==
  ASSUME VMInv, Undefine,
         UNCHANGED <<profileVars, waiting, overtaken>>, NEW p, p = job.profile
  PROVE  VMInv' /\ MachineChanges(p)
<1>. USE DEF Undefine, At, machineVars, strayVars, RemovesDomain, RemovesAddress
<1>0. JobKnown(p)
  BY JobFacts
<1>1. Moves
  BY DEF Moves, Steps
<1>2. MachineChanges(p)
  BY <1>0 DEF MachineChanges, OnlyMachine, JobKnown, Typed, DeletionKnows, Building, Whole
<1>3. CreationKnows' /\ DeletionKnows' /\ PartsKnown'
  BY <1>0
     DEF JobKnown, CreationKnows, DeletionKnows, PartsKnown, InWork, Building,
         Free, Goes, Job, NoJob, Steps, Typed
<1>4. job.awaited => result' # "done"
  BY <1>0 DEF JobKnown, Goes, Answers, Learns, executorVars
<1>5. job.kind = "create" /\ p \in files' /\ profile[p] \in Living => Whole(p)'
  BY <1>0 DEF JobKnown, Whole, DeletionKnows, Building
<1>. QED  BY <1>0, <1>1, <1>2, <1>3, <1>4, <1>5, JobKeeps DEF JobKnown

\* The address and the file go last, and nothing is left.
LEMMA ReleaseStep ==
  ASSUME VMInv, Release,
         UNCHANGED <<profileVars, waiting, overtaken>>, NEW p, p = job.profile
  PROVE  VMInv' /\ MachineChanges(p)
<1>. USE DEF Release, At, machineVars, strayVars, RemovesDomain, RemovesAddress
<1>0. JobKnown(p)
  BY JobFacts
<1>1. Moves
  BY DEF Moves, Steps
<1>2. MachineChanges(p)
  BY <1>0 DEF MachineChanges, OnlyMachine, JobKnown, Typed, DeletionKnows, Building, Whole
<1>3. CreationKnows' /\ DeletionKnows' /\ PartsKnown'
  BY <1>0
     DEF JobKnown, CreationKnows, DeletionKnows, PartsKnown, InWork, Building,
         Answers, Job, NoJob, Typed
<1>4. ASSUME job.awaited, result' = "done"
      PROVE  /\ job.kind = "create" => Whole(p)'
             /\ job.kind = "delete" => Absent(p)'
  BY <1>0, <1>4
     DEF JobKnown, Goes, executorVars, Answers, Learns, Whole, Absent, DeletionKnows,
         Building, Typed
<1>5. job.kind = "create" /\ p \in files' /\ profile[p] \in Living => Whole(p)'
  BY <1>0 DEF JobKnown, Whole, DeletionKnows, Building
<1>. QED  BY <1>0, <1>1, <1>2, <1>3, <1>4, <1>5, JobKeeps DEF JobKnown

\* Every step of a request keeps the invariant and changes one machine.
LEMMA JobNextStep ==
  ASSUME VMInv, JobNext, NEW p, p = job.profile
  PROVE  VMInv' /\ MachineChanges(p)
<1>1. UNCHANGED <<profileVars, waiting, overtaken>>
  BY DEF JobNext
<1>. QED
  BY <1>1, CheckCreateStep, DefineStep, ReserveStep, CustomizeStep, EnterStep, RecordStep,
     CheckDeleteStep, LeaveStep, UndefineStep, ReleaseStep DEF JobNext

\* Whichever request gets the lock, what is known of all of them is still known of it and of
\* the rest.
LEMMA ServedControl ==
  ASSUME VMInv, NEW i \in DOMAIN waiting, job = NoJob,
         waiting' = Without(waiting, i),
         job' = [step |-> "check", kind |-> waiting[i].kind, profile |-> waiting[i].profile,
                 awaited |-> waiting[i].awaited],
         UNCHANGED <<profileVars, executorVars>>
  PROVE  AwaitedKept' /\ RequestsPossible'
<1>. USE DEF profileVars, executorVars
<1>0. Typed
  BY DEF VMInv, ControlInv
<1>1. /\ Len(waiting) \in Nat \ {0} /\ Len(waiting') = Len(waiting) - 1
      /\ i \in 1 .. Len(waiting) /\ waiting[i] \in Request
      /\ \A k \in 1 .. Len(waiting') :
           /\ k < i => k \in 1 .. Len(waiting) /\ waiting'[k] = waiting[k]
           /\ ~(k < i) => k + 1 \in 1 .. Len(waiting) /\ waiting'[k] = waiting[k + 1]
  BY <1>0, Served DEF Typed
<1>2. /\ job'.kind = waiting[i].kind /\ job'.profile = waiting[i].profile
      /\ job'.awaited = waiting[i].awaited
  OBVIOUS
<1>. DEFINE place(k) == IF k < i THEN k ELSE k + 1
<1>3. \A k \in 1 .. Len(waiting') :
        /\ place(k) \in 1 .. Len(waiting) /\ place(k) # i
        /\ waiting'[k] = waiting[place(k)]
  BY <1>1
<1>4. \A j, k \in 1 .. Len(waiting') : place(j) = place(k) => j = k
  BY <1>1
<1>5. \A j \in 1 .. Len(waiting) : j # i => \E k \in 1 .. Len(waiting') : place(k) = j
  <2>1. ASSUME NEW j \in 1 .. Len(waiting), j # i
        PROVE  \E k \in 1 .. Len(waiting') : place(k) = j
    <3>1. CASE j < i
      <4>1. j \in 1 .. Len(waiting') /\ place(j) = j
        BY <1>1, <3>1
      <4>. QED  BY <4>1
    <3>2. CASE ~(j < i)
      <4>1. j - 1 \in 1 .. Len(waiting') /\ place(j - 1) = j
        BY <1>1, <2>1, <3>2
      <4>. QED  BY <4>1
    <3>. QED  BY <3>1, <3>2
  <2>. QED  BY <2>1
<1>. HIDE DEF place
<1>6. KindOf(current)' = KindOf(current) /\ doing' = doing /\ current' = current
  BY DEF KindOf
<1>7. ASSUME NEW k \in 1 .. Len(waiting'), waiting'[k].awaited
      PROVE  /\ AwaitedIs(waiting[k])'
             /\ \A j \in 1 .. Len(waiting') : waiting'[j].awaited => j = k
             /\ ~job'.awaited
  <2>1. place(k) \in 1 .. Len(waiting) /\ waiting[place(k)].awaited
    BY <1>3, <1>7
  <2>2. /\ AwaitedIs(waiting[place(k)])
        /\ \A j \in 1 .. Len(waiting) : waiting[j].awaited => j = place(k)
    BY <2>1, Zenon DEF VMInv, ControlInv, AwaitedKept
  <2>3. AwaitedIs(waiting[k])'
    BY <1>3, <1>6, <1>7, <2>2 DEF AwaitedIs
  <2>4. ASSUME NEW j \in 1 .. Len(waiting'), waiting'[j].awaited
        PROVE  j = k
    BY <1>3, <1>4, <2>2, <2>4, Zenon
  <2>5. ~job'.awaited
    BY <1>1, <1>2, <1>3, <2>2, Zenon
  <2>. QED  BY <2>3, <2>4, <2>5
<1>8. ASSUME job'.awaited
      PROVE  AwaitedIs(job)'
  <2>1. AwaitedIs(waiting[i])
    BY <1>1, <1>2, <1>8, Zenon DEF VMInv, ControlInv, AwaitedKept
  <2>. QED  BY <1>2, <1>6, <2>1 DEF AwaitedIs
<1>9. ASSUME doing' = "asking", ~job'.awaited
      PROVE  \E k \in 1 .. Len(waiting') : waiting'[k].awaited
  <2>1. PICK j \in 1 .. Len(waiting) : waiting[j].awaited
    BY <1>6, <1>9, Zenon DEF VMInv, ControlInv, AwaitedKept
  <2>2. j # i
    BY <1>2, <1>9, <2>1, Zenon
  <2>3. PICK k \in 1 .. Len(waiting') : place(k) = j
    BY <1>5, <2>2
  <2>. QED  BY <1>3, <2>1, <2>3, Zenon
<1>10. AwaitedKept'
  <2>1. \A k \in 1 .. Len(waiting') : waiting'[k].awaited =>
          /\ AwaitedIs(waiting[k])'
          /\ \A j \in 1 .. Len(waiting') : waiting'[j].awaited => j = k
          /\ ~(job' # NoJob /\ job'.awaited)
    BY <1>7, Zenon
  <2>2. job' # NoJob
    BY DEF NoJob
  <2>. QED  BY <1>8, <1>9, <2>1, <2>2, Zenon DEF AwaitedKept
<1>11. RequestsPossible'
  <2>1. \A j \in 1 .. Len(waiting) : Possible(waiting[j])
    BY DEF VMInv, ControlInv, RequestsPossible
  <2>2. \A k \in 1 .. Len(waiting') : Possible(waiting[k])'
    BY <1>3, <2>1 DEF Possible
  <2>3. Possible(job)'
    BY <1>1, <1>2, <2>1 DEF Possible
  <2>. QED  BY <2>2, <2>3 DEF RequestsPossible
<1>. QED  BY <1>10, <1>11

\* If it is the first that gets the lock and the awaited one was the last, it still is.
LEMMA ServedInOrder ==
  ASSUME VMInv, job = NoJob, ~overtaken, 1 \in DOMAIN waiting,
         waiting' = Without(waiting, 1),
         job' = [step |-> "check", kind |-> waiting[1].kind, profile |-> waiting[1].profile,
                 awaited |-> waiting[1].awaited],
         UNCHANGED <<profileVars, executorVars>>
  PROVE  AwaitedLast' /\ RequestsFit'
<1>. USE DEF profileVars, executorVars
<1>0. Typed
  BY DEF VMInv, ControlInv
<1>1. /\ waiting' \in Seq(Request)
      /\ Len(waiting) \in Nat \ {0} /\ Len(waiting') = Len(waiting) - 1
      /\ 1 \in 1 .. Len(waiting)
      /\ \A k \in 1 .. Len(waiting') :
           k + 1 \in 1 .. Len(waiting) /\ waiting'[k] = waiting[k + 1]
  <2>. DEFINE first == 1
  <2>1. first \in DOMAIN waiting /\ waiting' = Without(waiting, first)
    OBVIOUS
  <2>. HIDE DEF first
  <2>2. /\ waiting' \in Seq(Request)
        /\ Len(waiting) \in Nat \ {0} /\ Len(waiting') = Len(waiting) - 1
        /\ first \in 1 .. Len(waiting)
        /\ \A k \in 1 .. Len(waiting') :
             ~(k < first) => k + 1 \in 1 .. Len(waiting) /\ waiting'[k] = waiting[k + 1]
    BY <1>0, <2>1, Served DEF Typed
  <2>. QED  BY <2>2 DEF first
<1>2. /\ job'.kind = waiting[1].kind /\ job'.profile = waiting[1].profile
      /\ job'.awaited = waiting[1].awaited
  OBVIOUS
<1>3. \A k \in 1 .. Len(waiting) : waiting[k].awaited => k = Len(waiting)
  BY Zenon DEF VMInv, OrderInv, AwaitedLast
<1>4. ASSUME NEW k \in 1 .. Len(waiting'), waiting'[k].awaited
      PROVE  k = Len(waiting')
  <2>1. waiting[k + 1].awaited /\ k + 1 \in 1 .. Len(waiting)
    BY <1>1, <1>4
  <2>2. k + 1 = Len(waiting)
    BY <1>3, <2>1, Zenon
  <2>. QED  BY <1>1, <2>2
<1>5. ASSUME job'.awaited
      PROVE  waiting' = <<>>
  <2>1. Len(waiting) = 1
    BY <1>1, <1>2, <1>3, <1>5, Zenon
  <2>. QED  BY <1>1, <2>1, EmptySeq
<1>6. AwaitedLast'
  BY <1>4, <1>5, Zenon DEF AwaitedLast
<1>7. RequestsFit'
  <2>1. \A k \in 1 .. Len(waiting) : Fits(waiting[k])
    BY DEF VMInv, OrderInv, RequestsFit
  <2>2. \A k \in 1 .. Len(waiting') : Fits(waiting[k])'
    BY <1>1, <2>1 DEF Fits
  <2>3. Fits(job)'
    BY <1>1, <1>2, <2>1 DEF Fits
  <2>. QED  BY <2>2, <2>3 DEF RequestsFit
<1>. QED  BY <1>6, <1>7

\* A request gets the lock, and begins with a look at the machine.
LEMMA ServeStep ==
  ASSUME VMInv, Serve
  PROVE  VMInv'
<1>. USE DEF profileVars, executorVars, machineVars, strayVars
<1>0. PICK i \in DOMAIN waiting :
        /\ waiting' = Without(waiting, i)
        /\ job' = [step |-> "check", kind |-> waiting[i].kind,
                   profile |-> waiting[i].profile, awaited |-> waiting[i].awaited]
        /\ overtaken' = (overtaken \/ i # 1)
  BY DEF Serve
<1>1. Typed /\ job = NoJob /\ UNCHANGED <<profileVars, executorVars, machineVars>>
  BY DEF VMInv, ControlInv, Serve
<1>2. waiting' \in Seq(Request) /\ waiting[i] \in Request
  BY <1>0, <1>1, Served DEF Typed
<1>3. /\ job' \in Job /\ job' # NoJob /\ job'.step = "check"
  BY <1>0, <1>2 DEF Job, NoJob, Request, Steps
<1>4. Typed' /\ OperationKept' /\ LabelsKept'
  <2>1. overtaken' \in BOOLEAN
    BY <1>0
  <2>2. Typed'
    BY <1>1, <1>2, <1>3, <2>1 DEF Typed
  <2>. QED  BY <1>1, <2>2 DEF VMInv, ControlInv, OperationKept, LabelsKept
<1>5. AwaitedKept' /\ RequestsPossible'
  BY <1>0, <1>1, ServedControl
<1>6. CreatedIsWhole' /\ FilesWhole' /\ ActiveWhole'
  BY <1>1 DEF VMInv, MachineInv, CreatedIsWhole, FilesWhole, ActiveWhole, Whole, KindOf
<1>7. CreationKnows' /\ DeletionKnows'
  BY <1>3 DEF CreationKnows, DeletionKnows, Building
<1>8. PartsKnown'
  BY <1>1, <1>3 DEF VMInv, MachineInv, PartsKnown, InWork, Building
<1>9. OrderInv'
  <2>1. CASE overtaken'
    BY <2>1 DEF OrderInv
  <2>2. CASE ~overtaken'
    <3>1. ~overtaken /\ i = 1
      BY <1>0, <2>2
    <3>2. AwaitedLast' /\ RequestsFit'
      BY <1>0, <1>1, <3>1, ServedInOrder
    <3>3. result # "done"
      <4>1. waiting # <<>>
        BY <1>0, <1>1, Served, EmptySeq DEF Typed
      <4>. QED  BY <3>1, <4>1 DEF VMInv, OrderInv, AnswersStay
    <3>. QED  BY <1>1, <3>2, <3>3 DEF OrderInv, AnswersStay
  <2>. QED  BY <2>1, <2>2
<1>. QED
  BY <1>4, <1>5, <1>6, <1>7, <1>8, <1>9 DEF VMInv, ControlInv, MachineInv

\* After the gateway's death no request is left, and the machines are what they were.
LEMMA GatewayCrashStep ==
  ASSUME VMInv, GatewayCrash
  PROVE  VMInv'
<1>. USE DEF GatewayCrash, profileVars, executorVars, machineVars, strayVars, Learns
<1>0. Typed /\ waiting' \in Seq(Request) /\ Len(waiting') = 0 /\ doing' # "asking"
  BY EmptySeq DEF VMInv, ControlInv, Typed
<1>1. Typed' /\ OperationKept' /\ LabelsKept'
  <2>1. strayDomains' \subseteq Profiles /\ strayAddresses' \subseteq Profiles
    BY <1>0 DEF Typed, Job
  <2>2. OperationKept' /\ LabelsKept'
    BY <1>0 DEF VMInv, ControlInv, Typed, OperationKept, LabelsKept
  <2>3. doing' \in {"asking", "complete", "idle", "down"} /\ result' \in {"none", "done", "failed"}
    BY <1>0 DEF Typed
  <2>. QED  BY <1>0, <2>1, <2>2, <2>3 DEF Typed
<1>2. AwaitedKept' /\ RequestsPossible' /\ AwaitedLast' /\ RequestsFit'
  BY <1>0 DEF AwaitedKept, RequestsPossible, AwaitedLast, RequestsFit
<1>3. MachineInv'
  <2>1. CreatedIsWhole' /\ FilesWhole' /\ ActiveWhole'
    BY DEF VMInv, MachineInv, CreatedIsWhole, FilesWhole, ActiveWhole, Whole, KindOf
  <2>2. PartsKnown'
    BY <1>0 DEF VMInv, MachineInv, PartsKnown, InWork
  <2>. QED  BY <2>1, <2>2 DEF MachineInv, CreationKnows, DeletionKnows
<1>4. OrderInv'
  <2>1. ~overtaken => result' # "done"
    BY DEF VMInv, OrderInv, AnswersStay
  <2>. QED  BY <1>2, <2>1 DEF OrderInv, AnswersStay
<1>. QED  BY <1>1, <1>2, <1>3, <1>4 DEF VMInv, ControlInv

\* Every step keeps the invariant.
LEMMA NextStep ==
  ASSUME VMInv, [VMNext]_vmVars
  PROVE  VMInv'
<1>1. CASE \E p \in Profiles : \/ CreateProfile(p) \/ DeleteProfile(p)
                               \/ LeaseLapses(p) \/ ClaimOperation(p)
  BY <1>1, CreateProfileStep, DeleteProfileStep, LeaseLapsesStep, ClaimStep
<1>2. CASE TimesOut
  BY <1>2, AbandonedStep DEF TimesOut, Learns
<1>3. CASE CompleteOperation
  BY <1>3, CompleteStep
<1>4. CASE ExecutorCrash
  BY <1>4, AbandonedStep DEF ExecutorCrash, ForgetsOperation
<1>5. CASE ExecutorRestart
  BY <1>5, RestartStep
<1>6. CASE Serve
  BY <1>6, ServeStep
<1>7. CASE JobNext
  <2>. PICK p : p = job.profile
    OBVIOUS
  <2>. QED  BY <1>7, JobNextStep
<1>8. CASE GatewayCrash
  BY <1>8, GatewayCrashStep
<1>9. CASE UNCHANGED vmVars
  <2>. USE <1>9 DEF vmVars, profileVars, executorVars, gatewayVars, machineVars, strayVars
  <2>1. Typed' /\ OperationKept' /\ LabelsKept' /\ RequestsPossible'
    BY DEF VMInv, ControlInv, Typed, OperationKept, LabelsKept, RequestsPossible, Possible
  <2>2. AwaitedKept'
    BY DEF VMInv, ControlInv, AwaitedKept, AwaitedIs, KindOf
  <2>3. MachineInv'
    BY DEF VMInv, MachineInv, CreatedIsWhole, FilesWhole, ActiveWhole, CreationKnows,
           DeletionKnows, PartsKnown, InWork, Free, KindOf, Whole
  <2>4. OrderInv'
    BY DEF VMInv, OrderInv, AwaitedLast, RequestsFit, Fits, AnswersStay, KindOf, Absent
  <2>. QED  BY <2>1, <2>2, <2>3, <2>4 DEF VMInv, ControlInv
<1>. QED
  BY <1>1, <1>2, <1>3, <1>4, <1>5, <1>6, <1>7, <1>8, <1>9 DEF VMNext

\* The invariant holds in every state of every run.
LEMMA ProfilesInductive == VMSpec => []VMInv
<1>1. VMInit => VMInv
  BY InitHolds
<1>2. VMInv /\ [VMNext]_vmVars => VMInv'
  BY NextStep
<1>. QED  BY <1>1, <1>2, PTL DEF VMSpec

\* Every variable holds values of its type; the executor awaits the one request that it asks,
\* and no other.
THEOREM ProfilesTypeCorrect == VMSpec => []VMTypeOK
<1>1. VMInv => VMTypeOK
  BY AwaitsTheOne DEF VMInv, ControlInv, VMTypeOK
<1>. QED  BY <1>1, ProfilesInductive, PTL

\* A profile that analysts may select has its whole machine, so has one that a state file
\* answers for, and no part of a machine is left without such a file but by a crash or a failing
\* virsh, however often operations are repeated, abandoned and repeated again.
THEOREM MachinesAreWhole == VMSpec => []MachinesWhole
<1>1. VMInv => MachinesWhole
  <2>. SUFFICES ASSUME VMInv PROVE MachinesWhole
    OBVIOUS
  <2>1. ActiveMachineExists
    BY DEF VMInv, MachineInv, ActiveWhole, Whole, ActiveMachineExists
  <2>2. RecordedMachineExists
    BY DEF VMInv, MachineInv, FilesWhole, Living, Whole, RecordedMachineExists
  <2>3. MachinesRecorded
    BY DEF VMInv, ControlInv, MachineInv, Typed, PartsKnown, InWork, MachinesRecorded
  <2>. QED  BY <2>1, <2>2, <2>3 DEF MachinesWhole
<1>. QED  BY <1>1, ProfilesInductive, PTL

-----------------------------------------------------------------------------
(* The machine of one profile *)

\* The machine of p, as the abstract machine sees it.
MachineStep(p) == Machine(p)!Next \/ UNCHANGED Machine(p)!machineVars

\* The abstract machine is whole and absent when the machine is.
LEMMA MachineIs ==
  ASSUME NEW p
  PROVE  /\ MachineOf(p) = "whole" <=> Whole(p)
         /\ MachineOf(p) = "absent" <=> Absent(p)
         /\ MachineOf(p) \in {"absent", "partial", "whole"}
BY DEF MachineOf, Whole, Absent

\* It begins as the abstract one does.
LEMMA MachineBegins ==
  ASSUME VMInit, NEW p \in Profiles
  PROVE  Machine(p)!Init
BY DEF VMInit, Machine!Init, MachineOf

\* What the analysts ask for is Create and Delete.
LEMMA MachineQueued ==
  ASSUME NEW q \in Profiles, CreateProfile(q) \/ DeleteProfile(q), VMInv,
         NEW p \in Profiles
  PROVE  MachineStep(p)
<1>1. UNCHANGED <<p \in labelled, MachineOf(p)>>
  BY DEF CreateProfile, DeleteProfile, gatewayVars, machineVars, strayVars, MachineOf
<1>2. CASE p = q
  BY <1>1, <1>2
     DEF VMInv, ControlInv, Typed, CreateProfile, DeleteProfile, MachineStep,
         Machine!Next, Machine!Create, Machine!Delete
<1>3. CASE p # q
  BY <1>1, <1>3
     DEF VMInv, ControlInv, Typed, CreateProfile, DeleteProfile, MachineStep,
         Machine!machineVars
<1>. QED  BY <1>2, <1>3

\* A completed operation is Activate, Retire or GiveUp, according to its answer.
LEMMA MachineCompleted ==
  ASSUME CompleteOperation, VMInv, ~overtaken, NEW p \in Profiles
  PROVE  MachineStep(p)
<1>0. /\ UNCHANGED MachineOf(p)
      /\ profile \in [Profiles ->
                        {"none", "provisioning", "active", "deleting", "deleted", "error"}]
      /\ labelled \subseteq Profiles
      /\ current \in Profiles /\ profile[current] \in {"provisioning", "deleting"}
      /\ result \in {"done", "failed"}
  BY DEF CompleteOperation, gatewayVars, machineVars, strayVars, MachineOf, VMInv, ControlInv,
         Typed, OperationKept
<1>1. CASE UNCHANGED profileVars
  BY <1>0, <1>1 DEF profileVars, MachineStep, Machine!machineVars
<1>2. CASE /\ profile' = [profile EXCEPT ![current] = ProfileAfter(current)]
           /\ labelled' = LabelledAfter(current)
  <2>1. CASE p # current
    BY <1>0, <1>2, <2>1 DEF LabelledAfter, MachineStep, Machine!machineVars
  <2>2. CASE p = current /\ result = "failed"
    BY <1>0, <1>2, <2>2
       DEF ProfileAfter, LabelledAfter, MachineStep, Machine!Next, Machine!GiveUp
  <2>3. CASE p = current /\ result = "done" /\ KindOf(p) = "create"
    <3>1. MachineOf(p) = "whole"
      BY <2>3, MachineIs DEF VMInv, MachineInv, CreatedIsWhole
    <3>. QED
      BY <1>0, <1>2, <2>3, <3>1
         DEF ProfileAfter, LabelledAfter, KindOf, MachineStep, Machine!Next,
             Machine!Activate
  <2>4. CASE p = current /\ result = "done" /\ KindOf(p) = "delete"
    <3>1. MachineOf(p) = "absent"
      BY <2>4, MachineIs DEF VMInv, OrderInv, AnswersStay
    <3>. QED
      BY <1>0, <1>2, <2>4, <3>1
         DEF ProfileAfter, LabelledAfter, KindOf, MachineStep, Machine!Next,
             Machine!Retire
  <2>. QED  BY <1>0, <2>1, <2>2, <2>3, <2>4 DEF KindOf
<1>. QED  BY <1>1, <1>2 DEF CompleteOperation

\* A request changes the machine of its profile only, which it builds or takes apart.
LEMMA MachineServed ==
  ASSUME JobNext, VMInv, ~overtaken, NEW p \in Profiles
  PROVE  MachineStep(p)
<1>. PICK q : q = job.profile
  OBVIOUS
<1>0. job # NoJob
  BY DEF JobNext, CheckCreate, Define, Reserve, Customize, Enter, Record,
         CheckDelete, Leave, Undefine, Release, At
<1>1. MachineChanges(q) /\ JobKnown(q) /\ Fits(job)
  BY <1>0, JobNextStep, JobFacts DEF VMInv, OrderInv, RequestsFit
<1>2. UNCHANGED <<profile[p], p \in labelled>>
  BY DEF JobNext, profileVars
<1>3. CASE UNCHANGED MachineOf(p)
  BY <1>2, <1>3 DEF MachineStep, Machine!machineVars
<1>4. CASE p # q
  BY <1>1, <1>3, <1>4 DEF MachineChanges, OnlyMachine, MachineOf
<1>5. CASE UNCHANGED machineVars
  BY <1>3, <1>5 DEF machineVars, strayVars, MachineOf
<1>6. CASE p = q /\ job.kind = "create" /\ p \notin files
  <2>1. MachineOf(p) # "whole"
    BY <1>6, MachineIs DEF Whole
  <2>2. p \notin labelled /\ profile[p] \in {"provisioning", "deleting", "error"}
    BY <1>1, <1>6 DEF Fits
  <2>3. MachineOf(p)' \in {"absent", "partial", "whole"}
    BY DEF MachineOf
  <2>. QED
    BY <1>2, <2>1, <2>2, <2>3 DEF MachineStep, Machine!Next, Machine!Build
<1>7. CASE p = q /\ job.kind = "delete" /\ p \in files /\ ~Whole(p)'
  <2>1. MachineOf(p) # "absent"
    BY <1>7, MachineIs DEF Absent
  <2>2. p \in labelled /\ profile[p] \in {"deleting", "error"}
    BY <1>1, <1>7 DEF Fits
  <2>3. MachineOf(p)' \in {"absent", "partial"}
    BY <1>7 DEF MachineOf, Whole
  <2>. QED
    BY <1>2, <2>1, <2>2, <2>3 DEF MachineStep, Machine!Next, Machine!TakeApart
<1>. QED  BY <1>1, <1>4, <1>5, <1>6, <1>7 DEF MachineChanges

\* A gateway that dies leaves a machine as it is; one that it was building is nobody's.
LEMMA MachineCrashed ==
  ASSUME GatewayCrash, VMInv, ~overtaken, NEW p \in Profiles
  PROVE  MachineStep(p)
<1>. PICK q : q = job.profile
  OBVIOUS
<1>0. /\ UNCHANGED <<profile[p], p \in labelled, domains, address, entries, files>>
      /\ strayDomains' = strayDomains \cup ((domains \ files) \cap {q})
      /\ strayAddresses' = strayAddresses \cup {r \in {q} \ files : address[r] # 0}
      /\ JobKnown(q) /\ Fits(job)
  BY JobFacts DEF GatewayCrash, profileVars, VMInv, OrderInv, RequestsFit
<1>1. CASE UNCHANGED MachineOf(p)
  BY <1>0, <1>1 DEF MachineStep, Machine!machineVars
<1>2. CASE p # q \/ p \in files
  BY <1>0, <1>1, <1>2 DEF MachineOf
<1>3. CASE p = q /\ p \notin files /\ job.kind = "create"
  <2>1. MachineOf(p) # "whole"
    BY <1>3, MachineIs DEF Whole
  <2>2. p \notin labelled /\ profile[p] \in {"provisioning", "deleting", "error"}
    BY <1>0, <1>3 DEF Fits
  <2>3. MachineOf(p)' \in {"absent", "partial", "whole"}
    BY DEF MachineOf
  <2>. QED
    BY <1>0, <2>1, <2>2, <2>3 DEF MachineStep, Machine!Next, Machine!Build
<1>4. CASE p = q /\ p \notin files /\ job.kind = "delete"
  <2>1. p \in domains => p \in strayDomains
    BY <1>0, <1>4 DEF JobKnown, DeletionKnows, PartsKnown, InWork, Building
  <2>2. address[p] # 0 => p \in strayAddresses
    BY <1>0, <1>4 DEF JobKnown, DeletionKnows, PartsKnown, InWork, Building
  <2>. QED  BY <1>0, <1>1, <2>1, <2>2 DEF MachineOf
<1>. QED  BY <1>0, <1>2, <1>3, <1>4 DEF JobKnown, Job, Kind

\* In order, each step of the system is one of the abstract machine, or leaves it unchanged.
LEMMA MachinesStep ==
  ASSUME VMInv, [VMNext]_vmVars, ~overtaken', NEW p \in Profiles
  PROVE  MachineStep(p)
<1>1. CASE \E q \in Profiles : CreateProfile(q) \/ DeleteProfile(q)
  BY <1>1, MachineQueued
<1>2. CASE CompleteOperation
  BY <1>2, MachineCompleted DEF CompleteOperation, gatewayVars
<1>3. CASE JobNext
  BY <1>3, MachineServed DEF JobNext
<1>4. CASE GatewayCrash
  BY <1>4, MachineCrashed DEF GatewayCrash
<1>5. CASE UNCHANGED <<profile, labelled, machineVars>>
  BY <1>5 DEF machineVars, strayVars, MachineOf, MachineStep, Machine!machineVars
<1>. QED
  BY <1>1, <1>2, <1>3, <1>4, <1>5
     DEF VMNext, LeaseLapses, ClaimOperation, TimesOut, ExecutorCrash, ExecutorRestart, Serve,
         vmVars, profileVars, gatewayVars

\* Control plane, executor and gateway implement the abstract machine for each profile, as long
\* as the lock is given in the order of arrival.
THEOREM ProfilesAreSuchMachines == VMSpec => ProfilesAreMachines
<1>1. VMInit => \A p \in Profiles : Machine(p)!Init
  BY MachineBegins
<1>2. VMInv /\ [VMNext]_vmVars =>
        [~overtaken' => \A p \in Profiles :
           Machine(p)!Next \/ UNCHANGED Machine(p)!machineVars]_vmVars
  BY MachinesStep DEF MachineStep
<1>. QED  BY <1>1, <1>2, ProfilesInductive, PTL DEF VMSpec, ProfilesAreMachines

=============================================================================
