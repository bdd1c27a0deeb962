---------------------------- MODULE WindowsExecutor ----------------------------
(***************************************************************************)
(* The Windows executor and one interactive run with controlled egress:    *)
(* the process submits the sample to CAPE, records the task, waits for it  *)
(* with heartbeats, offers the guest's console while it runs, collects the *)
(* evidence and reports.  A later attempt recovers the recorded task.  The *)
(* process renews its lease only in its waiting loops, and is restarted    *)
(* when an exception or a crash ended it; CAPE goes on meanwhile.          *)
(***************************************************************************)
EXTENDS Naturals, FiniteSets, FiniteSetsExt

CONSTANTS
  Tasks,        \* task numbers that CAPE may give, one per submission
  MaxAttempts,  \* max_attempts of the run's platform stage
  Duration,     \* duration_seconds of the console, in units of time
  None

ASSUME TasksAssumption == MaxAttempts \in Nat \ {0} /\ Cardinality(Tasks) >= MaxAttempts
ASSUME DurationAssumption == Duration \in Nat \ {0}
ASSUME NoneAssumption == None \notin Tasks

VARIABLES
  \* the control plane
  stage,       \* state of the platform stage
  attempts,    \* attempts made of it
  cancelling,  \* the run is in status CANCELLING
  native,      \* the recorded native task
  pending,     \* attempts with a registration of the console that was found to hold a
               \* lease, and has not changed the session yet
  session,     \* WindowsDynamicSession.state, "none" before there is one
  remaining,   \* its expires_at - now, 0 once it has passed
  elapsed,     \* now - its started_at, as far as Duration
  \* the process
  pc,          \* what process_stage does next, "down" without a process
  task,        \* task_id
  stop,        \* the stop that the last heartbeat asked for
  seen,        \* status of the task when last asked for
  handoff,     \* the task is over, the handoff awaited
  console,     \* "closed", "registered", or "finished" after finish_requested
  \* the broker and CAPE
  lease,       \* at the broker: "none", "held" by the process that got the answer,
               \* or "lost" when nobody knows of it
  tasks        \* state of CAPE's tasks

planeVars == <<stage, attempts, cancelling, native, pending>>
sessionVars == <<session, remaining, elapsed>>
claimVars == <<task, stop, seen, handoff, console>>
vars == <<planeVars, sessionVars, pc, claimVars, lease, tasks>>

Terminal == {"completed", "acknowledged", "ended"}

Init ==
  /\ stage = "queued"
  /\ attempts = 0
  /\ cancelling = FALSE
  /\ native = None
  /\ pending = {}
  /\ session = "none"
  /\ remaining = 0
  /\ elapsed = 0
  /\ pc = "idle"
  /\ task = None
  /\ stop = "none"
  /\ seen = "none"
  /\ handoff = FALSE
  /\ console = "closed"
  /\ lease = "none"
  /\ tasks = [t \in Tasks |-> "none"]

Valid == stage = "active"

Step(from, to) == pc = from /\ pc' = to

Forgets ==
  /\ task' = None
  /\ stop' = "none"
  /\ seen' = "none"
  /\ handoff' = FALSE
  /\ console' = "closed"

Dies ==
  /\ pc' = "down"
  /\ Forgets
  /\ lease' = IF lease = "held" THEN "lost" ELSE lease

-----------------------------------------------------------------------------
(* The control plane *)

\* Mutant: a handler leaves the session of a Windows run as it is.
ClosesSessionNot(state) == UNCHANGED sessionVars

ClosesSession(state) ==
  /\ session' = IF session = "none" THEN "none" ELSE state
  /\ UNCHANGED <<remaining, elapsed>>

Ends(state) ==
  /\ stage' = state
  /\ cancelling' = (cancelling /\ state \notin Terminal)

\* Mutant: the attempt that ends is not counted.
MayRetryUncounted == attempts - 1 < MaxAttempts

MayRetry == attempts < MaxAttempts

Expires ==
  /\ Valid
  /\ Ends(IF ~cancelling /\ MayRetry THEN "queued" ELSE "ended")
  /\ ClosesSession("expired")
  /\ UNCHANGED <<attempts, native, pending>>

\* The scheduler ends a lease that was not renewed in time, or the attempt's deadline.
LeaseExpires ==
  /\ Expires
  /\ UNCHANGED <<pc, claimVars, lease, tasks>>

Cancel ==
  /\ stage \in {"queued", "active"}
  /\ ~cancelling
  /\ IF Valid THEN cancelling' = TRUE /\ UNCHANGED stage
              ELSE stage' = "ended" /\ UNCHANGED cancelling
  /\ UNCHANGED <<attempts, native, pending, sessionVars, pc, claimVars, lease, tasks>>

\* The analyst's finish request.
FinishSession ==
  /\ session = "ready"
  /\ session' = "finalizing"
  /\ UNCHANGED <<planeVars, remaining, elapsed, pc, claimVars, lease, tasks>>

\* Mutant: a registration grants a window of its own.
WindowRenewed == Duration

Window == IF session = "none" THEN Duration ELSE Min({remaining, Duration})

\* The lease of a registration is read without a lock, before the session's row is locked
\* and whatever is to become of the attempt.  A process that gave up an answer may have
\* sent the request again.
RegisterSession(n) ==
  /\ n \in pending
  /\ pending' \in {pending, pending \ {n}}
  /\ session' = "ready"
  /\ remaining' = Window
  /\ IF pc = "registering" /\ attempts = n
     THEN pc' = "poll" /\ console' = "registered"
     ELSE UNCHANGED <<pc, console>>
  /\ UNCHANGED <<stage, attempts, cancelling, native, elapsed, task, stop, seen, handoff,
                 lease, tasks>>

-----------------------------------------------------------------------------
(* process_stage, as far as the loop that waits for the task *)

Claim ==
  /\ Step("idle", "network")
  /\ stage = "queued"
  /\ stage' = "active"
  /\ attempts' = attempts + 1
  /\ cancelling' = FALSE
  /\ task' = native
  /\ UNCHANGED <<native, pending, sessionVars, stop, seen, handoff, console, lease, tasks>>

\* A lease whose answer is lost is not known to be open.
Acquire ==
  /\ pc = "network"
  /\ \/ lease' = "held" /\ pc' = IF task = None THEN "submit" ELSE "heartbeat"
     \/ lease' \in {"none", "lost", lease} /\ pc' = "fail"
  /\ UNCHANGED <<planeVars, sessionVars, claimVars, tasks>>

\* The download, and the submission, whose answer may be lost.
Submit ==
  /\ pc = "submit"
  /\ \/ \E t \in Tasks :
          /\ tasks[t] = "none"
          /\ tasks' = [tasks EXCEPT ![t] = "active"]
          /\ \/ pc' = "record" /\ task' = t
             \/ pc' = "failing" /\ UNCHANGED task
     \/ pc' = "failing" /\ UNCHANGED <<tasks, task>>
  /\ UNCHANGED <<planeVars, sessionVars, stop, seen, handoff, console, lease>>

RecordTask ==
  /\ pc = "record"
  /\ \/ Valid /\ native' = task /\ pc' \in {"heartbeat", "failing"}
     \/ UNCHANGED native /\ pc' = "failing"
  /\ UNCHANGED <<stage, attempts, cancelling, pending, sessionVars, claimVars, lease, tasks>>

-----------------------------------------------------------------------------
(* _wait and _wait_for_handoff: an exception of any request leaves them *)

Heartbeat ==
  /\ Step("heartbeat", "renew")
  /\ \/ /\ Valid
        /\ ~cancelling
        /\ UNCHANGED <<planeVars, sessionVars, stop>>
     \/ /\ Valid
        /\ cancelling
        /\ stop' = "cancelled"
        /\ UNCHANGED <<planeVars, sessionVars>>
     \/ /\ ~cancelling
        /\ stop' = "timeout"
        /\ Expires
  /\ UNCHANGED <<task, seen, handoff, console, lease, tasks>>

\* The heartbeat of the egress lease, before the answer of the first is looked at.
Renew ==
  /\ pc = "renew"
  /\ lease = "held"
  /\ pc' = CASE stop = "none" -> IF handoff THEN "handoff" ELSE "status"
             [] stop # "none" -> IF handoff THEN "stopped" ELSE "stopping"
  /\ UNCHANGED <<planeVars, sessionVars, claimVars, lease, tasks>>

\* What the loop does with the last status of the task.
LoopEnds(value) ==
  CASE value = "active" -> pc' = "heartbeat" /\ UNCHANGED handoff
    [] value = "done"   -> pc' = "handoff" /\ handoff' = TRUE
    [] value = "failed" -> pc' = "failing" /\ UNCHANGED handoff

Status ==
  /\ pc = "status"
  /\ seen' = tasks[task]
  /\ \/ console = "closed" /\ seen' = "active" /\ pc' = "ready" /\ UNCHANGED handoff
     \/ console = "registered" /\ pc' = "poll" /\ UNCHANGED handoff
     \/ console # "registered" /\ LoopEnds(seen')
  /\ UNCHANGED <<planeVars, sessionVars, task, stop, console, lease, tasks>>

\* A console that cannot be opened or registered, or whose registration is not answered in
\* time, is tried again with the next status.
Ready ==
  /\ \/ /\ Step("ready", "registering")
        /\ Valid
        /\ pending' = pending \cup {attempts}
     \/ /\ pc \in {"ready", "registering"}
        /\ pc' = "heartbeat"
        /\ UNCHANGED pending
  /\ UNCHANGED <<stage, attempts, cancelling, native, sessionVars, claimVars, lease, tasks>>

Poll ==
  /\ pc = "poll"
  /\ Valid
  /\ IF session = "finalizing" \/ remaining = 0
     THEN /\ session' = "finalizing"
          /\ pc' = "finish"
          /\ UNCHANGED handoff
     ELSE /\ LoopEnds(seen)
          /\ UNCHANGED session
  /\ UNCHANGED <<planeVars, remaining, elapsed, task, stop, seen, console, lease, tasks>>

\* Mutant: CAPE accepts the request, and nobody waits for the task.
TaskStopsUnawaited == UNCHANGED tasks

\* cancel: CAPE accepts the request and the task leaves the active states.
TaskStops == tasks' = [tasks EXCEPT ![task] = IF @ = "active" THEN "done" ELSE @]

FinishTask ==
  /\ pc = "finish"
  /\ TaskStops
  /\ console' = "finished"
  /\ seen' = tasks'[task]
  /\ LoopEnds(seen')
  /\ UNCHANGED <<planeVars, sessionVars, task, stop, lease>>

StopTask ==
  /\ Step("stopping", "stopped")
  /\ TaskStops
  /\ UNCHANGED <<planeVars, sessionVars, claimVars, lease>>

AwaitHandoff ==
  /\ Step("handoff", "heartbeat")
  /\ UNCHANGED <<planeVars, sessionVars, claimVars, lease, tasks>>

\* The handoff is there, or the deadline for it passes.
HandoffEnds ==
  /\ pc = "handoff"
  /\ pc' \in {"collect", "failing"}
  /\ UNCHANGED <<planeVars, sessionVars, claimVars, lease, tasks>>

\* The bundle and its uploads: each is refused without a lease.
Collect ==
  /\ Step("collect", "revoke")
  /\ Valid
  /\ UNCHANGED <<planeVars, sessionVars, claimVars, lease, tasks>>

\* A request that ends the loops or the collection with an exception: it fails, or it
\* is refused because the lease is over.
Raising == {"heartbeat", "renew", "status", "poll", "finish", "stopping", "handoff", "collect"}
Refused == {"heartbeat", "poll", "collect"}

RaisesFrom(steps) ==
  /\ pc \in steps
  /\ pc' = "failing"
  /\ UNCHANGED <<planeVars, sessionVars, claimVars, lease, tasks>>

IsRefused == ~Valid /\ RaisesFrom(Refused)
LosesNetwork == lease # "held" /\ RaisesFrom({"renew"})
Raises == RaisesFrom(Raising)

-----------------------------------------------------------------------------
(* The outcome *)

Revoked(to) == pc' = to /\ lease' = "none" /\ UNCHANGED claimVars

\* A revocation that raises is a failure in the try block, and nobody's in a handler.
Revoke ==
  /\ \/ pc = "revoke" /\ Revoked("report")
     \/ pc = "revoke" /\ pc' = "failing" /\ UNCHANGED <<lease, claimVars>>
     \/ pc = "stopped" /\ Revoked("acknowledge")
     \/ pc = "failing" /\ Revoked("fail")
     \/ pc \in {"stopped", "failing"} /\ Dies
  /\ UNCHANGED <<planeVars, sessionVars, tasks>>

Released == pc' = "idle" /\ Forgets /\ UNCHANGED lease

\* The process dies of a refusal, or of an answer that does not come.
Reports(from, state, closed) ==
  /\ pc = from
  /\ \/ Valid /\ Ends(state) /\ ClosesSession(closed) /\ (Released \/ Dies)
     \/ Dies /\ UNCHANGED <<stage, cancelling, sessionVars>>
  /\ UNCHANGED <<attempts, native, pending, tasks>>

\* The completion is in the try block: its failure is reported.
Report ==
  /\ pc = "report"
  /\ \/ Valid /\ Ends("completed") /\ ClosesSession("ended") /\ Released
     \/ /\ \/ Valid /\ Ends("completed") /\ ClosesSession("ended")
           \/ UNCHANGED <<stage, cancelling, sessionVars>>
        /\ pc' = "fail"
        /\ UNCHANGED <<claimVars, lease>>
  /\ UNCHANGED <<attempts, native, pending, tasks>>

Acknowledge ==
  \/ stop = "cancelled" /\ Reports("acknowledge", "acknowledged", "cancelled")
  \/ /\ pc = "acknowledge"
     /\ stop = "timeout"
     /\ Released
     /\ UNCHANGED <<planeVars, sessionVars, tasks>>

\* Invalid evidence is not worth a retry.
Fail ==
  \/ Reports("fail", IF MayRetry THEN "queued" ELSE "ended", "failed")
  \/ Reports("fail", "ended", "failed")

-----------------------------------------------------------------------------
(* CAPE and the environment *)

TaskEnds(t) ==
  /\ tasks[t] = "active"
  /\ \E s \in {"done", "failed"} : tasks' = [tasks EXCEPT ![t] = s]
  /\ UNCHANGED <<planeVars, sessionVars, pc, claimVars, lease>>

Crash ==
  /\ pc # "down"
  /\ Dies
  /\ UNCHANGED <<planeVars, sessionVars, tasks>>

Restart ==
  /\ Step("down", "idle")
  /\ UNCHANGED <<planeVars, sessionVars, claimVars, lease, tasks>>

BrokerDrops ==
  /\ lease # "none"
  /\ lease' = "none"
  /\ UNCHANGED <<planeVars, sessionVars, pc, claimVars, tasks>>

Tick ==
  /\ session # "none"
  /\ elapsed < Duration \/ remaining > 0
  /\ elapsed' = Min({elapsed + 1, Duration})
  /\ remaining' = Max({remaining - 1, 0})
  /\ UNCHANGED <<planeVars, session, pc, claimVars, lease, tasks>>

-----------------------------------------------------------------------------

ProcessNext ==
  \/ Claim \/ Acquire \/ Submit \/ RecordTask
  \/ Heartbeat \/ Renew \/ Status \/ Ready \/ Poll \/ FinishTask \/ StopTask
  \/ AwaitHandoff \/ HandoffEnds \/ Collect \/ IsRefused \/ LosesNetwork
  \/ Revoke \/ Report \/ Acknowledge \/ Fail

Next ==
  \/ ProcessNext \/ Raises
  \/ LeaseExpires \/ Cancel \/ FinishSession
  \/ \E n \in pending : RegisterSession(n)
  \/ \E t \in Tasks : TaskEnds(t)
  \/ Crash \/ Restart \/ BrokerDrops \/ Tick

Spec == Init /\ [][Next]_vars

\* The process runs on while it lives and is restarted on failure, the scheduler ends
\* the lease of a process that is gone, CAPE enforces its time-out, and time passes.
\* The wait for the handoff has a deadline, hence strong fairness: its loop comes back
\* to the same step until then.
Fairness ==
  /\ WF_vars(ProcessNext)
  /\ SF_vars(HandoffEnds)
  /\ WF_vars(Restart)
  /\ WF_vars(pc \in {"idle", "down"} /\ LeaseExpires)
  /\ \A t \in Tasks : WF_vars(TaskEnds(t))
  /\ WF_vars(Tick)

FairSpec == Spec /\ Fairness

-----------------------------------------------------------------------------
(* Correctness *)

\* Every variable holds values of its type.
TypeOK ==
  /\ stage \in {"queued", "active"} \cup Terminal
  /\ attempts \in 0 .. MaxAttempts
  /\ cancelling \in BOOLEAN
  /\ native \in Tasks \cup {None}
  /\ pending \subseteq 1 .. MaxAttempts
  /\ session \in {"none", "ready", "finalizing", "expired", "failed", "cancelled", "ended"}
  /\ remaining \in 0 .. Duration
  /\ elapsed \in 0 .. Duration
  /\ pc \in Raising \cup {"idle", "network", "submit", "record", "ready", "registering", "revoke",
                          "report", "stopped", "acknowledge", "failing", "fail", "down"}
  /\ task \in Tasks \cup {None}
  /\ stop \in {"none", "cancelled", "timeout"}
  /\ seen \in {"none", "active", "done", "failed"}
  /\ handoff \in BOOLEAN
  /\ console \in {"closed", "registered", "finished"}
  /\ lease \in {"none", "held", "lost"}
  /\ tasks \in [Tasks -> {"none", "active", "done", "failed"}]

\* When an analysis is complete, or its cancellation acknowledged, the recorded task
\* has left the active states and the process holds no egress lease: "The executor
\* acknowledges cancellation to UMAT only after CAPE has accepted and completed".
SettledRunIsQuiet ==
  stage \in {"completed", "acknowledged"} =>
    /\ native # None
    /\ tasks[native] # "active"
    /\ lease # "held"

\* However often executors crash and register the console again, the analyst's window
\* ends Duration after the first registration: "A recovery must never grant a fresh
\* 10-minute observation window".
WindowFixed == remaining > 0 => elapsed + remaining <= Duration

\* A session that is ready while an attempt is at work does not stay so: its window passes,
\* or the attempt ends.
SessionEnds == session = "ready" /\ Valid ~> session # "ready"

-----------------------------------------------------------------------------
(* Said of the code by its documents or comments, and not kept (README) *)

\* The sample is detonated once: the task is recorded "immediately and recovers it
\* after restart without another submission".  A crash between the two submits it again.
OneSubmission == Cardinality({t \in Tasks : tasks[t] # "none"}) <= 1

\* A registration that was found to hold a lease opens the session after its last attempt has
\* expired, and nothing closes it again.
EverySessionEnds == session = "ready" ~> session # "ready"

\* A finish request of the analyst is not undone.  A registration after it undoes it.
FinishHonoured == [][session = "finalizing" => session' # "ready"]_vars

=============================================================================
