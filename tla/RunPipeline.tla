---------------------------- MODULE RunPipeline ----------------------------
(***************************************************************************)
(* One analysis run of the control plane: its status, its stages, and the  *)
(* attempts and leases through which polling executors work on them.  Each *)
(* action is one committed database transaction: an API handler of the     *)
(* case or executor routes, a poll of the scheduler, or a step of the      *)
(* adapter or report worker.  Wall-clock time appears only as the passing  *)
(* of a lease's expiry, of an attempt's deadline and of a retry's backoff. *)
(***************************************************************************)
EXTENDS Naturals, Sequences

CONSTANTS
  MaxAttempts,    \* per stage type, the retry policy of the settings
  ExecutorTypes,  \* stage types some enrolled executor may claim
  WorkerTypes     \* stage types served by the adapter and report workers

PlatformAnalysis == "platform_analysis"
C2Analysis == "c2_analysis"
PlatformAdaptation == "platform_adaptation"
C2Adaptation == "c2_adaptation"
CaseAggregation == "case_aggregation"
ReportGeneration == "report_generation"

Adaptation == {PlatformAdaptation, C2Adaptation}
Reporting == {CaseAggregation, ReportGeneration}
StageType == {PlatformAnalysis, C2Analysis} \cup Adaptation \cup Reporting

\* A retry policy is a positive number for each stage type.
ASSUME MaxAttemptsAssumption == MaxAttempts \in [StageType -> Nat \ {0}]

\* A stage type is served by executors or by a worker, never by both, and each
\* worker that runs serves both of its stage types.
ASSUME ServedAssumption ==
  /\ ExecutorTypes \subseteq StageType
  /\ WorkerTypes \in {{}, Adaptation, Reporting, Adaptation \cup Reporting}
  /\ ExecutorTypes \cap WorkerTypes = {}

VARIABLES
  status,       \* AnalysisRun.status
  result,       \* AnalysisRun.result
  cancelAsked,  \* AnalysisRun.cancellation_requested_at is set
  c2Enabled,    \* AnalysisRun.c2_analysis_enabled
  stage,        \* AnalysisStage.state by stage type, "absent" without a row
  backoff,      \* AnalysisStage.next_attempt_at lies in the future
  attempts,     \* AnalysisAttempt rows of a stage, each with its ExecutorLease
  failing,      \* stages whose worker raised and has yet to record the failure
  snapshot      \* verdict of the run's CaseReportSnapshot, or "none"

runVars == <<status, result, cancelAsked, c2Enabled>>
leaseVars == <<backoff, attempts>>
workerVars == <<failing, snapshot>>
vars == <<runVars, stage, leaseVars, workerVars>>

-----------------------------------------------------------------------------
(* Rows *)

RunStatus == {"awaiting_confirmation", "queued", "running", "cancelling", "terminal"}
RunResult == {"none", "completed", "partial", "inconclusive", "failed", "cancelled",
              "unsupported"}

Pending == {"waiting", "queued"}
Active == {"leased", "running"}
Succeeded == {"completed", "partial"}
Outcome == Succeeded \cup {"unsupported"}
Settled == Outcome \cup {"failed", "cancelled"}
StageState == {"absent"} \cup Pending \cup Active \cup Settled

\* The verdicts that GenerateReport tells apart.
Verdict == {"failed", "inconclusive", "decisive"}

\* released is the lease's release_reason, "no" while released_at is unset; fresh
\* says that expires_at, and inTime that the stage deadline, lies in the future.
Attempt == [state : {"leased", "running", "completed", "failed", "cancelled", "expired"},
            released : {"no", "completed", "failed", "cancelled", "timeout", "lease_expired"},
            fresh : BOOLEAN,
            inTime : BOOLEAN]

\* Mutant: the attempt starts in its stage's state.
NewAttemptQueued == [state |-> "queued", released |-> "no", fresh |-> TRUE, inTime |-> TRUE]

NewAttempt == [state |-> "leased", released |-> "no", fresh |-> TRUE, inTime |-> TRUE]

\* A released lease has no clock left.
Released(attemptState, reason) ==
  [state |-> attemptState, released |-> reason, fresh |-> FALSE, inTime |-> FALSE]

Held(s) == {n \in DOMAIN attempts[s] : attempts[s][n].released = "no"}

\* Mutant: the replay exemption from the lease check applies to every request.
LeaseValidAlways(s, n) == n \in DOMAIN attempts[s]

\* The lease check of every signed stage mutation.
LeaseValid(s, n) == n \in Held(s) /\ attempts[s][n].fresh

\* Mutant: off by one.
CanRetryOnceMore(s) == Len(attempts[s]) <= MaxAttempts[s]

CanRetry(s) == Len(attempts[s]) < MaxAttempts[s]

\* The result of a run one of whose stages failed for good.
FailureResult(s) ==
  CASE s = PlatformAnalysis -> "failed"
    [] s = C2Analysis -> "partial"
    [] OTHER -> "inconclusive"

\* Mutant: cancelling touches settled stages.
CancelPendingAll(states) ==
  [s \in StageType |-> IF states[s] \in {"absent"} \cup Active THEN states[s] ELSE "cancelled"]

CancelPending(states) ==
  [s \in StageType |-> IF states[s] \in Pending THEN "cancelled" ELSE states[s]]

NoneActive(states) == \A s \in StageType : states[s] \notin Active

-----------------------------------------------------------------------------
(* Intake and the user's requests *)

Init ==
  /\ status \in {"awaiting_confirmation", "queued"}
  /\ result = "none"
  /\ cancelAsked = FALSE
  /\ c2Enabled \in BOOLEAN
  /\ stage = [s \in StageType |->
                IF s = PlatformAnalysis /\ status = "queued" THEN "queued" ELSE "absent"]
  /\ backoff = [s \in StageType |-> FALSE]
  /\ attempts = [s \in StageType |-> <<>>]
  /\ failing = {}
  /\ snapshot = "none"

\* The user confirms a submission that duplicates an earlier one.
ConfirmRun ==
  /\ status = "awaiting_confirmation"
  /\ status' = "queued"
  /\ stage' = [stage EXCEPT ![PlatformAnalysis] = "queued"]
  /\ UNCHANGED <<result, cancelAsked, c2Enabled, leaseVars, workerVars>>

\* Cancellation is immediate unless an executor is at work.
CancelRun ==
  /\ status # "terminal"
  /\ cancelAsked' = TRUE
  /\ \/ /\ ~NoneActive(stage)
        /\ status' = "cancelling"
        /\ UNCHANGED <<result, stage>>
     \/ /\ NoneActive(stage)
        /\ status' = "terminal"
        /\ result' = "cancelled"
        /\ stage' = CancelPending(stage)
  /\ UNCHANGED <<c2Enabled, leaseVars, workerVars>>

-----------------------------------------------------------------------------
(* Expiry: due[s] holds the attempts of s whose leases a transaction ends.  *)

\* Mutant: a sweep looks at the leases' expiry only.
OverdueLeases == [s \in StageType |-> {n \in Held(s) : ~attempts[s][n].fresh}]

Overdue == [s \in StageType |->
              {n \in Held(s) : ~(attempts[s][n].fresh /\ attempts[s][n].inTime)}]

Only(s, n) == [t \in StageType |-> IF t = s THEN {n} ELSE {}]

Hit(due) == {s \in StageType : due[s] # {}}

Exhausted(due) == {s \in Hit(due) : ~CanRetry(s)}

\* Mutant: the attempt ends but its lease is not released.
ExpiredAttemptUnreleased(a) == [a EXCEPT !.state = "expired"]

ExpiredAttempt(a) ==
  Released(IF status = "cancelling" THEN "cancelled" ELSE "expired",
           IF a.inTime THEN "lease_expired" ELSE "timeout")

ExpiredAttempts(due) ==
  [s \in StageType |->
    [n \in DOMAIN attempts[s] |->
      IF n \in due[s] THEN ExpiredAttempt(attempts[s][n]) ELSE attempts[s][n]]]

\* Mutant: an expired stage always goes back to the queue.
HitStateRequeued(s) == IF status = "cancelling" THEN "cancelled" ELSE "queued"

\* The state a stage itself takes, before its pending siblings are looked at.
HitState(s) ==
  IF status = "cancelling" THEN "cancelled" ELSE IF CanRetry(s) THEN "queued" ELSE "failed"

\* Mutant: the sweep releases leases and forgets their stages.
HitStagesForgotten(due) == stage

HitStages(due) == [s \in StageType |-> IF s \in Hit(due) THEN HitState(s) ELSE stage[s]]

\* The last active stage of a cancelling run ends the run.
EndsCancellation(due) ==
  status = "cancelling" /\ Hit(due) # {} /\ NoneActive(HitStages(due))

ExpiredStages(due) ==
  IF EndsCancellation(due) THEN CancelPending(HitStages(due)) ELSE HitStages(due)

ExpiredBackoff(due) ==
  [s \in StageType |->
    backoff[s] \/ (status # "cancelling" /\ s \in Hit(due) /\ CanRetry(s))]

ExpiredStatus(due) ==
  IF EndsCancellation(due) \/ (status # "cancelling" /\ Exhausted(due) # {})
  THEN "terminal" ELSE status

\* More than one result when stages of different kinds run out of attempts at once.
ExpiredResults(due) ==
  CASE EndsCancellation(due) -> {"cancelled"}
    [] status # "cancelling" /\ Exhausted(due) # {} -> {FailureResult(s) : s \in Exhausted(due)}
    [] OTHER -> {result}

Expire(due) ==
  /\ attempts' = ExpiredAttempts(due)
  /\ stage' = ExpiredStages(due)
  /\ backoff' = ExpiredBackoff(due)
  /\ status' = ExpiredStatus(due)
  /\ result' \in ExpiredResults(due)
  /\ UNCHANGED <<cancelAsked, c2Enabled, workerVars>>

\* A poll of the scheduler, or a claim that finds no stage to lease.
SweepLeases ==
  /\ Hit(Overdue) # {}
  /\ Expire(Overdue)

-----------------------------------------------------------------------------
(* Executors *)

\* A claim first sweeps the leases, then leases a queued stage of any run.
ClaimStage(s) ==
  /\ s \in ExecutorTypes
  /\ ExpiredStages(Overdue)[s] = "queued"
  /\ ~ExpiredBackoff(Overdue)[s]
  /\ stage' = [ExpiredStages(Overdue) EXCEPT ![s] = "leased"]
  /\ attempts' = [ExpiredAttempts(Overdue) EXCEPT ![s] = Append(@, NewAttempt)]
  /\ backoff' = ExpiredBackoff(Overdue)
  /\ status' = "running"
  /\ result' \in ExpiredResults(Overdue)
  /\ UNCHANGED <<cancelAsked, c2Enabled, workerVars>>

\* A heartbeat past the deadline ends the attempt; one that finds the run
\* cancelling only renews the lease and tells the executor to stop.
Heartbeat(s, n) ==
  /\ LeaseValid(s, n)
  /\ status # "cancelling"
  /\ \/ /\ ~attempts[s][n].inTime
        /\ Expire(Only(s, n))
     \/ /\ attempts[s][n].inTime
        /\ stage' = [stage EXCEPT ![s] = "running"]
        /\ attempts' = [attempts EXCEPT ![s][n].state = "running"]
        /\ UNCHANGED <<runVars, backoff, workerVars>>

\* Mutant: the platform's adaptation does not wait for C2 analysis.
NextStagesUnordered(s, states) ==
  CASE s = PlatformAnalysis -> {PlatformAdaptation} \cup (IF c2Enabled THEN {C2Analysis} ELSE {})
    [] s = C2Analysis -> Adaptation
    [] s = CaseAggregation -> {ReportGeneration}
    [] OTHER -> {}

\* The stages that the completion of s makes ready, given all stage states.
NextStages(s, states) ==
  CASE s = PlatformAnalysis -> IF c2Enabled THEN {C2Analysis} ELSE {PlatformAdaptation}
    [] s = C2Analysis -> Adaptation
    [] s = PlatformAdaptation /\ ~c2Enabled -> {CaseAggregation}
    [] s \in Adaptation /\ (\A t \in Adaptation : states[t] = "completed") -> {CaseAggregation}
    [] s = CaseAggregation -> {ReportGeneration}
    [] OTHER -> {}

CreateStages(types, states) ==
  [t \in StageType |-> IF t \in types /\ states[t] = "absent" THEN "queued" ELSE states[t]]

CompleteStage(s, n, outcome) ==
  /\ LeaseValid(s, n)
  /\ attempts' = [attempts EXCEPT ![s][n] = Released("completed", "completed")]
  /\ LET own == [stage EXCEPT ![s] = outcome]
         declined == s = PlatformAnalysis /\ outcome = "unsupported"
     IN  /\ stage' = IF declined THEN own ELSE CreateStages(NextStages(s, own), own)
         /\ status' = IF declined \/ s = ReportGeneration THEN "terminal" ELSE status
         /\ result' = CASE declined -> "unsupported"
                        [] s = ReportGeneration -> "completed"
                        [] outcome = "partial" -> "partial"
                        [] OTHER -> result
  /\ UNCHANGED <<cancelAsked, c2Enabled, backoff, workerVars>>

FailStage(s, n, retryable) ==
  /\ LeaseValid(s, n)
  /\ attempts' = [attempts EXCEPT ![s][n] = Released("failed", "failed")]
  /\ \/ /\ retryable /\ CanRetry(s)
        /\ stage' = [stage EXCEPT ![s] = "queued"]
        /\ backoff' = [backoff EXCEPT ![s] = TRUE]
        /\ UNCHANGED <<status, result>>
     \/ /\ ~(retryable /\ CanRetry(s))
        /\ stage' = [stage EXCEPT ![s] = "failed"]
        /\ status' = "terminal"
        /\ result' = FailureResult(s)
        /\ UNCHANGED backoff
  /\ UNCHANGED <<cancelAsked, c2Enabled, workerVars>>

CancellationAck(s, n) ==
  /\ LeaseValid(s, n)
  /\ status = "cancelling"
  /\ attempts' = [attempts EXCEPT ![s][n] = Released("cancelled", "cancelled")]
  /\ LET own == [stage EXCEPT ![s] = "cancelled"]
     IN  \/ /\ NoneActive(own)
            /\ stage' = CancelPending(own)
            /\ status' = "terminal"
            /\ result' = "cancelled"
         \/ /\ ~NoneActive(own)
            /\ stage' = own
            /\ UNCHANGED <<status, result>>
  /\ UNCHANGED <<cancelAsked, c2Enabled, backoff, workerVars>>

-----------------------------------------------------------------------------
(* The adapter worker *)

\* The stage whose uploaded bundle an adaptation normalises.
Source(s) == IF s = C2Adaptation THEN C2Analysis ELSE PlatformAnalysis

AdapterIdle == failing \cap Adaptation = {}

\* Mutant: the worker does not look at the state of the stage it adapts.
AdaptBundleAnyState(s) ==
  /\ s \in Adaptation \cap WorkerTypes
  /\ AdapterIdle
  /\ stage[Source(s)] \in Succeeded
  /\ stage' = [stage EXCEPT ![s] = "completed"]
  /\ UNCHANGED <<runVars, leaseVars, workerVars>>

AdaptBundle(s) ==
  /\ s \in Adaptation \cap WorkerTypes
  /\ AdapterIdle
  /\ stage[s] = "queued"
  /\ stage[Source(s)] \in Succeeded
  /\ stage' = [stage EXCEPT ![s] = "completed"]
  /\ UNCHANGED <<runVars, leaseVars, workerVars>>

\* The adapter raises and its transaction is rolled back, which unlocks the
\* stage; the Android adapter first commits the rejection of a bundle.
AdaptRaises(s) ==
  /\ s \in Adaptation \cap WorkerTypes
  /\ AdapterIdle
  /\ stage[s] = "queued"
  /\ failing' = failing \cup {s}
  /\ \/ UNCHANGED stage
     \/ /\ s = PlatformAdaptation
        /\ stage[Source(s)] \in Succeeded
        /\ stage' = [stage EXCEPT ![s] = "failed"]
  /\ UNCHANGED <<runVars, leaseVars, snapshot>>

MarkAdaptationFailed(s) ==
  /\ s \in failing \cap Adaptation
  /\ failing' = failing \ {s}
  /\ stage' = [stage EXCEPT ![s] = "failed"]
  /\ status' = "terminal"
  /\ result' = "inconclusive"
  /\ UNCHANGED <<cancelAsked, c2Enabled, leaseVars, snapshot>>

\* With no adaptation queued, the worker ends a run left open by a crash
\* between the two commits of a rejected bundle.
SettleOrphanedRun ==
  /\ Adaptation \subseteq WorkerTypes
  /\ AdapterIdle
  /\ \A s \in Adaptation : stage[s] # "queued"
  /\ \E s \in Adaptation : stage[s] = "failed"
  /\ status # "terminal"
  /\ status' = "terminal"
  /\ result' = "inconclusive"
  /\ UNCHANGED <<cancelAsked, c2Enabled, stage, leaseVars, workerVars>>

-----------------------------------------------------------------------------
(* The report worker *)

ReporterIdle == failing \cap Reporting = {}

RequiredAdaptations == IF c2Enabled THEN Adaptation ELSE {PlatformAdaptation}

\* Mutant: aggregation is due once no adaptation is queued.
AggregationDueEarly ==
  /\ status = "running"
  /\ stage[CaseAggregation] = "absent"
  /\ \A s \in RequiredAdaptations : stage[s] # "queued"

\* The worker's first step, in the transaction of whatever it does next.
AggregationDue ==
  /\ status = "running"
  /\ stage[CaseAggregation] = "absent"
  /\ \A s \in RequiredAdaptations : stage[s] = "completed"

EnsuredStages ==
  IF AggregationDue THEN [stage EXCEPT ![CaseAggregation] = "queued"] ELSE stage

\* The transaction commits while it works on another run's stage.
EnsureAggregation ==
  /\ Reporting \subseteq WorkerTypes
  /\ ReporterIdle
  /\ AggregationDue
  /\ stage' = EnsuredStages
  /\ UNCHANGED <<runVars, leaseVars, workerVars>>

AggregateCase(verdict) ==
  /\ Reporting \subseteq WorkerTypes
  /\ ReporterIdle
  /\ EnsuredStages[CaseAggregation] = "queued"
  /\ stage' = [EnsuredStages EXCEPT ![CaseAggregation] = "completed",
                                    ![ReportGeneration] = IF @ = "absent" THEN "queued" ELSE @]
  /\ snapshot' = verdict
  /\ UNCHANGED <<runVars, leaseVars, failing>>

GenerateReport ==
  /\ Reporting \subseteq WorkerTypes
  /\ ReporterIdle
  /\ stage[ReportGeneration] = "queued"
  /\ snapshot # "none"
  /\ stage' = [EnsuredStages EXCEPT ![ReportGeneration] = "completed"]
  /\ status' = "terminal"
  /\ result' = CASE snapshot \in {"failed", "inconclusive"} -> snapshot
                 [] snapshot = "decisive" /\ result = "partial" -> result
                 [] OTHER -> "completed"
  /\ UNCHANGED <<cancelAsked, c2Enabled, leaseVars, workerVars>>

\* The rollback also removes an aggregation stage made in the same transaction:
\* then no row is left to mark, and the step changes nothing.
ReportRaises(s) ==
  /\ s \in Reporting \cap WorkerTypes
  /\ ReporterIdle
  /\ stage[s] = "queued"
  /\ failing' = failing \cup {s}
  /\ UNCHANGED <<runVars, stage, leaseVars, snapshot>>

MarkReportFailed(s) ==
  /\ s \in failing \cap Reporting
  /\ failing' = failing \ {s}
  /\ stage' = [stage EXCEPT ![s] = "failed"]
  /\ UNCHANGED <<runVars, leaseVars, snapshot>>

\* Either worker dies after its rollback, before it records the failure.
WorkerCrash(s) ==
  /\ s \in failing
  /\ failing' = failing \ {s}
  /\ UNCHANGED <<runVars, stage, leaseVars, snapshot>>

-----------------------------------------------------------------------------
(* Time *)

LeaseLapses(s, n) ==
  /\ n \in Held(s)
  /\ attempts[s][n].fresh
  /\ attempts' = [attempts EXCEPT ![s][n].fresh = FALSE]
  /\ UNCHANGED <<runVars, stage, backoff, workerVars>>

DeadlinePasses(s, n) ==
  /\ n \in Held(s)
  /\ attempts[s][n].inTime
  /\ attempts' = [attempts EXCEPT ![s][n].inTime = FALSE]
  /\ UNCHANGED <<runVars, stage, backoff, workerVars>>

BackoffElapses(s) ==
  /\ backoff[s]
  /\ backoff' = [backoff EXCEPT ![s] = FALSE]
  /\ UNCHANGED <<runVars, stage, attempts, workerVars>>

-----------------------------------------------------------------------------

ExecutorNext ==
  \E s \in StageType :
    \/ ClaimStage(s)
    \/ \E n \in DOMAIN attempts[s] :
         \/ Heartbeat(s, n)
         \/ \E outcome \in Outcome : CompleteStage(s, n, outcome)
         \/ \E retryable \in BOOLEAN : FailStage(s, n, retryable)
         \/ CancellationAck(s, n)

AdapterNext ==
  \/ \E s \in Adaptation : AdaptBundle(s) \/ AdaptRaises(s) \/ MarkAdaptationFailed(s)
  \/ SettleOrphanedRun

ReporterNext ==
  \/ EnsureAggregation
  \/ \E verdict \in Verdict : AggregateCase(verdict)
  \/ GenerateReport
  \/ \E s \in Reporting : ReportRaises(s) \/ MarkReportFailed(s)

TimeNext ==
  \E s \in StageType :
    \/ BackoffElapses(s)
    \/ \E n \in DOMAIN attempts[s] : LeaseLapses(s, n) \/ DeadlinePasses(s, n)

Next ==
  \/ ConfirmRun
  \/ CancelRun
  \/ SweepLeases
  \/ ExecutorNext
  \/ AdapterNext
  \/ ReporterNext
  \/ \E s \in StageType : WorkerCrash(s)
  \/ TimeNext

Spec == Init /\ [][Next]_vars

\* The scheduler, the two workers and some executor willing to claim keep
\* polling, and time passes.  A worker's poll takes up a queued stage, and either
\* finishes it or raises; the worker is not killed for ever between its rollback
\* and the commit that records the failure.  Nothing makes an executor finish
\* what it leased, a user act, or a lease lapse before its deadline.
Fairness ==
  /\ WF_vars(SweepLeases)
  /\ \A s \in Adaptation :
       WF_vars(AdaptBundle(s) \/ AdaptRaises(s)) /\ SF_vars(MarkAdaptationFailed(s))
  /\ WF_vars(SettleOrphanedRun)
  /\ WF_vars((\E verdict \in Verdict : AggregateCase(verdict)) \/ ReportRaises(CaseAggregation))
  /\ WF_vars(GenerateReport \/ ReportRaises(ReportGeneration))
  /\ \A s \in Reporting : WF_vars(MarkReportFailed(s))
  /\ \A s \in StageType : WF_vars(ClaimStage(s)) /\ WF_vars(BackoffElapses(s))
  /\ \A s \in StageType :
       WF_vars(\E n \in DOMAIN attempts[s] : DeadlinePasses(s, n))

FairSpec == Spec /\ Fairness

-----------------------------------------------------------------------------
(* Correctness *)

\* Every row holds values of its columns' types.
TypeOK ==
  /\ status \in RunStatus
  /\ result \in RunResult
  /\ cancelAsked \in BOOLEAN
  /\ c2Enabled \in BOOLEAN
  /\ stage \in [StageType -> StageState]
  /\ backoff \in [StageType -> BOOLEAN]
  /\ attempts \in [StageType -> Seq(Attempt)]
  /\ failing \in SUBSET StageType
  /\ snapshot \in Verdict \cup {"none"}

\* A stage is leased or running exactly while one unreleased lease exists for
\* it; that lease belongs to its newest attempt, which is in the same state.
\* (validate_lease, claim_stage and expire_leases keep leases and stages in
\* step although each transaction writes only the rows it loaded.)
LeaseDiscipline ==
  \A s \in StageType :
    /\ (Held(s) # {}) <=> (stage[s] \in Active)
    /\ \A n \in Held(s) : n = Len(attempts[s]) /\ attempts[s][n].state = stage[s]

\* No stage is attempted more often than its retry policy allows, over all the
\* ways an attempt can end: failure, lease expiry, deadline, cancellation.
RetryBudget == \A s \in StageType : Len(attempts[s]) <= MaxAttempts[s]

\* A stage served by executors that ended with an outcome owes it to its newest
\* attempt, and no other attempt of any stage ever completed: a late or
\* repeated completion of an earlier attempt is never counted.
OneCompletion ==
  \A s \in StageType :
    /\ \A n \in DOMAIN attempts[s] :
         attempts[s][n].state = "completed" => n = Len(attempts[s]) /\ stage[s] \in Outcome
    /\ s \in ExecutorTypes /\ stage[s] \in Outcome =>
         attempts[s] # <<>> /\ attempts[s][Len(attempts[s])].state = "completed"

\* Why the three invariants above are inductive: the state a stage is in against
\* the rows of its attempts, and what a worker that raised may still overwrite.
JobConsistent(s, state, rows) ==
  /\ \A n \in DOMAIN rows :
       rows[n].released = "no" => n = Len(rows) /\ state \in Active /\ rows[n].state = state
  /\ state \in Active => rows # <<>> /\ rows[Len(rows)].released = "no"
  /\ Len(rows) <= MaxAttempts[s]
  /\ state \in Pending \cup {"absent"} => Len(rows) < MaxAttempts[s]
  /\ s \notin ExecutorTypes => rows = <<>>
  /\ \A n \in DOMAIN rows :
       rows[n].state = "completed" => n = Len(rows) /\ state \in Outcome
  /\ s \in ExecutorTypes /\ state \in Outcome =>
       rows # <<>> /\ rows[Len(rows)].state = "completed"

\* Stages, attempts and leases never disagree, and a queued stage has an attempt
\* left: whatever ends an attempt also decides there and then, from the count of
\* attempts, whether the stage goes back to the queue.  Before confirmation there
\* is nothing to work on.
JobsConsistent ==
  /\ status = "awaiting_confirmation" => \A s \in StageType : stage[s] = "absent"
  /\ \A s \in StageType : JobConsistent(s, stage[s], attempts[s])
  /\ failing \subseteq WorkerTypes
  /\ \A s \in failing : stage[s] \in {"queued", "failed", "cancelled"}

\* A stage exists only after the stages it builds on: the workflow of the
\* README, for runs with and without C2 analysis and for every way a stage is
\* created (advance_workflow and the report worker's own sweep).
StageOrder ==
  /\ stage[C2Analysis] # "absent" => c2Enabled /\ stage[PlatformAnalysis] \in Succeeded
  /\ stage[C2Adaptation] # "absent" => stage[C2Analysis] \in Outcome
  /\ stage[PlatformAdaptation] # "absent" =>
       IF c2Enabled THEN stage[C2Analysis] \in Outcome ELSE stage[PlatformAnalysis] \in Succeeded
  /\ stage[CaseAggregation] # "absent" =>
       IF c2Enabled THEN \A s \in Adaptation : stage[s] = "completed"
                    ELSE stage[PlatformAdaptation] \in Outcome
  /\ stage[ReportGeneration] # "absent" => stage[CaseAggregation] \in Outcome

\* A run that ended as cancelled has no stage waiting, leased or running, and
\* so no executor left at work for it.
CancelledRunIsQuiet ==
  status = "terminal" /\ result = "cancelled" =>
    \A s \in StageType : stage[s] \notin Pending \cup Active

\* A run whose result is "completed" has a finished report, and every stage that
\* was ever created for it has an outcome.
CompletedRunIsDone ==
  result = "completed" =>
    /\ status = "terminal"
    /\ stage[ReportGeneration] \in Outcome
    /\ \A s \in StageType : stage[s] \in Outcome \cup {"absent"}

\* What exists and what a run says of itself follow its stages: the workflow's order,
\* nobody at work for a cancelled run, and a finished report behind a completed one.
RunFollowsStages ==
  /\ StageOrder
  /\ CancelledRunIsQuiet
  /\ CompletedRunIsDone

\* A stage that reached an outcome keeps it, and one that failed or was
\* cancelled is never queued, leased or run again: a stage has one outcome
\* however expiry, retry, cancellation and the workers' error paths interleave.
SettledStaysSettled ==
  [][\A s \in StageType :
       /\ stage[s] \in Outcome => stage'[s] = stage[s]
       /\ stage[s] \in Settled => stage'[s] \in Settled]_vars

\* A run that became terminal stays so: no stage left behind is claimed later
\* and sets the run running again.
TerminalStays == [][status = "terminal" => status' = "terminal"]_vars

\* A stage is not held for ever: if the executor neither reports nor stops, the
\* scheduler ends the attempt, even while heartbeats keep renewing the lease.
LeasesEnd == \A s \in StageType : stage[s] \in Active ~> stage[s] \notin Active

\* The known ways for a run to rest without a result: the report worker raised on
\* one of its stages, or the run is being cancelled and no executor holds a lease
\* that could carry the cancellation out.
Stranded ==
  \/ \E s \in Reporting : stage[s] = "failed" \/ s \in failing
  \/ status = "cancelling" /\ NoneActive(stage)

\* Every run that left intake ends, or rests in one of those ways.
RunEnds == status \in {"queued", "running", "cancelling"} ~> status = "terminal" \/ Stranded

\* No stage and no run waits for ever while the scheduler and the workers keep polling.
RunsProgress == LeasesEnd /\ RunEnds

\* The job that a stage is for whoever works on it.
JobPhase(s) ==
  CASE stage[s] = "absent" -> "idle"
    [] stage[s] \in Pending -> "waiting"
    [] stage[s] \in Active -> "held"
    [] stage[s] \in Outcome -> "done"
    [] OTHER -> "abandoned"

Job(s) == INSTANCE RetryJob
            WITH Budget <- MaxAttempts[s], phase <- JobPhase(s), tries <- Len(attempts[s])

\* Each stage is such a job: through every claim, sweep, retry, cancellation and
\* worker error it has one holder at a time, a bounded number of attempts, and an
\* end that no later transaction undoes.  (For each stage this is Job(s)!Spec.)
StagesAreJobs ==
  /\ \A s \in StageType : Job(s)!Init
  /\ [][\A s \in StageType : Job(s)!Next \/ UNCHANGED Job(s)!jobVars]_vars

-----------------------------------------------------------------------------
(* Said of the code by its documents or comments, and not kept (README) *)

\* The scheduler's command says it "finalize[s] abandoned cancellations".
CancellationEnds == status = "cancelling" ~> status # "cancelling"

\* The report worker, says its documentation, "completes report generation, and
\* makes the run terminal".  When it raises, the run stays as it is.
ReportingEnds == stage[CaseAggregation] = "queued" ~> status = "terminal"

\* Once the user asked for cancellation the run only ever stops.  A claim sets it running.
CancellationSticks == cancelAsked => status \in {"cancelling", "terminal"}

=============================================================================
