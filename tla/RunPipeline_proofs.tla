------------------------- MODULE RunPipeline_proofs -------------------------
(***************************************************************************)
(* Proofs about RunPipeline for every retry policy and every assignment of *)
(* stage types to executors and workers that its assumptions allow.  After *)
(* the types: the stages of a run are retry jobs.  Every step of the       *)
(* pipeline makes each stage take one of a few moves; a move keeps the     *)
(* stage consistent with its attempts, and is a step of the stage's job.   *)
(* The last part is about the order of the stages and the run's result.    *)
(***************************************************************************)
EXTENDS RunPipeline, SequenceTheorems, TLAPS

USE DEF PlatformAnalysis, C2Analysis, PlatformAdaptation, C2Adaptation, CaseAggregation,
        ReportGeneration

-----------------------------------------------------------------------------
(* Sequences of attempts *)

\* Replacing elements of a sequence yields a sequence of the same length.
LEMMA MapSeq ==
  ASSUME NEW S, NEW T, NEW seq \in Seq(S), NEW f \in [DOMAIN seq -> T]
  PROVE  f \in Seq(T) /\ Len(f) = Len(seq)
<1>1. DOMAIN seq = 1 .. Len(seq) /\ Len(seq) \in Nat
  BY LenProperties
<1>2. f \in Seq(T)
  BY <1>1, SeqDef
<1>3. DOMAIN f = 1 .. Len(f) /\ Len(f) \in Nat
  BY <1>2, LenProperties
<1> QED  BY <1>1, <1>2, <1>3

\* The workers' stages are stages, and which results a failure gives.
LEMMA StageTypes ==
  /\ Adaptation \subseteq StageType
  /\ Reporting \subseteq StageType
  /\ \A s \in StageType : FailureResult(s) \in {"failed", "partial", "inconclusive"}
BY DEF StageType, Adaptation, Reporting, FailureResult

\* A released attempt is an attempt.
LEMMA ReleasedType ==
  ASSUME NEW attemptState \in {"leased", "running", "completed", "failed", "cancelled", "expired"},
         NEW reason \in {"no", "completed", "failed", "cancelled", "timeout", "lease_expired"}
  PROVE  Released(attemptState, reason) \in Attempt
BY DEF Released, Attempt

\* So is the attempt that a claim adds.
LEMMA NewAttemptType == NewAttempt \in Attempt
BY DEF NewAttempt, Attempt

\* Changing one attempt of one stage leaves a table of attempts.
LEMMA AttemptChanged ==
  ASSUME TypeOK, NEW s \in StageType, NEW n \in DOMAIN attempts[s], NEW a \in Attempt
  PROVE  [attempts EXCEPT ![s][n] = a] \in [StageType -> Seq(Attempt)]
<1>1. attempts[s] \in Seq(Attempt) /\ n \in 1 .. Len(attempts[s])
  BY LenProperties DEF TypeOK
<1>2. [attempts[s] EXCEPT ![n] = a] \in Seq(Attempt)
  BY <1>1, ExceptSeq
<1> QED  BY <1>2 DEF TypeOK

-----------------------------------------------------------------------------
(* Type correctness *)

\* Withdrawing the pending stages gives stage states.
LEMMA CancelPendingType ==
  ASSUME NEW states \in [StageType -> StageState]
  PROVE  CancelPending(states) \in [StageType -> StageState]
BY DEF CancelPending, StageState, Settled

\* So does the expiry of the leases in due.
LEMMA HitStagesType ==
  ASSUME TypeOK, NEW due
  PROVE  HitStages(due) \in [StageType -> StageState]
<1>1. \A s \in StageType : HitState(s) \in StageState
  BY DEF HitState, StageState, Settled, Pending
<1> QED  BY <1>1 DEF HitStages, TypeOK

\* What a sweep writes has the columns' types.
LEMMA ExpireTypes ==
  ASSUME TypeOK, NEW due
  PROVE  /\ ExpiredAttempts(due) \in [StageType -> Seq(Attempt)]
         /\ \A s \in StageType : Len(ExpiredAttempts(due)[s]) = Len(attempts[s])
         /\ ExpiredStages(due) \in [StageType -> StageState]
         /\ ExpiredBackoff(due) \in [StageType -> BOOLEAN]
         /\ ExpiredStatus(due) \in RunStatus
         /\ ExpiredResults(due) \subseteq RunResult
<1>1. ASSUME NEW s \in StageType
      PROVE  ExpiredAttempts(due)[s] \in Seq(Attempt)
               /\ Len(ExpiredAttempts(due)[s]) = Len(attempts[s])
  <2> DEFINE e == [n \in DOMAIN attempts[s] |->
                     IF n \in due[s] THEN ExpiredAttempt(attempts[s][n]) ELSE attempts[s][n]]
  <2>1. attempts[s] \in Seq(Attempt)
    BY DEF TypeOK
  <2>2. \A n \in DOMAIN attempts[s] : attempts[s][n] \in Attempt
    BY <2>1, LenProperties, ElementOfSeq
  <2>3. \A a \in Attempt : ExpiredAttempt(a) \in Attempt
    BY ReleasedType DEF ExpiredAttempt
  <2>4. e \in [DOMAIN attempts[s] -> Attempt]
    BY <2>2, <2>3
  <2>5. e \in Seq(Attempt) /\ Len(e) = Len(attempts[s])
    BY <2>1, <2>4, MapSeq
  <2> QED  BY <2>5 DEF ExpiredAttempts
<1>2. ExpiredAttempts(due) \in [StageType -> Seq(Attempt)]
  BY <1>1 DEF ExpiredAttempts
<1>3. ExpiredStages(due) \in [StageType -> StageState]
  BY HitStagesType, CancelPendingType DEF ExpiredStages
<1>4. ExpiredBackoff(due) \in [StageType -> BOOLEAN]
  BY DEF ExpiredBackoff, TypeOK
<1>5. ExpiredStatus(due) \in RunStatus
  BY DEF ExpiredStatus, TypeOK, RunStatus
<1>6. ExpiredResults(due) \subseteq RunResult
  <2>1. \A s \in Exhausted(due) : FailureResult(s) \in RunResult
    BY StageTypes DEF Exhausted, Hit, RunResult
  <2>2. result \in RunResult /\ "cancelled" \in RunResult
    BY DEF TypeOK, RunResult
  <2> QED  BY <2>1, <2>2 DEF ExpiredResults
<1> QED  BY <1>1, <1>2, <1>3, <1>4, <1>5, <1>6

\* Intake writes values of the columns' types.
LEMMA InitTypeOK == Init => TypeOK
<1> SUFFICES ASSUME Init PROVE TypeOK
  OBVIOUS
<1>1. attempts \in [StageType -> Seq(Attempt)]
  BY EmptySeq DEF Init
<1>2. stage \in [StageType -> StageState]
  BY DEF Init, StageState, Pending
<1> QED  BY <1>1, <1>2 DEF Init, TypeOK, RunStatus, RunResult

\* The stages that a completion adds are queued.
LEMMA CreateStagesType ==
  ASSUME NEW states \in [StageType -> StageState], NEW types
  PROVE  CreateStages(types, states) \in [StageType -> StageState]
BY DEF CreateStages, StageState, Pending

\* The sweep of leases, alone or within a claim or a heartbeat.
LEMMA ExpireTypeOK ==
  ASSUME TypeOK, NEW due, Expire(due)
  PROVE  TypeOK'
<1>1. attempts' \in [StageType -> Seq(Attempt)]
  BY ExpireTypes DEF Expire
<1>2. stage' \in [StageType -> StageState] /\ backoff' \in [StageType -> BOOLEAN]
  BY ExpireTypes DEF Expire
<1>3. status' \in RunStatus /\ result' \in RunResult
  BY ExpireTypes DEF Expire
<1> QED  BY <1>1, <1>2, <1>3 DEF Expire, TypeOK, workerVars

\* What executors do keeps the types.
LEMMA ExecutorTypeOK ==
  ASSUME TypeOK, ExecutorNext
  PROVE  TypeOK'
<1> PICK s \in StageType :
      \/ ClaimStage(s)
      \/ \E n \in DOMAIN attempts[s] :
           \/ Heartbeat(s, n)
           \/ \E outcome \in Outcome : CompleteStage(s, n, outcome)
           \/ \E retryable \in BOOLEAN : FailStage(s, n, retryable)
           \/ CancellationAck(s, n)
  BY DEF ExecutorNext
<1>1. CASE ClaimStage(s)
  <2>1. Append(ExpiredAttempts(Overdue)[s], NewAttempt) \in Seq(Attempt)
    BY ExpireTypes, NewAttemptType, AppendProperties
  <2>2. attempts' \in [StageType -> Seq(Attempt)]
    BY <1>1, <2>1, ExpireTypes DEF ClaimStage
  <2>3. stage' \in [StageType -> StageState] /\ backoff' \in [StageType -> BOOLEAN]
    BY <1>1, ExpireTypes DEF ClaimStage, StageState, Active
  <2>4. status' \in RunStatus /\ result' \in RunResult
    BY <1>1, ExpireTypes DEF ClaimStage, RunStatus
  <2> QED  BY <1>1, <2>2, <2>3, <2>4 DEF ClaimStage, TypeOK, workerVars
<1>2. ASSUME NEW n \in DOMAIN attempts[s], Heartbeat(s, n)
      PROVE  TypeOK'
  <2>1. CASE Expire(Only(s, n))
    BY <2>1, ExpireTypeOK
  <2>2. CASE /\ stage' = [stage EXCEPT ![s] = "running"]
             /\ attempts' = [attempts EXCEPT ![s][n].state = "running"]
             /\ UNCHANGED <<runVars, backoff, workerVars>>
    <3>1. attempts[s][n] \in Attempt
      BY LenProperties, ElementOfSeq DEF TypeOK
    <3>2. [attempts[s][n] EXCEPT !.state = "running"] \in Attempt
      BY <3>1 DEF Attempt
    <3>3. attempts' = [attempts EXCEPT ![s][n] = [attempts[s][n] EXCEPT !.state = "running"]]
      BY <2>2
    <3>4. attempts' \in [StageType -> Seq(Attempt)]
      BY <3>2, <3>3, AttemptChanged
    <3>5. stage' \in [StageType -> StageState]
      BY <2>2 DEF TypeOK, StageState, Active
    <3> QED  BY <2>2, <3>4, <3>5 DEF TypeOK, runVars, workerVars
  <2> QED  BY <1>2, <2>1, <2>2 DEF Heartbeat
<1>3. ASSUME NEW n \in DOMAIN attempts[s], NEW outcome \in Outcome, CompleteStage(s, n, outcome)
      PROVE  TypeOK'
  <2> DEFINE own == [stage EXCEPT ![s] = outcome]
  <2>1. attempts' \in [StageType -> Seq(Attempt)]
    BY <1>3, ReleasedType, AttemptChanged DEF CompleteStage
  <2>2. own \in [StageType -> StageState]
    BY DEF TypeOK, StageState, Settled
  <2>3. stage' \in [StageType -> StageState]
    BY <1>3, <2>2, CreateStagesType DEF CompleteStage
  <2>4. status' \in RunStatus /\ result' \in RunResult
    BY <1>3 DEF CompleteStage, TypeOK, RunStatus, RunResult
  <2> QED  BY <1>3, <2>1, <2>3, <2>4 DEF CompleteStage, TypeOK, workerVars
<1>4. ASSUME NEW n \in DOMAIN attempts[s], NEW retryable \in BOOLEAN, FailStage(s, n, retryable)
      PROVE  TypeOK'
  <2>1. attempts' \in [StageType -> Seq(Attempt)]
    BY <1>4, ReleasedType, AttemptChanged DEF FailStage
  <2>2. stage' \in [StageType -> StageState] /\ backoff' \in [StageType -> BOOLEAN]
    BY <1>4 DEF FailStage, TypeOK, StageState, Settled, Pending
  <2>3. status' \in RunStatus /\ result' \in RunResult
    BY <1>4, StageTypes DEF FailStage, TypeOK, RunStatus, RunResult
  <2> QED  BY <1>4, <2>1, <2>2, <2>3 DEF FailStage, TypeOK, workerVars
<1>5. ASSUME NEW n \in DOMAIN attempts[s], CancellationAck(s, n)
      PROVE  TypeOK'
  <2>1. attempts' \in [StageType -> Seq(Attempt)]
    BY <1>5, ReleasedType, AttemptChanged DEF CancellationAck
  <2>2. [stage EXCEPT ![s] = "cancelled"] \in [StageType -> StageState]
    BY DEF TypeOK, StageState, Settled
  <2>3. stage' \in [StageType -> StageState]
    BY <1>5, <2>2, CancelPendingType DEF CancellationAck
  <2>4. status' \in RunStatus /\ result' \in RunResult
    BY <1>5 DEF CancellationAck, TypeOK, RunStatus, RunResult
  <2> QED  BY <1>5, <2>1, <2>3, <2>4 DEF CancellationAck, TypeOK, workerVars
<1> QED  BY <1>1, <1>2, <1>3, <1>4, <1>5

\* What the workers do keeps the types.
LEMMA WorkerTypeOK ==
  ASSUME TypeOK, AdapterNext \/ ReporterNext \/ (\E s \in StageType : WorkerCrash(s))
  PROVE  TypeOK'
<1> USE StageTypes DEF TypeOK, runVars, leaseVars, workerVars
<1>1. ASSUME NEW s \in Adaptation, AdaptBundle(s) \/ AdaptRaises(s)
      PROVE  TypeOK'
  BY <1>1 DEF AdaptBundle, AdaptRaises, StageState, Settled, Outcome, Succeeded
<1>2. ASSUME NEW s \in Adaptation, MarkAdaptationFailed(s)
      PROVE  TypeOK'
  BY <1>2 DEF MarkAdaptationFailed, StageState, Settled, RunStatus, RunResult
<1>3. CASE SettleOrphanedRun
  BY <1>3 DEF SettleOrphanedRun, RunStatus, RunResult
<1>4. EnsuredStages \in [StageType -> StageState]
  BY DEF EnsuredStages, StageState, Pending
<1>5. CASE EnsureAggregation
  BY <1>4, <1>5 DEF EnsureAggregation
<1>6. ASSUME NEW verdict \in Verdict, AggregateCase(verdict)
      PROVE  TypeOK'
  BY <1>4, <1>6 DEF AggregateCase, StageState, Settled, Outcome, Succeeded, Pending
<1>7. CASE GenerateReport
  <2>1. stage' \in [StageType -> StageState]
    BY <1>4, <1>7 DEF GenerateReport, StageState, Settled, Outcome, Succeeded
  <2>2. status' \in RunStatus /\ result' \in RunResult
    BY <1>7 DEF GenerateReport, RunStatus, RunResult, Verdict
  <2> QED  BY <1>7, <2>1, <2>2 DEF GenerateReport
<1>8. ASSUME NEW s \in StageType, ReportRaises(s) \/ MarkReportFailed(s) \/ WorkerCrash(s)
      PROVE  TypeOK'
  BY <1>8 DEF ReportRaises, MarkReportFailed, WorkerCrash, StageState, Settled
<1> QED  BY <1>1, <1>2, <1>3, <1>5, <1>6, <1>7, <1>8 DEF AdapterNext, ReporterNext

\* The passing of time keeps the types.
LEMMA TimeTypeOK ==
  ASSUME TypeOK, TimeNext
  PROVE  TypeOK'
<1> PICK s \in StageType :
      \/ BackoffElapses(s)
      \/ \E n \in DOMAIN attempts[s] : LeaseLapses(s, n) \/ DeadlinePasses(s, n)
  BY DEF TimeNext
<1>1. CASE BackoffElapses(s)
  BY <1>1 DEF BackoffElapses, TypeOK, runVars, workerVars
<1>2. ASSUME NEW n \in DOMAIN attempts[s], LeaseLapses(s, n) \/ DeadlinePasses(s, n)
      PROVE  TypeOK'
  <2>1. attempts[s][n] \in Attempt
    BY LenProperties, ElementOfSeq DEF TypeOK
  <2>2. /\ [attempts[s][n] EXCEPT !.fresh = FALSE] \in Attempt
        /\ [attempts[s][n] EXCEPT !.inTime = FALSE] \in Attempt
    BY <2>1 DEF Attempt
  <2>3. \/ attempts' = [attempts EXCEPT ![s][n] = [attempts[s][n] EXCEPT !.fresh = FALSE]]
        \/ attempts' = [attempts EXCEPT ![s][n] = [attempts[s][n] EXCEPT !.inTime = FALSE]]
    BY <1>2 DEF LeaseLapses, DeadlinePasses
  <2>4. attempts' \in [StageType -> Seq(Attempt)]
    <3>1. \A a \in Attempt : [attempts EXCEPT ![s][n] = a] \in [StageType -> Seq(Attempt)]
      BY AttemptChanged
    <3> QED  BY <2>2, <2>3, <3>1
  <2> QED  BY <1>2, <2>4 DEF LeaseLapses, DeadlinePasses, TypeOK, runVars, workerVars
<1> QED  BY <1>1, <1>2

\* Every step keeps the types of the tables.
LEMMA NextTypeOK == TypeOK /\ [Next]_vars => TypeOK'
<1> SUFFICES ASSUME TypeOK, [Next]_vars PROVE TypeOK'
  OBVIOUS
<1>1. CASE ConfirmRun
  BY <1>1 DEF ConfirmRun, TypeOK, RunStatus, StageState, Pending, leaseVars, workerVars
<1>2. CASE CancelRun
  BY <1>2, CancelPendingType
     DEF CancelRun, TypeOK, RunStatus, RunResult, leaseVars, workerVars
<1>3. CASE SweepLeases
  BY <1>3, ExpireTypeOK DEF SweepLeases
<1>4. CASE ExecutorNext
  BY <1>4, ExecutorTypeOK
<1>5. CASE AdapterNext \/ ReporterNext \/ (\E s \in StageType : WorkerCrash(s))
  BY <1>5, WorkerTypeOK
<1>6. CASE TimeNext
  BY <1>6, TimeTypeOK
<1>7. CASE UNCHANGED vars
  BY <1>7 DEF TypeOK, vars, runVars, leaseVars, workerVars
<1> QED  BY <1>1, <1>2, <1>3, <1>4, <1>5, <1>6, <1>7 DEF Next

\* The rows of a run always hold values of their columns' types, whatever the
\* retry policy and whoever serves its stages.
THEOREM TypeCorrect == Spec => []TypeOK
BY InitTypeOK, NextTypeOK, PTL DEF Spec

HIDE DEF PlatformAnalysis, C2Analysis, PlatformAdaptation, C2Adaptation, CaseAggregation,
         ReportGeneration


-----------------------------------------------------------------------------
(* The moves of one stage *)

\* Nothing happens to the stage.
Stays(s) ==
  /\ stage'[s] = stage[s]
  /\ attempts'[s] = attempts[s]

\* The row is created.
Created(s) ==
  /\ stage[s] = "absent"
  /\ stage'[s] = "queued"
  /\ attempts'[s] = attempts[s]

\* A cancelled run takes the stage from the queue.
Withdrawn(s) ==
  /\ stage[s] \in Pending
  /\ stage'[s] = "cancelled"
  /\ attempts'[s] = attempts[s]

Leased(s) ==
  /\ s \in ExecutorTypes
  /\ stage[s] = "queued"
  /\ stage'[s] = "leased"
  /\ attempts'[s] = Append(attempts[s], NewAttempt)

\* A claim ends the lease that ran out and leases the stage anew.
LeasedAgain(s) ==
  /\ s \in ExecutorTypes
  /\ CanRetry(s)
  /\ stage'[s] = "leased"
  /\ \E n \in Held(s), a \in Attempt :
       /\ a.released # "no" /\ a.state # "completed"
       /\ attempts'[s] = Append([attempts[s] EXCEPT ![n] = a], NewAttempt)

\* The holder's attempt becomes another attempt that is held.
Holds(s) ==
  \E n \in Held(s), a \in Attempt :
    /\ a.released = "no"
    /\ attempts'[s] = [attempts[s] EXCEPT ![n] = a]
    /\ \/ stage'[s] = "running" /\ a.state = "running"
       \/ stage'[s] = stage[s] /\ a.state = attempts[s][n].state

\* The holder's attempt ends without an outcome.
Ends(s) ==
  \E n \in Held(s), a \in Attempt :
    /\ a.released # "no" /\ a.state # "completed"
    /\ attempts'[s] = [attempts[s] EXCEPT ![n] = a]
    /\ stage'[s] \in {"failed", "cancelled"} \/ (stage'[s] = "queued" /\ CanRetry(s))

Completes(s) ==
  \E n \in Held(s), a \in Attempt :
    /\ a.released # "no" /\ a.state = "completed"
    /\ attempts'[s] = [attempts[s] EXCEPT ![n] = a]
    /\ stage'[s] \in Outcome

\* A worker finishes the stage, or records that it could not.
Served(s) ==
  /\ s \in WorkerTypes
  /\ stage[s] \in {"absent", "queued"}
  /\ stage'[s] = "completed"
  /\ attempts'[s] = attempts[s]

ServeFailed(s) ==
  /\ s \in WorkerTypes
  /\ stage[s] \in {"queued", "failed", "cancelled"}
  /\ stage'[s] = "failed"
  /\ attempts'[s] = attempts[s]

Move(s) ==
  \/ Stays(s) \/ Created(s) \/ Withdrawn(s)
  \/ Leased(s) \/ LeasedAgain(s) \/ Holds(s) \/ Ends(s) \/ Completes(s)
  \/ Served(s) \/ ServeFailed(s)

-----------------------------------------------------------------------------
(* Every step makes every stage move *)

\* What JobsConsistent says of a lease that is held.
LEMMA HeldFacts ==
  ASSUME TypeOK, JobsConsistent, NEW s \in StageType, NEW n \in Held(s)
  PROVE  /\ attempts[s] \in Seq(Attempt)
         /\ n = Len(attempts[s]) /\ n \in DOMAIN attempts[s]
         /\ attempts[s][n] \in Attempt
         /\ attempts[s][n].released = "no" /\ attempts[s][n].state = stage[s]
         /\ stage[s] \in Active
         /\ s \in ExecutorTypes /\ s \notin WorkerTypes
<1>1. attempts[s] \in Seq(Attempt) /\ n \in DOMAIN attempts[s] /\ attempts[s][n].released = "no"
  BY DEF TypeOK, Held
<1>2. attempts[s][n] \in Attempt
  BY <1>1, LenProperties, ElementOfSeq
<1>3. JobConsistent(s, stage[s], attempts[s])
  BY DEF JobsConsistent
<1>4. n = Len(attempts[s]) /\ stage[s] \in Active /\ attempts[s][n].state = stage[s]
  BY <1>1, <1>3 DEF JobConsistent
<1>5. s \in ExecutorTypes
  BY <1>1, <1>3, EmptySeq DEF JobConsistent
<1>6. s \notin WorkerTypes
  BY <1>5, ServedAssumption
<1> QED  BY <1>1, <1>2, <1>4, <1>5, <1>6

\* A sweep leaves a stage alone, withdraws it, or ends its holder's attempt.
LEMMA ExpireMoves ==
  ASSUME TypeOK, JobsConsistent, NEW due,
         \A t \in StageType : due[t] \subseteq Held(t),
         NEW s \in StageType
  PROVE  \/ /\ ExpiredAttempts(due)[s] = attempts[s]
            /\ \/ ExpiredStages(due)[s] = stage[s]
               \/ stage[s] \in Pending /\ ExpiredStages(due)[s] = "cancelled"
         \/ \E n \in Held(s), a \in Attempt :
              /\ a.released # "no" /\ a.state # "completed"
              /\ ExpiredAttempts(due)[s] = [attempts[s] EXCEPT ![n] = a]
              /\ \/ ExpiredStages(due)[s] \in {"failed", "cancelled"}
                 \/ ExpiredStages(due)[s] = "queued" /\ CanRetry(s)
<1>1. attempts[s] \in Seq(Attempt)
  BY DEF TypeOK
<1>2. attempts[s] \in [1 .. Len(attempts[s]) -> Attempt] /\ DOMAIN attempts[s] = 1 .. Len(attempts[s])
  BY <1>1, LenProperties
<1>3. ExpiredAttempts(due)[s] =
        [n \in DOMAIN attempts[s] |->
          IF n \in due[s] THEN ExpiredAttempt(attempts[s][n]) ELSE attempts[s][n]]
  BY DEF ExpiredAttempts
<1>4. ExpiredStages(due)[s] = HitStages(due)[s]
        \/ (HitStages(due)[s] \in Pending /\ ExpiredStages(due)[s] = "cancelled")
  BY DEF ExpiredStages, CancelPending
<1>5. CASE due[s] = {}
  <2>1. ExpiredAttempts(due)[s] = attempts[s]
    BY <1>2, <1>3, <1>5
  <2>2. HitStages(due)[s] = stage[s]
    BY <1>5 DEF HitStages, Hit
  <2> QED  BY <1>4, <2>1, <2>2
<1>6. CASE due[s] # {}
  <2> PICK n \in due[s] : TRUE
    BY <1>6
  <2>1. n \in Held(s) /\ \A m \in due[s] : m = n
    BY HeldFacts
  <2> DEFINE a == ExpiredAttempt(attempts[s][n])
  <2>2. a \in Attempt /\ a.released # "no" /\ a.state # "completed"
    BY ReleasedType DEF ExpiredAttempt, Released
  <2>3. ExpiredAttempts(due)[s] = [attempts[s] EXCEPT ![n] = a]
    BY <1>2, <1>3, <2>1
  <2>4. HitStages(due)[s] = HitState(s)
    BY <1>6 DEF HitStages, Hit
  <2>5. HitState(s) \in {"failed", "cancelled"} \/ (HitState(s) = "queued" /\ CanRetry(s))
    BY DEF HitState
  <2> HIDE DEF a
  <2> QED  BY <1>4, <2>1, <2>2, <2>3, <2>4, <2>5
<1> QED  BY <1>5, <1>6

\* A sweep ends only leases that are held.
LEMMA OverdueHeld == \A s \in StageType : Overdue[s] \subseteq Held(s)
BY DEF Overdue

\* ExpireMoves for the sweep that every claim and every scheduler poll makes.
LEMMA OverdueMoves ==
  ASSUME TypeOK, JobsConsistent, NEW s \in StageType
  PROVE  \/ /\ ExpiredAttempts(Overdue)[s] = attempts[s]
            /\ \/ ExpiredStages(Overdue)[s] = stage[s]
               \/ stage[s] \in Pending /\ ExpiredStages(Overdue)[s] = "cancelled"
         \/ \E n \in Held(s), a \in Attempt :
              /\ a.released # "no" /\ a.state # "completed"
              /\ ExpiredAttempts(Overdue)[s] = [attempts[s] EXCEPT ![n] = a]
              /\ \/ ExpiredStages(Overdue)[s] \in {"failed", "cancelled"}
                 \/ ExpiredStages(Overdue)[s] = "queued" /\ CanRetry(s)
<1> DEFINE due == Overdue
<1>1. \A t \in StageType : due[t] \subseteq Held(t)
  BY OverdueHeld
<1> HIDE DEF due
<1>2. \/ /\ ExpiredAttempts(due)[s] = attempts[s]
         /\ \/ ExpiredStages(due)[s] = stage[s]
            \/ stage[s] \in Pending /\ ExpiredStages(due)[s] = "cancelled"
      \/ \E n \in Held(s), a \in Attempt :
           /\ a.released # "no" /\ a.state # "completed"
           /\ ExpiredAttempts(due)[s] = [attempts[s] EXCEPT ![n] = a]
           /\ \/ ExpiredStages(due)[s] \in {"failed", "cancelled"}
              \/ ExpiredStages(due)[s] = "queued" /\ CanRetry(s)
  BY <1>1, ExpireMoves
<1> QED  BY <1>2 DEF due

\* A sweep makes every stage move.
LEMMA ExpireStep ==
  ASSUME TypeOK, JobsConsistent, NEW due,
         \A t \in StageType : due[t] \subseteq Held(t),
         Expire(due), NEW s \in StageType
  PROVE  Move(s)
<1>1. stage'[s] = ExpiredStages(due)[s] /\ attempts'[s] = ExpiredAttempts(due)[s]
  BY DEF Expire
<1> QED  BY <1>1, ExpireMoves DEF Move, Stays, Withdrawn, Ends

\* A claim makes every stage move: the leased one, and those its sweep touches.
LEMMA ClaimStep ==
  ASSUME TypeOK, JobsConsistent, NEW s \in StageType, ClaimStage(s), NEW t \in StageType
  PROVE  Move(t)
<1>1. CASE t # s
  <2>1. stage'[t] = ExpiredStages(Overdue)[t] /\ attempts'[t] = ExpiredAttempts(Overdue)[t]
    BY <1>1, ExpireTypes DEF ClaimStage
  <2> QED  BY <2>1, OverdueMoves DEF Move, Stays, Withdrawn, Ends
<1>2. CASE t = s
  <2>1. /\ s \in ExecutorTypes
        /\ ExpiredStages(Overdue)[s] = "queued"
        /\ stage'[s] = "leased"
        /\ attempts'[s] = Append(ExpiredAttempts(Overdue)[s], NewAttempt)
    BY ExpireTypes DEF ClaimStage
  <2>2. CASE ExpiredAttempts(Overdue)[s] = attempts[s] /\ stage[s] = "queued"
    BY <1>2, <2>1, <2>2 DEF Move, Leased
  <2>3. ASSUME NEW n \in Held(s), NEW a \in Attempt,
               a.released # "no", a.state # "completed", CanRetry(s),
               ExpiredAttempts(Overdue)[s] = [attempts[s] EXCEPT ![n] = a]
        PROVE  Move(t)
    <3>1. LeasedAgain(s)
      BY <2>1, <2>3 DEF LeasedAgain
    <3> QED  BY <1>2, <3>1 DEF Move
  <2> QED  BY <2>1, <2>2, <2>3, OverdueMoves
<1> QED  BY <1>1, <1>2

\* What the holder of a lease does makes its stage move, and no other attempts.
LEMMA HolderStep ==
  ASSUME TypeOK, JobsConsistent, NEW s \in StageType, NEW n \in DOMAIN attempts[s],
         \/ Heartbeat(s, n)
         \/ \E outcome \in Outcome : CompleteStage(s, n, outcome)
         \/ \E retryable \in BOOLEAN : FailStage(s, n, retryable)
         \/ CancellationAck(s, n),
         NEW t \in StageType
  PROVE  Move(t)
<1>1. n \in Held(s)
  BY DEF Heartbeat, CompleteStage, FailStage, CancellationAck, LeaseValid
<1>2. /\ attempts[s] \in Seq(Attempt)
      /\ attempts[s][n] \in Attempt
      /\ attempts[s][n].released = "no"
  BY <1>1, HeldFacts
<1>3. \A a \in Attempt :
        /\ [attempts EXCEPT ![s][n] = a][s] = [attempts[s] EXCEPT ![n] = a]
        /\ t # s => [attempts EXCEPT ![s][n] = a][t] = attempts[t]
  BY DEF TypeOK
<1>4. CASE Heartbeat(s, n)
  <2>1. CASE Expire(Only(s, n))
    BY <1>1, <2>1, ExpireStep DEF Only
  <2>2. CASE /\ stage' = [stage EXCEPT ![s] = "running"]
             /\ attempts' = [attempts EXCEPT ![s][n].state = "running"]
    <3> DEFINE a == [attempts[s][n] EXCEPT !.state = "running"]
    <3>1. a \in Attempt /\ a.released = "no" /\ a.state = "running"
      BY <1>2 DEF Attempt
    <3>2. attempts' = [attempts EXCEPT ![s][n] = a]
      BY <2>2
    <3> HIDE DEF a
    <3>3. attempts'[s] = [attempts[s] EXCEPT ![n] = a] /\ stage'[s] = "running"
      BY <1>3, <2>2, <3>1, <3>2 DEF TypeOK
    <3>4. Holds(s)
      BY <1>1, <3>1, <3>3 DEF Holds
    <3>5. t # s => Stays(t)
      BY <1>3, <2>2, <3>1, <3>2 DEF Stays, TypeOK
    <3> QED  BY <3>4, <3>5 DEF Move
  <2> QED  BY <1>4, <2>1, <2>2 DEF Heartbeat
<1>5. ASSUME NEW outcome \in Outcome, CompleteStage(s, n, outcome)
      PROVE  Move(t)
  <2> DEFINE a == Released("completed", "completed")
             own == [stage EXCEPT ![s] = outcome]
  <2>1. a \in Attempt /\ a.released # "no" /\ a.state = "completed"
    BY ReleasedType DEF Released
  <2>2. attempts' = [attempts EXCEPT ![s][n] = a]
    BY <1>5 DEF CompleteStage
  <2>3. stage' = own \/ stage' = CreateStages(NextStages(s, own), own)
    BY <1>5 DEF CompleteStage
  <2>4. own[s] = outcome /\ outcome # "absent" /\ (t # s => own[t] = stage[t])
    BY DEF TypeOK, Outcome, Succeeded
  <2> HIDE DEF a, own
  <2>5. attempts'[s] = [attempts[s] EXCEPT ![n] = a] /\ stage'[s] \in Outcome
    BY <1>3, <2>1, <2>2, <2>3, <2>4 DEF CreateStages
  <2>6. Completes(s)
    BY <1>1, <2>1, <2>5 DEF Completes
  <2>7. t # s => Stays(t) \/ Created(t)
    BY <1>3, <2>1, <2>2, <2>3, <2>4 DEF Stays, Created, CreateStages
  <2> QED  BY <2>6, <2>7 DEF Move
<1>6. ASSUME NEW retryable \in BOOLEAN, FailStage(s, n, retryable)
      PROVE  Move(t)
  <2> DEFINE a == Released("failed", "failed")
  <2>1. a \in Attempt /\ a.released # "no" /\ a.state # "completed"
    BY ReleasedType DEF Released
  <2>2. attempts' = [attempts EXCEPT ![s][n] = a]
    BY <1>6 DEF FailStage
  <2>3. \/ CanRetry(s) /\ stage' = [stage EXCEPT ![s] = "queued"]
        \/ stage' = [stage EXCEPT ![s] = "failed"]
    BY <1>6 DEF FailStage
  <2> HIDE DEF a
  <2>4. /\ attempts'[s] = [attempts[s] EXCEPT ![n] = a]
        /\ stage'[s] = "failed" \/ (stage'[s] = "queued" /\ CanRetry(s))
    BY <1>3, <2>1, <2>2, <2>3 DEF TypeOK
  <2>5. Ends(s)
    BY <1>1, <2>1, <2>4 DEF Ends
  <2>6. t # s => Stays(t)
    BY <1>3, <2>1, <2>2, <2>3 DEF Stays, TypeOK
  <2> QED  BY <2>5, <2>6 DEF Move
<1>7. CASE CancellationAck(s, n)
  <2> DEFINE a == Released("cancelled", "cancelled")
             own == [stage EXCEPT ![s] = "cancelled"]
  <2>1. a \in Attempt /\ a.released # "no" /\ a.state # "completed"
    BY ReleasedType DEF Released
  <2>2. attempts' = [attempts EXCEPT ![s][n] = a]
    BY <1>7 DEF CancellationAck
  <2>3. stage' = own \/ stage' = CancelPending(own)
    BY <1>7 DEF CancellationAck
  <2>4. own[s] = "cancelled" /\ (t # s => own[t] = stage[t])
    BY DEF TypeOK
  <2> HIDE DEF a, own
  <2>5. attempts'[s] = [attempts[s] EXCEPT ![n] = a] /\ stage'[s] = "cancelled"
    BY <1>3, <2>1, <2>2, <2>3, <2>4 DEF CancelPending
  <2>6. Ends(s)
    BY <1>1, <2>1, <2>5 DEF Ends
  <2>7. t # s => Stays(t) \/ Withdrawn(t)
    BY <1>3, <2>1, <2>2, <2>3, <2>4 DEF Stays, Withdrawn, CancelPending
  <2> QED  BY <2>6, <2>7 DEF Move
<1> QED  BY <1>4, <1>5, <1>6, <1>7

\* A step of the adapter or report worker makes every stage move.
LEMMA WorkerStep ==
  ASSUME TypeOK, JobsConsistent,
         AdapterNext \/ ReporterNext \/ (\E s \in StageType : WorkerCrash(s)),
         NEW t \in StageType
  PROVE  Move(t)
<1> USE StageTypes DEF TypeOK, leaseVars, Move
<1>1. ASSUME NEW s \in Adaptation, AdaptBundle(s)
      PROVE  Move(t)
  BY <1>1 DEF AdaptBundle, Stays, Served
<1>2. ASSUME NEW s \in Adaptation, AdaptRaises(s)
      PROVE  Move(t)
  BY <1>2 DEF AdaptRaises, Stays, ServeFailed
<1>3. ASSUME NEW s \in StageType, MarkAdaptationFailed(s) \/ MarkReportFailed(s)
      PROVE  Move(t)
  BY <1>3 DEF MarkAdaptationFailed, MarkReportFailed, Stays, ServeFailed, JobsConsistent
<1>4. CASE SettleOrphanedRun
  BY <1>4 DEF SettleOrphanedRun, Stays
<1>5. /\ EnsuredStages \in [StageType -> StageState]
      /\ \A s \in StageType : \/ EnsuredStages[s] = stage[s]
                              \/ stage[s] = "absent" /\ EnsuredStages[s] = "queued"
  BY DEF EnsuredStages, AggregationDue, StageState, Pending
<1>6. CASE EnsureAggregation
  BY <1>5, <1>6 DEF EnsureAggregation, Stays, Created
<1>7. ASSUME NEW verdict \in Verdict, AggregateCase(verdict)
      PROVE  Move(t)
  BY <1>5, <1>7 DEF AggregateCase, Reporting, Stays, Created, Served
<1>8. CASE GenerateReport
  BY <1>5, <1>8 DEF GenerateReport, Reporting, Stays, Created, Served
<1>9. ASSUME NEW s \in StageType, ReportRaises(s) \/ WorkerCrash(s)
      PROVE  Move(t)
  BY <1>9 DEF ReportRaises, WorkerCrash, Stays
<1> QED  BY <1>1, <1>2, <1>3, <1>4, <1>6, <1>7, <1>8, <1>9 DEF AdapterNext, ReporterNext

\* Time changes no stage, and only the clocks of held attempts.
LEMMA TimeStep ==
  ASSUME TypeOK, JobsConsistent, TimeNext, NEW t \in StageType
  PROVE  Move(t)
<1> PICK s \in StageType :
      \/ BackoffElapses(s)
      \/ \E n \in DOMAIN attempts[s] : LeaseLapses(s, n) \/ DeadlinePasses(s, n)
  BY DEF TimeNext
<1>1. CASE BackoffElapses(s)
  BY <1>1 DEF BackoffElapses, Move, Stays
<1>2. ASSUME NEW n \in DOMAIN attempts[s], LeaseLapses(s, n) \/ DeadlinePasses(s, n)
      PROVE  Move(t)
  <2>1. n \in Held(s) /\ stage' = stage
    BY <1>2 DEF LeaseLapses, DeadlinePasses
  <2>2. attempts[s][n] \in Attempt /\ attempts[s][n].released = "no"
    BY <2>1, HeldFacts
  <2>3. PICK a \in Attempt :
          /\ a.released = "no" /\ a.state = attempts[s][n].state
          /\ attempts' = [attempts EXCEPT ![s][n] = a]
    <3>1. /\ [attempts[s][n] EXCEPT !.fresh = FALSE] \in Attempt
          /\ [attempts[s][n] EXCEPT !.inTime = FALSE] \in Attempt
          /\ [attempts[s][n] EXCEPT !.fresh = FALSE].released = "no"
          /\ [attempts[s][n] EXCEPT !.inTime = FALSE].released = "no"
          /\ [attempts[s][n] EXCEPT !.fresh = FALSE].state = attempts[s][n].state
          /\ [attempts[s][n] EXCEPT !.inTime = FALSE].state = attempts[s][n].state
      BY <2>2 DEF Attempt
    <3>2. \/ attempts' = [attempts EXCEPT ![s][n] = [attempts[s][n] EXCEPT !.fresh = FALSE]]
          \/ attempts' = [attempts EXCEPT ![s][n] = [attempts[s][n] EXCEPT !.inTime = FALSE]]
      BY <1>2 DEF LeaseLapses, DeadlinePasses
    <3> QED  BY <3>1, <3>2
  <2>4. t = s => Holds(t)
    BY <2>1, <2>3 DEF Holds, TypeOK
  <2>5. t # s => Stays(t)
    BY <2>1, <2>3 DEF Stays, TypeOK
  <2> QED  BY <2>4, <2>5 DEF Move
<1> QED  BY <1>1, <1>2

\* Every step of the pipeline makes every stage take one of the moves.
LEMMA StepMoves ==
  ASSUME TypeOK, JobsConsistent, [Next]_vars, NEW t \in StageType
  PROVE  Move(t)
<1>1. CASE ConfirmRun
  BY <1>1 DEF ConfirmRun, TypeOK, JobsConsistent, leaseVars, Move, Stays, Created
<1>2. CASE CancelRun
  BY <1>2 DEF CancelRun, CancelPending, TypeOK, leaseVars, Move, Stays, Withdrawn
<1>3. CASE SweepLeases
  BY <1>3, ExpireStep, OverdueHeld DEF SweepLeases
<1>4. CASE ExecutorNext
  BY <1>4, ClaimStep, HolderStep DEF ExecutorNext
<1>5. CASE AdapterNext \/ ReporterNext \/ (\E s \in StageType : WorkerCrash(s))
  BY <1>5, WorkerStep
<1>6. CASE TimeNext
  BY <1>6, TimeStep
<1>7. CASE UNCHANGED vars
  BY <1>7 DEF vars, leaseVars, Move, Stays
<1> QED  BY <1>1, <1>2, <1>3, <1>4, <1>5, <1>6, <1>7 DEF Next

-----------------------------------------------------------------------------
(* A move keeps the stage consistent with its attempts *)

\* The rows of a held stage after its last attempt was replaced.
LEMMA LastReplaced ==
  ASSUME TypeOK, JobsConsistent, NEW s \in StageType, NEW n \in Held(s), NEW a \in Attempt
  PROVE  LET rows == [attempts[s] EXCEPT ![n] = a]
         IN  /\ rows \in Seq(Attempt)
             /\ Len(rows) = n /\ n \in Nat \ {0} /\ DOMAIN rows = 1 .. n
             /\ rows[n] = a
             /\ n <= MaxAttempts[s]
             /\ \A m \in 1 .. n :
                  m # n => rows[m].released # "no" /\ rows[m].state # "completed"
<1> DEFINE rows == [attempts[s] EXCEPT ![n] = a]
<1>1. /\ attempts[s] \in Seq(Attempt)
      /\ n = Len(attempts[s]) /\ n \in DOMAIN attempts[s]
      /\ stage[s] \in Active
  BY HeldFacts
<1>2. n \in Nat \ {0} /\ DOMAIN attempts[s] = 1 .. n
  BY <1>1, LenProperties
<1>3. /\ rows \in Seq(Attempt)
      /\ Len(rows) = n
      /\ \A m \in 1 .. n : rows[m] = IF m = n THEN a ELSE attempts[s][m]
  BY <1>1, <1>2, ExceptSeq
<1>4. DOMAIN rows = 1 .. n
  BY <1>2
<1>5. JobConsistent(s, stage[s], attempts[s])
  BY DEF JobsConsistent
<1>6. stage[s] \notin Outcome
  BY <1>1 DEF Active, Outcome, Succeeded
<1>7. /\ n <= MaxAttempts[s]
      /\ \A m \in 1 .. n : m # n => attempts[s][m].released # "no"
      /\ \A m \in 1 .. n : attempts[s][m].state # "completed"
  BY <1>1, <1>2, <1>5, <1>6 DEF JobConsistent
<1> HIDE DEF rows
<1>8. \A m \in 1 .. n : m # n => rows[m].released # "no" /\ rows[m].state # "completed"
  BY <1>3, <1>7
<1>9. rows[n] = a
  BY <1>2, <1>3
<1> QED  BY <1>2, <1>3, <1>4, <1>7, <1>8, <1>9 DEF rows

\* The states of a stage fall into four classes.
LEMMA Classes ==
  /\ \A x \in {"leased", "running"} : x \in Active /\ x \notin Pending \cup {"absent"} \cup Outcome
  /\ \A x \in {"absent", "queued"} : x \in Pending \cup {"absent"} /\ x \notin Active \cup Outcome
  /\ \A x \in {"failed", "cancelled"} : x \notin Active \cup Pending \cup {"absent"} \cup Outcome
  /\ \A x \in Outcome : x \notin Active \cup Pending \cup {"absent"}
  /\ \A x \in Pending : x \notin Active \cup Outcome
BY DEF Active, Pending, Outcome, Succeeded

\* A row that is added to released ones none of which completed.
LEMMA AppendKeepsJob ==
  ASSUME NEW s \in ExecutorTypes, s \in StageType, NEW rows \in Seq(Attempt),
         Len(rows) < MaxAttempts[s],
         \A m \in DOMAIN rows : rows[m].released # "no" /\ rows[m].state # "completed"
  PROVE  JobConsistent(s, "leased", Append(rows, NewAttempt))
<1>1. Len(rows) \in Nat /\ DOMAIN rows = 1 .. Len(rows)
  BY LenProperties
<1>2. /\ Append(rows, NewAttempt) \in Seq(Attempt)
      /\ Append(rows, NewAttempt) # <<>>
      /\ Len(Append(rows, NewAttempt)) = Len(rows) + 1
      /\ \A m \in 1 .. Len(rows) : Append(rows, NewAttempt)[m] = rows[m]
      /\ Append(rows, NewAttempt)[Len(rows) + 1] = NewAttempt
  BY NewAttemptType, AppendProperties
<1>3. DOMAIN Append(rows, NewAttempt) = 1 .. Len(rows) + 1
  BY <1>2, LenProperties
<1>4. MaxAttempts[s] \in Nat
  BY MaxAttemptsAssumption
<1>5. NewAttempt.released = "no" /\ NewAttempt.state = "leased"
  BY DEF NewAttempt
<1>6. \A m \in 1 .. Len(rows) + 1 : m = Len(rows) + 1 \/ m \in 1 .. Len(rows)
  BY <1>1
<1> QED  BY <1>1, <1>2, <1>3, <1>4, <1>5, <1>6, Classes DEF JobConsistent

\* Whatever move it takes, the stage stays consistent with its attempts.
LEMMA MoveKeepsJob ==
  ASSUME TypeOK, JobsConsistent, NEW s \in StageType, Move(s)
  PROVE  JobConsistent(s, stage'[s], attempts'[s])
<1> DEFINE rows == attempts[s]
<1>1. JobConsistent(s, stage[s], rows)
  BY DEF JobsConsistent
<1>2. rows \in Seq(Attempt) /\ Len(rows) \in Nat /\ DOMAIN rows = 1 .. Len(rows)
  BY LenProperties DEF TypeOK
<1>3. MaxAttempts[s] \in Nat \ {0}
  BY MaxAttemptsAssumption
<1> HIDE DEF rows
<1>4. CASE Stays(s)
  BY <1>1, <1>4 DEF Stays, rows
<1>5. CASE Created(s) \/ Withdrawn(s)
  <2>1. attempts'[s] = rows /\ stage'[s] \in {"queued", "cancelled"}
        /\ (stage'[s] = "queued" => stage[s] = "absent")
        /\ stage[s] \in Pending \cup {"absent"}
    BY <1>5 DEF Created, Withdrawn, rows
  <2> QED  BY <1>1, <2>1, Classes DEF JobConsistent
<1>6. CASE Leased(s)
  <2>1. \A m \in DOMAIN rows : rows[m].released # "no" /\ rows[m].state # "completed"
    BY <1>1, <1>6, Classes DEF JobConsistent, Leased
  <2>2. Len(rows) < MaxAttempts[s]
    BY <1>1, <1>6, Classes DEF JobConsistent, Leased
  <2> QED  BY <1>2, <1>6, <2>1, <2>2, AppendKeepsJob DEF Leased, rows
<1>7. CASE LeasedAgain(s)
  <2> PICK n \in Held(s), a \in Attempt :
        /\ a.released # "no" /\ a.state # "completed"
        /\ attempts'[s] = Append([attempts[s] EXCEPT ![n] = a], NewAttempt)
    BY <1>7 DEF LeasedAgain
  <2> DEFINE ended == [attempts[s] EXCEPT ![n] = a]
  <2>1. /\ ended \in Seq(Attempt) /\ Len(ended) = n /\ DOMAIN ended = 1 .. n
        /\ \A m \in DOMAIN ended : ended[m].released # "no" /\ ended[m].state # "completed"
    BY LastReplaced
  <2>2. n < MaxAttempts[s]
    BY <1>7, HeldFacts DEF LeasedAgain, CanRetry
  <2> HIDE DEF ended
  <2>3. JobConsistent(s, "leased", Append(ended, NewAttempt))
    BY <1>7, <2>1, <2>2, AppendKeepsJob DEF LeasedAgain
  <2> QED  BY <1>7, <2>3 DEF LeasedAgain, ended
<1>8. CASE Holds(s)
  <2> PICK n \in Held(s), a \in Attempt :
        /\ a.released = "no"
        /\ attempts'[s] = [attempts[s] EXCEPT ![n] = a]
        /\ \/ stage'[s] = "running" /\ a.state = "running"
           \/ stage'[s] = stage[s] /\ a.state = attempts[s][n].state
    BY <1>8 DEF Holds
  <2> DEFINE now == [attempts[s] EXCEPT ![n] = a]
  <2>1. /\ now \in Seq(Attempt) /\ Len(now) = n /\ n \in Nat \ {0} /\ DOMAIN now = 1 .. n
        /\ now[n] = a /\ n <= MaxAttempts[s]
        /\ \A m \in 1 .. n : m # n => now[m].released # "no" /\ now[m].state # "completed"
    BY LastReplaced
  <2>2. s \in ExecutorTypes /\ stage[s] \in Active /\ attempts[s][n].state = stage[s]
    BY HeldFacts
  <2>3. stage'[s] \in Active /\ a.state = stage'[s]
    BY <2>2 DEF Active
  <2> HIDE DEF now
  <2>4. now # <<>>
    BY <2>1, EmptySeq
  <2>5. a.state # "completed" /\ stage'[s] \in {"leased", "running"}
    BY <2>3 DEF Active
  <2>6. JobConsistent(s, stage'[s], now)
    BY <1>3, <2>1, <2>2, <2>3, <2>4, <2>5, Classes DEF JobConsistent
  <2> QED  BY <2>6 DEF now
<1>9. CASE Ends(s) \/ Completes(s)
  <2> PICK n \in Held(s), a \in Attempt :
        /\ a.released # "no"
        /\ attempts'[s] = [attempts[s] EXCEPT ![n] = a]
        /\ \/ a.state # "completed" /\ stage'[s] \in {"failed", "cancelled"}
           \/ a.state # "completed" /\ stage'[s] = "queued" /\ CanRetry(s)
           \/ a.state = "completed" /\ stage'[s] \in Outcome
    BY <1>9 DEF Ends, Completes
  <2> DEFINE now == [attempts[s] EXCEPT ![n] = a]
  <2>1. /\ now \in Seq(Attempt) /\ Len(now) = n /\ n \in Nat \ {0} /\ DOMAIN now = 1 .. n
        /\ now[n] = a /\ n <= MaxAttempts[s]
        /\ \A m \in 1 .. n : m # n => now[m].released # "no" /\ now[m].state # "completed"
    BY LastReplaced
  <2>2. s \in ExecutorTypes /\ (CanRetry(s) => n < MaxAttempts[s])
    BY HeldFacts DEF CanRetry
  <2> HIDE DEF now
  <2>3. now # <<>>
    BY <2>1, EmptySeq
  <2>4. JobConsistent(s, stage'[s], now)
    BY <1>3, <2>1, <2>2, <2>3, Classes DEF JobConsistent
  <2> QED  BY <2>4 DEF now
<1>10. CASE Served(s) \/ ServeFailed(s)
  <2>1. s \notin ExecutorTypes /\ attempts'[s] = rows /\ stage'[s] \in {"completed", "failed"}
    BY <1>10, ServedAssumption DEF Served, ServeFailed, rows
  <2>2. rows = <<>> /\ Len(rows) = 0 /\ DOMAIN rows = {}
    BY <1>1, <1>2, <2>1, EmptySeq DEF JobConsistent
  <2>3. stage'[s] \notin Active \cup Pending \cup {"absent"}
    BY <2>1, Classes DEF Outcome, Succeeded
  <2> QED  BY <1>3, <2>1, <2>2, <2>3 DEF JobConsistent
<1> QED  BY <1>4, <1>5, <1>6, <1>7, <1>8, <1>9, <1>10 DEF Move

-----------------------------------------------------------------------------
(* The inductive invariant *)

\* Intake leaves a consistent run.
LEMMA InitConsistent == Init => JobsConsistent
<1> SUFFICES ASSUME Init PROVE JobsConsistent
  OBVIOUS
<1>1. /\ Len(<<>>) = 0 /\ DOMAIN <<>> = {}
      /\ \A s \in StageType : MaxAttempts[s] \in Nat \ {0}
  BY MaxAttemptsAssumption
<1>2. \A s \in StageType : stage[s] \in {"absent", "queued"} /\ attempts[s] = <<>>
  BY DEF Init
<1>3. \A s \in StageType : JobConsistent(s, stage[s], attempts[s])
  BY <1>1, <1>2, Classes DEF JobConsistent
<1> QED  BY <1>3 DEF Init, JobsConsistent

\* A run that awaits confirmation still has no stage after the step.
LEMMA IntakeKept ==
  ASSUME TypeOK, JobsConsistent, [Next]_vars, status' = "awaiting_confirmation"
  PROVE  \A s \in StageType : stage'[s] = "absent"
<1> USE StageTypes DEF runVars, leaseVars, workerVars
<1>1. CASE status # "awaiting_confirmation"
  <2>1. CASE SweepLeases \/ ExecutorNext
    BY <1>1, <2>1
       DEF SweepLeases, ExecutorNext, ClaimStage, Heartbeat, CompleteStage, FailStage,
           CancellationAck, Expire, ExpiredStatus
  <2>2. CASE AdapterNext \/ ReporterNext \/ (\E s \in StageType : WorkerCrash(s))
    BY <1>1, <2>2
       DEF AdapterNext, ReporterNext, WorkerCrash, AdaptBundle, AdaptRaises,
           MarkAdaptationFailed, SettleOrphanedRun, EnsureAggregation, AggregateCase,
           GenerateReport, ReportRaises, MarkReportFailed
  <2>3. CASE ConfirmRun \/ CancelRun \/ TimeNext \/ UNCHANGED vars
    BY <1>1, <2>3
       DEF ConfirmRun, CancelRun, TimeNext, BackoffElapses, LeaseLapses, DeadlinePasses, vars
  <2> QED  BY <2>1, <2>2, <2>3 DEF Next
<1>2. CASE status = "awaiting_confirmation"
  <2>1. \A s \in StageType : stage[s] = "absent"
    BY <1>2 DEF JobsConsistent
  <2>2. \A s \in StageType : Held(s) = {}
    BY <2>1, HeldFacts, Classes
  <2>3. failing = {}
    BY <2>1, ServedAssumption DEF JobsConsistent
  <2>4. CASE SweepLeases \/ ExecutorNext
    BY <2>2, <2>4
       DEF SweepLeases, Hit, Overdue, ExecutorNext, ClaimStage, Heartbeat, CompleteStage,
           FailStage, CancellationAck, LeaseValid
  <2>5. CASE AdapterNext \/ ReporterNext \/ (\E s \in StageType : WorkerCrash(s))
    BY <1>2, <2>1, <2>3, <2>5
       DEF AdapterNext, ReporterNext, WorkerCrash, AdaptBundle, AdaptRaises,
           MarkAdaptationFailed, SettleOrphanedRun, EnsureAggregation, AggregateCase,
           GenerateReport, ReportRaises, MarkReportFailed, EnsuredStages, AggregationDue,
           Reporting, StageType
  <2>6. CASE ConfirmRun \/ CancelRun \/ TimeNext \/ UNCHANGED vars
    BY <2>1, <2>6
       DEF ConfirmRun, CancelRun, TimeNext, BackoffElapses, LeaseLapses, DeadlinePasses, vars
  <2> QED  BY <2>4, <2>5, <2>6 DEF Next
<1> QED  BY <1>1, <1>2

\* Which stages a step adds to those whose worker raised: queued ones, that it
\* leaves in the queue or marks as failed.
LEMMA FailingGrows ==
  ASSUME TypeOK, [Next]_vars, NEW s \in failing'
  PROVE  \/ s \in failing
         \/ s \in WorkerTypes /\ s \in StageType /\ stage'[s] \in {"queued", "failed"}
<1> USE StageTypes DEF TypeOK, workerVars
<1>1. CASE ConfirmRun \/ CancelRun \/ TimeNext \/ UNCHANGED vars \/ SweepLeases
  BY <1>1
     DEF ConfirmRun, CancelRun, TimeNext, BackoffElapses, LeaseLapses, DeadlinePasses, vars,
         SweepLeases, Expire
<1>2. CASE ExecutorNext
  BY <1>2
     DEF ExecutorNext, ClaimStage, Heartbeat, CompleteStage, FailStage, CancellationAck, Expire
<1>3. CASE AdapterNext
  BY <1>3
     DEF AdapterNext, AdaptBundle, AdaptRaises, MarkAdaptationFailed, SettleOrphanedRun
<1>4. CASE ReporterNext \/ (\E t \in StageType : WorkerCrash(t))
  BY <1>4
     DEF ReporterNext, WorkerCrash, EnsureAggregation, AggregateCase, GenerateReport,
         ReportRaises, MarkReportFailed
<1> QED  BY <1>1, <1>2, <1>3, <1>4 DEF Next

\* While a worker has a failure to record it serves nothing else, and nobody
\* else serves its stages.
LEMMA FailingNotServed ==
  ASSUME TypeOK, JobsConsistent, [Next]_vars, NEW t \in failing
  PROVE  ~Served(t)
<1> SUFFICES ASSUME Served(t) PROVE FALSE
  OBVIOUS
<1> t \in StageType
  BY DEF TypeOK
<1>1. /\ stage'[t] = "completed" /\ stage[t] = "queued" /\ t \in WorkerTypes
      /\ t \in Adaptation \cup Reporting /\ t \notin ExecutorTypes
  BY ServedAssumption DEF Served, JobsConsistent
<1>2. Held(t) = {}
  BY <1>1, HeldFacts
<1> USE StageTypes DEF TypeOK
<1>3. ASSUME NEW due, \A u \in StageType : due[u] \subseteq Held(u)
      PROVE  ExpiredStages(due)[t] # "completed"
  BY <1>1, <1>2, <1>3, ExpireMoves
<1>4. CASE SweepLeases
  BY <1>1, <1>3, <1>4, OverdueHeld DEF SweepLeases, Expire
<1>5. CASE ExecutorNext
  <2> PICK u \in StageType :
        \/ ClaimStage(u)
        \/ \E n \in DOMAIN attempts[u] :
             \/ Heartbeat(u, n)
             \/ \E outcome \in Outcome : CompleteStage(u, n, outcome)
             \/ \E retryable \in BOOLEAN : FailStage(u, n, retryable)
             \/ CancellationAck(u, n)
    BY <1>5 DEF ExecutorNext
  <2>1. CASE ClaimStage(u)
    <3>1. ExpiredStages(Overdue)[t] # "completed"
      BY <1>1, <1>2, OverdueMoves
    <3> QED  BY <1>1, <2>1, <3>1, ExpireTypes DEF ClaimStage
  <2>2. ASSUME NEW n \in DOMAIN attempts[u],
               \/ Heartbeat(u, n)
               \/ \E outcome \in Outcome : CompleteStage(u, n, outcome)
               \/ \E retryable \in BOOLEAN : FailStage(u, n, retryable)
               \/ CancellationAck(u, n)
        PROVE  FALSE
    <3>1. n \in Held(u) /\ u # t
      BY <1>2, <2>2 DEF Heartbeat, CompleteStage, FailStage, CancellationAck, LeaseValid
    <3>2. CASE Heartbeat(u, n)
      <4>1. CASE Expire(Only(u, n))
        BY <1>1, <1>3, <3>1, <4>1 DEF Expire, Only
      <4> QED  BY <1>1, <3>1, <3>2, <4>1 DEF Heartbeat
    <3>3. CASE \E outcome \in Outcome : CompleteStage(u, n, outcome)
      BY <1>1, <3>1, <3>3 DEF CompleteStage, CreateStages
    <3>4. CASE (\E retryable \in BOOLEAN : FailStage(u, n, retryable)) \/ CancellationAck(u, n)
      BY <1>1, <3>1, <3>4 DEF FailStage, CancellationAck, CancelPending
    <3> QED  BY <2>2, <3>2, <3>3, <3>4
  <2> QED  BY <2>1, <2>2
<1>6. CASE AdapterNext
  BY <1>1, <1>6
     DEF AdapterNext, AdaptBundle, AdaptRaises, MarkAdaptationFailed, SettleOrphanedRun,
         AdapterIdle
<1>7. CASE ReporterNext \/ (\E u \in StageType : WorkerCrash(u))
  BY <1>1, <1>7
     DEF ReporterNext, WorkerCrash, EnsureAggregation, AggregateCase, GenerateReport,
         ReportRaises, MarkReportFailed, EnsuredStages, AggregationDue, ReporterIdle, Reporting,
         Adaptation
<1>8. CASE ConfirmRun \/ CancelRun \/ TimeNext \/ UNCHANGED vars
  BY <1>1, <1>8
     DEF ConfirmRun, CancelRun, CancelPending, TimeNext, BackoffElapses, LeaseLapses,
         DeadlinePasses, vars
<1> QED  BY <1>4, <1>5, <1>6, <1>7, <1>8 DEF Next

\* The invariant is inductive.
LEMMA NextConsistent ==
  TypeOK /\ TypeOK' /\ JobsConsistent /\ [Next]_vars => JobsConsistent'
<1> SUFFICES ASSUME TypeOK, TypeOK', JobsConsistent, [Next]_vars
             PROVE  JobsConsistent'
  OBVIOUS
<1>1. (\A s \in StageType : JobConsistent(s, stage[s], attempts[s]))'
  BY StepMoves, MoveKeepsJob
<1>2. (status = "awaiting_confirmation" => \A s \in StageType : stage[s] = "absent")'
  BY IntakeKept
<1>3. (failing \subseteq WorkerTypes)'
  BY FailingGrows DEF JobsConsistent
<1>4. ASSUME NEW s \in failing'
      PROVE  stage'[s] \in {"queued", "failed", "cancelled"}
  <2>1. CASE s \in failing
    <3>1. /\ s \in StageType /\ s \in WorkerTypes /\ s \notin ExecutorTypes
          /\ stage[s] \in {"queued", "failed", "cancelled"}
      BY <2>1, ServedAssumption DEF TypeOK, JobsConsistent
    <3>2. Held(s) = {}
      BY <3>1, HeldFacts
    <3>3. Move(s) /\ ~Served(s)
      BY <2>1, <3>1, StepMoves, FailingNotServed
    <3> QED  BY <3>1, <3>2, <3>3
             DEF Move, Stays, Created, Withdrawn, Leased, LeasedAgain, Holds, Ends, Completes,
                 ServeFailed
  <2>2. CASE s \notin failing
    BY <1>4, <2>2, FailingGrows
  <2> QED  BY <2>1, <2>2
<1> QED  BY <1>1, <1>2, <1>3, <1>4 DEF JobsConsistent

-----------------------------------------------------------------------------
(* What the pipeline keeps *)

\* Stages, attempts, leases and pending worker failures always agree.
THEOREM AlwaysConsistent == Spec => []JobsConsistent
BY InitTypeOK, NextTypeOK, InitConsistent, NextConsistent, PTL DEF Spec

\* At most one unreleased lease per stage, on its newest attempt and in its
\* state, for any policy and any number of attempts.
THEOREM LeasesDisciplined == Spec => []LeaseDiscipline
<1>1. TypeOK /\ JobsConsistent => LeaseDiscipline
  <2> SUFFICES ASSUME TypeOK, JobsConsistent, NEW s \in StageType
               PROVE  /\ (Held(s) # {}) <=> (stage[s] \in Active)
                      /\ \A n \in Held(s) : n = Len(attempts[s]) /\ attempts[s][n].state = stage[s]
    BY DEF LeaseDiscipline
  <2>1. \A n \in Held(s) :
          stage[s] \in Active /\ n = Len(attempts[s]) /\ attempts[s][n].state = stage[s]
    BY HeldFacts
  <2>2. stage[s] \in Active => Len(attempts[s]) \in Held(s)
    <3>1. /\ attempts[s] \in Seq(Attempt)
          /\ stage[s] \in Active =>
               attempts[s] # <<>> /\ attempts[s][Len(attempts[s])].released = "no"
      BY DEF TypeOK, JobsConsistent, JobConsistent
    <3>2. attempts[s] # <<>> => Len(attempts[s]) \in DOMAIN attempts[s]
      BY <3>1, EmptySeq, LenProperties
    <3> QED  BY <3>1, <3>2 DEF Held
  <2> QED  BY <2>1, <2>2
<1> QED  BY <1>1, TypeCorrect, AlwaysConsistent, PTL

\* No stage is attempted more often than its policy allows.
THEOREM BudgetKept == Spec => []RetryBudget
<1>1. JobsConsistent => RetryBudget
  BY DEF JobsConsistent, JobConsistent, RetryBudget
<1> QED  BY <1>1, AlwaysConsistent, PTL

\* At most one attempt of a stage ever completes, the newest, and exactly when
\* the stage has an outcome.
THEOREM CompletesOnce == Spec => []OneCompletion
<1>1. JobsConsistent => OneCompletion
  BY DEF JobsConsistent, JobConsistent, OneCompletion
<1> QED  BY <1>1, AlwaysConsistent, PTL

-----------------------------------------------------------------------------
(* Every stage is a retry job *)

\* The phase of the job in each class of stage states.
LEMMA JobPhases ==
  ASSUME NEW s \in StageType
  PROVE  /\ stage[s] = "absent" => JobPhase(s) = "idle"
         /\ stage[s] \in Pending => JobPhase(s) = "waiting"
         /\ stage[s] \in Active => JobPhase(s) = "held"
         /\ stage[s] \in Outcome => JobPhase(s) = "done"
         /\ stage[s] \in {"failed", "cancelled"} => JobPhase(s) = "abandoned"
BY DEF JobPhase, Pending, Active, Outcome, Succeeded

\* The same for the state after a step.
LEMMA JobPhasesNext ==
  ASSUME NEW s \in StageType
  PROVE  /\ stage'[s] = "absent" => JobPhase(s)' = "idle"
         /\ stage'[s] \in Pending => JobPhase(s)' = "waiting"
         /\ stage'[s] \in Active => JobPhase(s)' = "held"
         /\ stage'[s] \in Outcome => JobPhase(s)' = "done"
         /\ stage'[s] \in {"failed", "cancelled"} => JobPhase(s)' = "abandoned"
BY DEF JobPhase, Pending, Active, Outcome, Succeeded

\* A move is a step of the stage's job, or leaves the job alone.
LEMMA MoveIsJobStep ==
  ASSUME TypeOK, JobsConsistent, NEW s \in StageType, Move(s)
  PROVE  Job(s)!Next \/ UNCHANGED Job(s)!jobVars
<1> USE JobPhases, JobPhasesNext, Classes
<1>1. JobConsistent(s, stage[s], attempts[s])
  BY DEF JobsConsistent
<1>2. attempts[s] \in Seq(Attempt) /\ Len(attempts[s]) \in Nat
  BY LenProperties DEF TypeOK
<1>3. ASSUME NEW n \in Held(s), NEW a \in Attempt
      PROVE  /\ [attempts[s] EXCEPT ![n] = a] \in Seq(Attempt)
             /\ Len([attempts[s] EXCEPT ![n] = a]) = Len(attempts[s])
  BY LastReplaced, HeldFacts
<1>4. CASE Stays(s)
  BY <1>4 DEF Stays, JobPhase, Job!jobVars
<1>5. CASE Created(s)
  BY <1>5 DEF Created, Job!Next, Job!Offer
<1>6. CASE Withdrawn(s)
  BY <1>6 DEF Withdrawn, Job!Next, Job!Abandon
<1>7. CASE Leased(s) \/ LeasedAgain(s)
  <2>1. PICK rows \in Seq(Attempt) :
          /\ Len(rows) = Len(attempts[s])
          /\ attempts'[s] = Append(rows, NewAttempt)
    <3>1. CASE Leased(s)
      BY <1>2, <3>1 DEF Leased
    <3>2. CASE LeasedAgain(s)
      BY <1>3, <3>2 DEF LeasedAgain
    <3> QED  BY <1>7, <3>1, <3>2
  <2>2. Len(attempts'[s]) = Len(attempts[s]) + 1
    BY <2>1, NewAttemptType, AppendProperties
  <2>3. JobPhase(s) \in {"waiting", "held"}
    BY <1>7, HeldFacts DEF Leased, LeasedAgain, Pending
  <2>4. Len(attempts[s]) < MaxAttempts[s]
    BY <1>1, <1>7 DEF Leased, LeasedAgain, CanRetry, JobConsistent
  <2>5. JobPhase(s)' = "held"
    BY <1>7 DEF Leased, LeasedAgain
  <2> QED  BY <2>2, <2>3, <2>4, <2>5 DEF Job!Next, Job!Take
<1>8. CASE Holds(s) \/ Ends(s) \/ Completes(s)
  <2>1. Len(attempts'[s]) = Len(attempts[s])
    <3>1. \E n \in Held(s), a \in Attempt : attempts'[s] = [attempts[s] EXCEPT ![n] = a]
      BY <1>8 DEF Holds, Ends, Completes
    <3> QED  BY <1>3, <3>1
  <2>2. stage[s] \in Active
    BY <1>8, HeldFacts DEF Holds, Ends, Completes
  <2>3. CASE stage'[s] \in Active
    BY <2>1, <2>2, <2>3 DEF Job!jobVars
  <2>4. CASE stage'[s] = "queued" /\ CanRetry(s)
    BY <2>1, <2>2, <2>4 DEF Job!Next, Job!Return, CanRetry
  <2>5. CASE stage'[s] \in {"failed", "cancelled"}
    BY <2>1, <2>2, <2>5 DEF Job!Next, Job!Abandon
  <2>6. CASE stage'[s] \in Outcome
    BY <2>1, <2>2, <2>6 DEF Job!Next, Job!Finish
  <2>7. Holds(s) => stage'[s] \in Active
    BY <2>2 DEF Holds, Active
  <2> QED  BY <1>8, <2>3, <2>4, <2>5, <2>6, <2>7 DEF Ends, Completes
<1>9. CASE Served(s) \/ ServeFailed(s)
  <2>1. attempts'[s] = attempts[s] /\ Len(attempts[s]) = 0
    BY <1>1, <1>9, ServedAssumption, EmptySeq DEF Served, ServeFailed, JobConsistent
  <2>2. CASE Served(s)
    BY <2>1, <2>2 DEF Served, Job!Next, Job!Serve, Outcome, Succeeded
  <2>3. CASE ServeFailed(s)
    BY <2>1, <2>3 DEF ServeFailed, Job!Next, Job!Abandon, Job!jobVars
  <2> QED  BY <1>9, <2>2, <2>3
<1> QED  BY <1>4, <1>5, <1>6, <1>7, <1>8, <1>9 DEF Move

\* Each stage of a run implements RetryJob, whatever serves it and however often
\* it may be tried.
THEOREM StagesImplementJobs == Spec => StagesAreJobs
<1>1. Init => \A s \in StageType : Job(s)!Init
  <2>1. Init => \A s \in StageType : attempts[s] = <<>> /\ stage[s] \in {"absent", "queued"}
    BY DEF Init
  <2> QED  BY <2>1, JobPhases, Classes DEF Job!Init
<1>2. TypeOK /\ JobsConsistent /\ [Next]_vars =>
        [\A s \in StageType : Job(s)!Next \/ UNCHANGED Job(s)!jobVars]_vars
  BY StepMoves, MoveIsJobStep
<1> QED  BY <1>1, <1>2, TypeCorrect, AlwaysConsistent, PTL DEF Spec, StagesAreJobs

\* A move of a stage keeps its outcome, and brings a stage that failed or was
\* cancelled back to no queue.
LEMMA MoveSettles ==
  ASSUME TypeOK, JobsConsistent, NEW s \in StageType, Move(s)
  PROVE  /\ stage[s] \in Outcome => stage'[s] = stage[s]
         /\ stage[s] \in Settled => stage'[s] \in Settled
<1>1. stage[s] \in Settled => stage[s] \notin Active \cup Pending \cup {"absent"}
  BY Classes DEF Settled
<1>2. Leased(s) \/ LeasedAgain(s) \/ Holds(s) \/ Ends(s) \/ Completes(s) =>
        stage[s] \notin Settled
  <2>1. LeasedAgain(s) \/ Holds(s) \/ Ends(s) \/ Completes(s) => \E n \in Held(s) : TRUE
    BY DEF LeasedAgain, Holds, Ends, Completes
  <2>2. Held(s) # {} => stage[s] \in Active
    BY HeldFacts
  <2>3. Leased(s) => stage[s] \in Pending
    BY DEF Leased, Pending
  <2> QED  BY <1>1, <2>1, <2>2, <2>3
<1>3. Stays(s) => stage'[s] = stage[s]
  BY DEF Stays
<1>4. Created(s) \/ Withdrawn(s) \/ Served(s) => stage[s] \notin Settled
  BY <1>1, Classes DEF Created, Withdrawn, Served
<1>5. ServeFailed(s) => stage[s] \notin Outcome /\ stage'[s] \in Settled
  BY Classes DEF ServeFailed, Settled
<1> QED  BY <1>2, <1>3, <1>4, <1>5 DEF Move, Settled

\* A stage with an outcome keeps it and one that failed or was cancelled never
\* comes back, for every interleaving of executors, sweeps, users and workers.
THEOREM OutcomesStay == Spec => SettledStaysSettled
<1>1. TypeOK /\ JobsConsistent /\ [Next]_vars =>
        [\A s \in StageType :
           /\ stage[s] \in Outcome => stage'[s] = stage[s]
           /\ stage[s] \in Settled => stage'[s] \in Settled]_vars
  BY StepMoves, MoveSettles
<1> QED  BY <1>1, TypeCorrect, AlwaysConsistent, PTL DEF Spec, SettledStaysSettled

-----------------------------------------------------------------------------
(* The order of the stages, and what a run says of itself when it ends.  A *)
(* stage's outcome is never undone, so the invariants follow from two      *)
(* questions asked of every step: what must hold when it creates a stage,  *)
(* and what must hold when it gives the run a result.                      *)

USE DEF PlatformAnalysis, C2Analysis, PlatformAdaptation, C2Adaptation, CaseAggregation,
        ReportGeneration

-----------------------------------------------------------------------------
(* The inductive invariant *)

\* No stage waits for a worker or an executor, nor is at one.
Quiet == \A s \in StageType : stage[s] \notin Pending \cup Active

\* The order of the stages with, for each result that promises something, the state
\* in which no later step takes the promise back.
OrderInv ==
  /\ StageOrder
  /\ result = "cancelled" => status = "terminal" /\ Quiet
  /\ CompletedRunIsDone

-----------------------------------------------------------------------------
(* What a step creates *)

\* What a stage's row needs to come into being.
MayExist(s) ==
  CASE s = PlatformAnalysis -> TRUE
    [] s = C2Analysis -> c2Enabled /\ stage[PlatformAnalysis] \in Succeeded
    [] s = C2Adaptation -> stage[C2Analysis] \in Outcome
    [] s = PlatformAdaptation ->
         IF c2Enabled THEN stage[C2Analysis] \in Outcome ELSE stage[PlatformAnalysis] \in Succeeded
    [] s = CaseAggregation ->
         IF c2Enabled THEN \A t \in Adaptation : stage[t] = "completed"
                      ELSE stage[PlatformAdaptation] \in Outcome
    [] s = ReportGeneration -> stage[CaseAggregation] \in Outcome

\* StageOrder says this of every row.
LEMMA OrderByStage ==
  StageOrder <=> \A s \in StageType : stage[s] # "absent" => MayExist(s)
<1>1. StageType = {PlatformAnalysis, C2Analysis, PlatformAdaptation, C2Adaptation,
                   CaseAggregation, ReportGeneration}
  BY DEF StageType, Adaptation, Reporting
<1> QED  BY <1>1 DEF StageOrder, MayExist, Adaptation

\* No step changes whether the run is analysed for C2.
LEMMA C2EnabledKept == [Next]_vars => c2Enabled' = c2Enabled
<1> SUFFICES ASSUME [Next]_vars PROVE c2Enabled' = c2Enabled
  OBVIOUS
<1> USE DEF runVars
<1>1. CASE ConfirmRun \/ CancelRun \/ SweepLeases \/ TimeNext \/ UNCHANGED vars
  BY <1>1
     DEF ConfirmRun, CancelRun, SweepLeases, Expire, TimeNext, BackoffElapses, LeaseLapses,
         DeadlinePasses, vars
<1>2. CASE ExecutorNext
  BY <1>2
     DEF ExecutorNext, ClaimStage, Heartbeat, CompleteStage, FailStage, CancellationAck, Expire
<1>3. CASE AdapterNext
  BY <1>3
     DEF AdapterNext, AdaptBundle, AdaptRaises, MarkAdaptationFailed, SettleOrphanedRun
<1>4. CASE ReporterNext \/ (\E t \in StageType : WorkerCrash(t))
  BY <1>4
     DEF ReporterNext, WorkerCrash, EnsureAggregation, AggregateCase, GenerateReport,
         ReportRaises, MarkReportFailed
<1> QED  BY <1>1, <1>2, <1>3, <1>4 DEF Next

\* A stage with an outcome keeps it (the first half of SettledStaysSettled).
LEMMA OutcomeKept ==
  ASSUME TypeOK, JobsConsistent, [Next]_vars, NEW s \in StageType, stage[s] \in Outcome
  PROVE  stage'[s] = stage[s]
BY StepMoves, MoveSettles

\* A sweep creates no stage.
LEMMA ExpireCreatesNone ==
  ASSUME TypeOK, JobsConsistent, NEW due, \A t \in StageType : due[t] \subseteq Held(t),
         NEW s \in StageType, stage[s] = "absent"
  PROVE  ExpiredStages(due)[s] = "absent"
<1>1. Held(s) = {}
  BY HeldFacts DEF Active
<1> QED  BY <1>1, ExpireMoves DEF Pending

\* Completing a stage creates only stages that build on it and whose other
\* predecessors are there.
LEMMA CompletionCreates ==
  ASSUME TypeOK, JobsConsistent, StageOrder,
         NEW s \in StageType, NEW n \in DOMAIN attempts[s], NEW outcome \in Outcome,
         CompleteStage(s, n, outcome), c2Enabled' = c2Enabled,
         NEW t \in StageType, stage[t] = "absent", stage'[t] # "absent"
  PROVE  MayExist(t)'
<1> DEFINE own == [stage EXCEPT ![s] = outcome]
<1>1. stage[s] \in Active /\ s # t
  BY HeldFacts DEF CompleteStage, LeaseValid, Active
<1>2. own \in [StageType -> StageState] /\ own[t] = "absent" /\ own[s] = outcome
  BY <1>1 DEF TypeOK, StageState, Settled
<1>3. /\ ~(s = PlatformAnalysis /\ outcome = "unsupported")
      /\ stage' = CreateStages(NextStages(s, own), own)
      /\ t \in NextStages(s, own)
  BY <1>2 DEF CompleteStage, CreateStages
<1> HIDE DEF own
<1>4. \A u \in StageType : own[u] # "absent" => stage'[u] = own[u]
  BY <1>3 DEF CreateStages
<1>5. \A u \in StageType : own[u] \in Outcome => stage'[u] = own[u]
  BY <1>4, Classes
<1>6. stage'[s] = outcome
  BY <1>2, <1>5
<1>7. CASE s = PlatformAnalysis
  <2>1. stage'[s] \in Succeeded
    BY <1>3, <1>6, <1>7 DEF Outcome
  <2>2. CASE c2Enabled
    <3>1. NextStages(s, own) = {C2Analysis}
      BY <1>7, <2>2 DEF NextStages, Adaptation
    <3> QED  BY <1>3, <1>7, <2>1, <2>2, <3>1 DEF MayExist
  <2>3. CASE ~c2Enabled
    <3>1. NextStages(s, own) = {PlatformAdaptation}
      BY <1>7, <2>3 DEF NextStages, Adaptation
    <3> QED  BY <1>3, <1>7, <2>1, <2>3, <3>1 DEF MayExist
  <2> QED  BY <2>2, <2>3
<1>8. CASE s = C2Analysis
  <2>1. c2Enabled
    BY <1>1, <1>8 DEF StageOrder, Active
  <2> QED  BY <1>3, <1>6, <1>8, <2>1 DEF NextStages, MayExist, Adaptation
<1>9. CASE s \in Adaptation
  <2>1. t = CaseAggregation /\ \/ s = PlatformAdaptation /\ ~c2Enabled
                               \/ \A u \in Adaptation : own[u] = "completed"
    BY <1>3, <1>9 DEF NextStages, Adaptation
  <2>2. Adaptation \subseteq StageType /\ PlatformAdaptation \in Adaptation
    BY DEF StageType, Adaptation
  <2>3. "completed" \in Outcome
    BY DEF Outcome, Succeeded
  <2> QED  BY <1>5, <1>6, <2>1, <2>2, <2>3 DEF MayExist
<1>10. CASE s \in Reporting
  BY <1>3, <1>6, <1>10 DEF NextStages, MayExist, Reporting, Adaptation
<1> QED  BY <1>7, <1>8, <1>9, <1>10 DEF StageType

\* So does every step.
LEMMA CreatedInOrder ==
  ASSUME TypeOK, JobsConsistent, StageOrder, [Next]_vars,
         NEW t \in StageType, stage[t] = "absent", stage'[t] # "absent"
  PROVE  MayExist(t)'
<1> USE StageTypes DEF TypeOK, runVars
<1>1. c2Enabled' = c2Enabled
  BY C2EnabledKept
<1>2. CASE ConfirmRun
  BY <1>2 DEF ConfirmRun, MayExist
<1>3. CASE CancelRun \/ TimeNext \/ UNCHANGED vars
  BY <1>3
     DEF CancelRun, CancelPending, Pending, TimeNext, BackoffElapses, LeaseLapses,
         DeadlinePasses, vars
<1>4. CASE SweepLeases
  BY <1>4, ExpireCreatesNone, OverdueHeld DEF SweepLeases, Expire
<1>5. CASE ExecutorNext
  <2> PICK s \in StageType :
        \/ ClaimStage(s)
        \/ \E n \in DOMAIN attempts[s] :
             \/ Heartbeat(s, n)
             \/ \E outcome \in Outcome : CompleteStage(s, n, outcome)
             \/ \E retryable \in BOOLEAN : FailStage(s, n, retryable)
             \/ CancellationAck(s, n)
    BY <1>5 DEF ExecutorNext
  <2>1. CASE ClaimStage(s)
    <3>1. ExpiredStages(Overdue)[t] = "absent"
      BY ExpireCreatesNone, OverdueHeld
    <3> QED  BY <2>1, <3>1, ExpireTypes DEF ClaimStage
  <2>2. ASSUME NEW n \in DOMAIN attempts[s],
               Heartbeat(s, n) \/ (\E retryable \in BOOLEAN : FailStage(s, n, retryable))
                 \/ CancellationAck(s, n)
        PROVE  FALSE
    <3>1. n \in Held(s) /\ s # t
      BY <2>2, HeldFacts DEF Heartbeat, FailStage, CancellationAck, LeaseValid, Active
    <3>2. CASE Heartbeat(s, n)
      <4>1. CASE Expire(Only(s, n))
        BY <3>1, <4>1, ExpireCreatesNone DEF Expire, Only
      <4> QED  BY <3>1, <3>2, <4>1 DEF Heartbeat
    <3> QED  BY <2>2, <3>1, <3>2 DEF FailStage, CancellationAck, CancelPending, Pending
  <2> QED  BY <1>1, <2>1, <2>2, CompletionCreates
<1>6. CASE AdapterNext
  BY <1>6, Classes
     DEF AdapterNext, AdaptBundle, AdaptRaises, MarkAdaptationFailed, SettleOrphanedRun,
         JobsConsistent
<1>7. EnsuredStages[t] # "absent" => t = CaseAggregation /\ AggregationDue
  BY DEF EnsuredStages
<1>8. AggregationDue =>
        IF c2Enabled THEN \A s \in Adaptation : stage[s] = "completed"
                     ELSE stage[PlatformAdaptation] = "completed"
  BY DEF AggregationDue, RequiredAdaptations
<1>9. /\ EnsuredStages \in [StageType -> StageState]
      /\ \A s \in Adaptation : EnsuredStages[s] = stage[s]
      /\ PlatformAdaptation \in Adaptation /\ CaseAggregation \notin Adaptation
      /\ ReportGeneration \notin Adaptation
  BY DEF EnsuredStages, StageState, Pending, Adaptation
<1>10. CASE EnsureAggregation
  BY <1>1, <1>7, <1>8, <1>9, <1>10 DEF EnsureAggregation, MayExist, Outcome, Succeeded
<1>11. ASSUME NEW verdict \in Verdict, AggregateCase(verdict)
       PROVE  MayExist(t)'
  <2>1. \A s \in Adaptation : stage'[s] = stage[s]
    BY <1>9, <1>11 DEF AggregateCase
  <2>2. stage'[CaseAggregation] = "completed"
    BY <1>9, <1>11 DEF AggregateCase, Reporting
  <2>3. t = ReportGeneration \/ (t = CaseAggregation /\ AggregationDue)
    BY <1>7, <1>9, <1>11 DEF AggregateCase
  <2> QED  BY <1>1, <1>8, <1>9, <2>1, <2>2, <2>3 DEF MayExist, Outcome, Succeeded
<1>12. CASE GenerateReport
  <2>1. \A s \in Adaptation : stage'[s] = stage[s]
    BY <1>9, <1>12 DEF GenerateReport
  <2>2. t = CaseAggregation /\ AggregationDue
    BY <1>7, <1>9, <1>12 DEF GenerateReport
  <2> QED  BY <1>1, <1>8, <1>9, <2>1, <2>2 DEF MayExist, Outcome, Succeeded
<1>13. ASSUME NEW s \in StageType, ReportRaises(s) \/ MarkReportFailed(s) \/ WorkerCrash(s)
       PROVE  FALSE
  BY <1>13 DEF ReportRaises, MarkReportFailed, WorkerCrash, JobsConsistent
<1> QED  BY <1>2, <1>3, <1>4, <1>5, <1>6, <1>10, <1>11, <1>12, <1>13
         DEF Next, ReporterNext

\* What a row needed stays, since an outcome does.
LEMMA StageOrderKept ==
  ASSUME TypeOK, JobsConsistent, StageOrder, [Next]_vars
  PROVE  StageOrder'
<1>1. ASSUME NEW s \in StageType, MayExist(s)
      PROVE  MayExist(s)'
  <2>1. \A u \in StageType : stage[u] \in Outcome => stage'[u] = stage[u]
    BY OutcomeKept
  <2>2. /\ Adaptation \subseteq StageType
        /\ {PlatformAnalysis, C2Analysis, PlatformAdaptation, CaseAggregation} \subseteq StageType
    BY DEF StageType, Reporting, Adaptation
  <2>3. Succeeded \subseteq Outcome /\ "completed" \in Outcome
    BY DEF Outcome, Succeeded
  <2>4. c2Enabled' = c2Enabled
    BY C2EnabledKept
  <2>5. CASE s \in {PlatformAnalysis, C2Analysis}
    BY <1>1, <2>1, <2>2, <2>3, <2>4, <2>5 DEF MayExist
  <2>6. CASE s \in Adaptation
    <3>1. /\ s = C2Adaptation \/ c2Enabled => stage[C2Analysis] \in Outcome
          /\ ~(s = C2Adaptation \/ c2Enabled) => stage[PlatformAnalysis] \in Succeeded
      BY <1>1, <2>6 DEF MayExist, Adaptation
    <3> QED  BY <2>1, <2>2, <2>3, <2>4, <2>6, <3>1 DEF MayExist, Adaptation
  <2>7. CASE s = CaseAggregation
    <3>1. CASE c2Enabled
      BY <1>1, <2>1, <2>2, <2>3, <2>4, <2>7, <3>1 DEF MayExist
    <3>2. CASE ~c2Enabled
      BY <1>1, <2>1, <2>2, <2>4, <2>7, <3>2 DEF MayExist
    <3> QED  BY <3>1, <3>2
  <2>8. CASE s = ReportGeneration
    BY <1>1, <2>1, <2>2, <2>8 DEF MayExist
  <2> QED  BY <2>5, <2>6, <2>7, <2>8 DEF StageType, Reporting
<1>2. ASSUME NEW s \in StageType, stage'[s] # "absent"
      PROVE  MayExist(s)'
  <2>1. CASE stage[s] = "absent"
    BY <1>2, <2>1, CreatedInOrder
  <2>2. CASE stage[s] # "absent"
    BY <1>1, <2>2, OrderByStage
  <2> QED  BY <2>1, <2>2
<1>3. (StageOrder <=> \A s \in StageType : stage[s] # "absent" => MayExist(s))'
  BY OrderByStage, PTL
<1> QED  BY <1>2, <1>3

-----------------------------------------------------------------------------
(* What a step leaves of a run at rest *)

\* In a terminal run with nothing pending or active, a step touches only stages whose
\* worker raised, and the only result it gives is that worker's.
LEMMA QuietStep ==
  ASSUME TypeOK, JobsConsistent, [Next]_vars, status = "terminal", Quiet
  PROVE  /\ status' = "terminal"
         /\ result' \in {result, "inconclusive"}
         /\ \A s \in StageType : stage'[s] = stage[s] \/ (s \in failing /\ stage'[s] = "failed")
         /\ failing = {} => result' = result
<1> USE StageTypes DEF TypeOK, runVars
<1>1. \A s \in StageType : Held(s) = {} /\ stage[s] # "queued"
  BY HeldFacts DEF Quiet, Pending
<1>2. \A s \in StageType : Overdue[s] = {}
  BY <1>1, OverdueHeld
<1>3. Hit(Overdue) = {}
  BY <1>2 DEF Hit
<1>4. CASE ConfirmRun \/ CancelRun \/ SweepLeases \/ TimeNext \/ UNCHANGED vars
  BY <1>1, <1>3, <1>4
     DEF ConfirmRun, CancelRun, SweepLeases, TimeNext, BackoffElapses, LeaseLapses,
         DeadlinePasses, vars
<1>5. ASSUME ExecutorNext PROVE FALSE
  <2>1. ASSUME NEW s \in StageType PROVE ~ClaimStage(s)
    <3>1. ExpiredStages(Overdue) = stage
      BY <1>3 DEF ExpiredStages, EndsCancellation, HitStages
    <3> QED  BY <1>1, <3>1 DEF ClaimStage
  <2> QED
    BY <1>1, <1>5, <2>1
       DEF ExecutorNext, Heartbeat, CompleteStage, FailStage, CancellationAck, LeaseValid
<1>6. CASE AdapterNext
  BY <1>1, <1>6
     DEF AdapterNext, AdaptBundle, AdaptRaises, MarkAdaptationFailed, SettleOrphanedRun
<1>7. CASE ReporterNext \/ (\E s \in StageType : WorkerCrash(s))
  <2>1. EnsuredStages = stage /\ ~AggregationDue
    BY DEF EnsuredStages, AggregationDue
  <2> QED
    BY <1>1, <1>7, <2>1
       DEF ReporterNext, WorkerCrash, EnsureAggregation, AggregateCase, GenerateReport,
           ReportRaises, MarkReportFailed, Reporting
<1> QED  BY <1>4, <1>5, <1>6, <1>7 DEF Next

\* So a run at rest stays at rest.
LEMMA QuietKept ==
  ASSUME TypeOK, JobsConsistent, [Next]_vars, status = "terminal", Quiet
  PROVE  status' = "terminal" /\ Quiet'
<1>1. "failed" \notin Pending \cup Active
  BY DEF Pending, Active
<1> QED  BY <1>1, QuietStep DEF Quiet

-----------------------------------------------------------------------------
(* What a step gives a run as its result *)

\* After the pending stages were withdrawn, with none active, nothing is left.
LEMMA WithdrawnQuiet ==
  ASSUME NEW states, NoneActive(states), NEW s \in StageType
  PROVE  CancelPending(states)[s] \notin Pending \cup Active
BY DEF NoneActive, CancelPending, Pending, Active

\* A sweep that cancels the run leaves nothing pending or active, so that a claim
\* finds nothing to lease after it.
LEMMA ExpiryCancels ==
  ASSUME NEW due, "cancelled" \in ExpiredResults(due), result # "cancelled"
  PROVE  /\ ExpiredStatus(due) = "terminal"
         /\ \A s \in StageType : ExpiredStages(due)[s] \notin Pending \cup Active
<1>1. EndsCancellation(due)
  <2>1. "cancelled" \notin {FailureResult(s) : s \in Exhausted(due)}
    BY StageTypes DEF Exhausted, Hit
  <2> QED  BY <2>1 DEF ExpiredResults
<1> QED  BY <1>1, WithdrawnQuiet DEF ExpiredStatus, ExpiredStages, EndsCancellation

\* A sweep calls no run completed.
LEMMA ExpiryCompletesNone ==
  ASSUME NEW due, "completed" \in ExpiredResults(due)
  PROVE  result = "completed"
BY StageTypes DEF ExpiredResults, Exhausted, Hit

\* Only a step that leaves nothing at work calls the run cancelled.
LEMMA CancelledQuietly ==
  ASSUME TypeOK, JobsConsistent, [Next]_vars, result # "cancelled", result' = "cancelled"
  PROVE  status' = "terminal" /\ Quiet'
<1> USE DEF TypeOK, runVars, Quiet
<1>1. CASE ConfirmRun \/ TimeNext \/ UNCHANGED vars
  BY <1>1 DEF ConfirmRun, TimeNext, BackoffElapses, LeaseLapses, DeadlinePasses, vars
<1>2. CASE CancelRun
  BY <1>2, WithdrawnQuiet DEF CancelRun
<1>3. CASE SweepLeases
  BY <1>3, ExpiryCancels DEF SweepLeases, Expire
<1>4. CASE ExecutorNext
  <2> PICK s \in StageType :
        \/ ClaimStage(s)
        \/ \E n \in DOMAIN attempts[s] :
             \/ Heartbeat(s, n)
             \/ \E outcome \in Outcome : CompleteStage(s, n, outcome)
             \/ \E retryable \in BOOLEAN : FailStage(s, n, retryable)
             \/ CancellationAck(s, n)
    BY <1>4 DEF ExecutorNext
  <2>1. ~ClaimStage(s)
    BY ExpiryCancels DEF ClaimStage, Pending
  <2>2. ASSUME NEW n \in DOMAIN attempts[s], Heartbeat(s, n)
        PROVE  status' = "terminal" /\ Quiet'
    BY <2>2, ExpiryCancels DEF Heartbeat, Expire
  <2>3. ASSUME NEW n \in DOMAIN attempts[s], NEW outcome \in Outcome, CompleteStage(s, n, outcome)
        PROVE  FALSE
    BY <2>3 DEF CompleteStage
  <2>4. ASSUME NEW n \in DOMAIN attempts[s], NEW retryable \in BOOLEAN,
               FailStage(s, n, retryable)
        PROVE  FALSE
    BY <2>4, StageTypes DEF FailStage
  <2>5. ASSUME NEW n \in DOMAIN attempts[s], CancellationAck(s, n)
        PROVE  status' = "terminal" /\ Quiet'
    BY <2>5, WithdrawnQuiet DEF CancellationAck
  <2> QED  BY <2>1, <2>2, <2>3, <2>4, <2>5
<1>5. CASE AdapterNext
  BY <1>5
     DEF AdapterNext, AdaptBundle, AdaptRaises, MarkAdaptationFailed, SettleOrphanedRun
<1>6. CASE ReporterNext \/ (\E s \in StageType : WorkerCrash(s))
  BY <1>6
     DEF ReporterNext, WorkerCrash, EnsureAggregation, AggregateCase, GenerateReport,
         ReportRaises, MarkReportFailed, Verdict
<1> QED  BY <1>1, <1>2, <1>3, <1>4, <1>5, <1>6 DEF Next

\* Only the step that finishes the report calls the run completed.
LEMMA CompletedByReport ==
  ASSUME TypeOK, JobsConsistent, [Next]_vars, result # "completed", result' = "completed"
  PROVE  status' = "terminal" /\ stage'[ReportGeneration] \in Outcome
<1> USE DEF TypeOK, runVars
<1>1. CASE ConfirmRun \/ CancelRun \/ TimeNext \/ UNCHANGED vars
  BY <1>1 DEF ConfirmRun, CancelRun, TimeNext, BackoffElapses, LeaseLapses, DeadlinePasses, vars
<1>2. CASE SweepLeases
  BY <1>2, ExpiryCompletesNone DEF SweepLeases, Expire
<1>3. CASE ExecutorNext
  <2> PICK s \in StageType :
        \/ ClaimStage(s)
        \/ \E n \in DOMAIN attempts[s] :
             \/ Heartbeat(s, n)
             \/ \E outcome \in Outcome : CompleteStage(s, n, outcome)
             \/ \E retryable \in BOOLEAN : FailStage(s, n, retryable)
             \/ CancellationAck(s, n)
    BY <1>3 DEF ExecutorNext
  <2>1. ~ClaimStage(s)
    BY ExpiryCompletesNone DEF ClaimStage
  <2>2. ASSUME NEW n \in DOMAIN attempts[s], Heartbeat(s, n)
        PROVE  FALSE
    BY <2>2, ExpiryCompletesNone DEF Heartbeat, Expire
  <2>3. ASSUME NEW n \in DOMAIN attempts[s], NEW outcome \in Outcome, CompleteStage(s, n, outcome)
        PROVE  status' = "terminal" /\ stage'[ReportGeneration] \in Outcome
    <3>1. s = ReportGeneration
      BY <2>3 DEF CompleteStage
    <3>2. stage'[s] = outcome
      BY <2>3, <3>1, Classes DEF CompleteStage, CreateStages
    <3> QED  BY <2>3, <3>1, <3>2 DEF CompleteStage
  <2>4. ASSUME NEW n \in DOMAIN attempts[s],
               (\E retryable \in BOOLEAN : FailStage(s, n, retryable)) \/ CancellationAck(s, n)
        PROVE  FALSE
    BY <2>4, StageTypes DEF FailStage, CancellationAck
  <2> QED  BY <2>1, <2>2, <2>3, <2>4
<1>4. CASE AdapterNext
  BY <1>4
     DEF AdapterNext, AdaptBundle, AdaptRaises, MarkAdaptationFailed, SettleOrphanedRun
<1>5. CASE GenerateReport
  <2>1. EnsuredStages \in [StageType -> StageState] /\ ReportGeneration \in StageType
    BY DEF EnsuredStages, StageState, Pending, StageType, Reporting
  <2> QED  BY <1>5, <2>1 DEF GenerateReport, Outcome, Succeeded
<1>6. CASE (ReporterNext /\ ~GenerateReport) \/ (\E s \in StageType : WorkerCrash(s))
  BY <1>6
     DEF ReporterNext, WorkerCrash, EnsureAggregation, AggregateCase, ReportRaises,
         MarkReportFailed
<1> QED  BY <1>1, <1>2, <1>3, <1>4, <1>5, <1>6 DEF Next

\* A finished report stands on finished stages: every stage there is has an outcome.
LEMMA ReportedDone ==
  ASSUME TypeOK, StageOrder, stage[ReportGeneration] \in Outcome
  PROVE  \A s \in StageType : stage[s] \in Outcome \cup {"absent"}
<1>1. \A s \in StageType : stage[s] \in Outcome => stage[s] # "absent"
  BY Classes
<1>2. /\ "completed" \in Outcome /\ Succeeded \subseteq Outcome
      /\ {PlatformAnalysis, C2Analysis, PlatformAdaptation, C2Adaptation, CaseAggregation,
          ReportGeneration} = StageType
  BY DEF Outcome, Succeeded, StageType, Adaptation, Reporting
<1>3. stage[CaseAggregation] \in Outcome
  BY <1>1, <1>2 DEF StageOrder
<1>4. stage[PlatformAdaptation] \in Outcome
  BY <1>1, <1>2, <1>3 DEF StageOrder, Adaptation
<1>5. CASE c2Enabled
  <2>1. stage[C2Analysis] \in Outcome /\ stage[C2Adaptation] = "completed"
    BY <1>1, <1>2, <1>3, <1>4, <1>5 DEF StageOrder, Adaptation
  <2>2. stage[PlatformAnalysis] \in Succeeded
    BY <1>1, <1>2, <2>1 DEF StageOrder
  <2> QED  BY <1>2, <1>3, <1>4, <2>1, <2>2
<1>6. CASE ~c2Enabled
  <2>1. stage[C2Analysis] = "absent"
    BY <1>6 DEF StageOrder
  <2>2. stage[C2Adaptation] = "absent"
    BY <1>1, <1>2, <2>1 DEF StageOrder
  <2>3. stage[PlatformAnalysis] \in Succeeded
    BY <1>1, <1>2, <1>4, <1>6 DEF StageOrder
  <2> QED  BY <1>2, <1>3, <1>4, <2>1, <2>2, <2>3
<1> QED  BY <1>5, <1>6

-----------------------------------------------------------------------------
(* The invariant *)

\* A run at intake has no stage but its first, and no result.
LEMMA InitOrder == Init => OrderInv
BY DEF Init, OrderInv, StageOrder, CompletedRunIsDone, StageType, Adaptation, Reporting

\* It is inductive, given what is already proved of the stages and their attempts.
LEMMA NextOrder ==
  TypeOK /\ TypeOK' /\ JobsConsistent /\ OrderInv /\ [Next]_vars => OrderInv'
<1> SUFFICES ASSUME TypeOK, TypeOK', JobsConsistent, OrderInv, [Next]_vars
             PROVE  OrderInv'
  OBVIOUS
<1>1. StageOrder'
  BY StageOrderKept DEF OrderInv
<1>2. ASSUME result' = "cancelled"
      PROVE  status' = "terminal" /\ Quiet'
  BY <1>2, CancelledQuietly, QuietKept DEF OrderInv
<1>3. ASSUME result' = "completed"
      PROVE  /\ status' = "terminal"
             /\ stage'[ReportGeneration] \in Outcome
             /\ \A s \in StageType : stage'[s] \in Outcome \cup {"absent"}
  <2>1. CASE result # "completed"
    <3>1. status' = "terminal" /\ stage'[ReportGeneration] \in Outcome
      BY <1>3, <2>1, CompletedByReport
    <3>2. (TypeOK /\ StageOrder /\ stage[ReportGeneration] \in Outcome =>
            \A s \in StageType : stage[s] \in Outcome \cup {"absent"})'
      BY ReportedDone, PTL
    <3> QED  BY <1>1, <3>1, <3>2
  <2>2. CASE result = "completed"
    <3>1. /\ status = "terminal"
          /\ stage[ReportGeneration] \in Outcome
          /\ \A s \in StageType : stage[s] \in Outcome \cup {"absent"}
      BY <2>2 DEF OrderInv, CompletedRunIsDone
    <3>2. Quiet
      BY <3>1, Classes DEF Quiet, Pending, Active
    <3>3. failing = {}
      BY <3>1, Classes DEF TypeOK, JobsConsistent
    <3>4. ReportGeneration \in StageType
      BY DEF StageType, Reporting
    <3> QED  BY <3>1, <3>2, <3>3, <3>4, QuietStep
  <2> QED  BY <2>1, <2>2
<1> QED  BY <1>1, <1>2, <1>3 DEF OrderInv, CompletedRunIsDone

\* What exists and what a run says of itself follow its stages, for every retry policy
\* and every split of the stages between executors and workers.
THEOREM OrderKept == Spec => []RunFollowsStages
<1>1. OrderInv => RunFollowsStages
  BY DEF OrderInv, RunFollowsStages, CancelledRunIsQuiet, Quiet
<1> QED
  BY <1>1, InitTypeOK, NextTypeOK, InitConsistent, NextConsistent, InitOrder, NextOrder, PTL
     DEF Spec

-----------------------------------------------------------------------------
(* Where only the analyses have executors, as deployed, a run ends once *)

Analyses == {PlatformAnalysis, C2Analysis}

\* The executors of a terminal run have nothing to claim and nothing to report.
AnalysesOver == status = "terminal" => \A s \in Analyses : stage[s] \notin Pending \cup Active

\* A stage whose successors exist is over, and a stage whose predecessor is not over
\* does not exist: of the two analyses at most one is under way.
LEMMA OneAnalysis ==
  ASSUME StageOrder
  PROVE  /\ stage[PlatformAnalysis] \notin Succeeded => stage[C2Analysis] = "absent"
         /\ stage[PlatformAdaptation] # "absent" \/ stage[C2Adaptation] # "absent"
              \/ stage[CaseAggregation] # "absent" \/ stage[ReportGeneration] # "absent" =>
              \A s \in Analyses : stage[s] \notin Pending \cup Active
<1>1. \A x \in Outcome : x \notin Active \cup Pending \cup {"absent"}
  BY Classes
<1>2. "absent" \notin Pending \cup Active /\ Succeeded \subseteq Outcome /\ "completed" \in Outcome
  BY DEF Pending, Active, Outcome, Succeeded
<1>3. stage[C2Adaptation] # "absent" \/ stage[PlatformAdaptation] # "absent" =>
        \A s \in Analyses : stage[s] \notin Pending \cup Active
  <2>1. stage[C2Analysis] \in Outcome => stage[PlatformAnalysis] \in Succeeded
    BY <1>1 DEF StageOrder
  <2>2. CASE stage[C2Analysis] \in Outcome
    BY <1>1, <1>2, <2>1, <2>2 DEF Analyses
  <2>3. CASE stage[C2Analysis] \notin Outcome
    <3>1. stage[C2Adaptation] = "absent"
      BY <2>3 DEF StageOrder
    <3>2. stage[PlatformAdaptation] # "absent" => ~c2Enabled /\ stage[PlatformAnalysis] \in Succeeded
      BY <2>3 DEF StageOrder
    <3>3. ~c2Enabled => stage[C2Analysis] = "absent"
      BY DEF StageOrder
    <3> QED  BY <1>1, <1>2, <3>1, <3>2, <3>3 DEF Analyses
  <2> QED  BY <2>2, <2>3
<1>4. stage[CaseAggregation] # "absent" => stage[PlatformAdaptation] # "absent"
  <2>1. CASE c2Enabled
    BY <1>1, <1>2, <2>1 DEF StageOrder, Adaptation
  <2>2. CASE ~c2Enabled
    BY <1>1, <1>2, <2>2 DEF StageOrder
  <2> QED  BY <2>1, <2>2
<1>5. stage[ReportGeneration] # "absent" => stage[CaseAggregation] # "absent"
  BY <1>1 DEF StageOrder
<1>6. stage[PlatformAnalysis] \notin Succeeded => stage[C2Analysis] = "absent"
  BY DEF StageOrder
<1> QED  BY <1>3, <1>4, <1>5, <1>6

\* Once the analyses of a terminal run are over, no step begins one again or reopens
\* the run: only the holder of a lease, or a claim, could.
LEMMA OverStaysOver ==
  ASSUME ExecutorTypes \subseteq Analyses, TypeOK, JobsConsistent, StageOrder, [Next]_vars,
         status = "terminal", AnalysesOver
  PROVE  status' = "terminal" /\ \A s \in Analyses : stage'[s] \notin Pending \cup Active
<1> USE StageTypes DEF TypeOK, runVars
<1>1. Analyses \subseteq StageType
  BY DEF Analyses, StageType
<1>2. \A s \in StageType : Held(s) = {}
  BY HeldFacts DEF AnalysesOver
<1>3. Hit(Overdue) = {}
  BY <1>2, OverdueHeld DEF Hit
<1>4. \A s \in Analyses : stage[s] # "queued" /\ "failed" \notin Pending \cup Active
  BY DEF AnalysesOver, Pending, Active
<1>5. Adaptation \cap Analyses = {} /\ Reporting \cap Analyses = {}
  BY DEF Adaptation, Reporting, Analyses
<1>6. CASE ConfirmRun \/ CancelRun \/ SweepLeases \/ TimeNext \/ UNCHANGED vars
  BY <1>1, <1>2, <1>3, <1>6
     DEF ConfirmRun, CancelRun, SweepLeases, TimeNext, BackoffElapses, LeaseLapses,
         DeadlinePasses, vars, AnalysesOver
<1>7. ASSUME ExecutorNext PROVE FALSE
  <2>1. ASSUME NEW s \in StageType PROVE ~ClaimStage(s)
    <3>1. ExpiredStages(Overdue) = stage
      BY <1>3 DEF ExpiredStages, EndsCancellation, HitStages
    <3> QED  BY <1>4, <3>1 DEF ClaimStage
  <2> QED
    BY <1>2, <1>7, <2>1
       DEF ExecutorNext, Heartbeat, CompleteStage, FailStage, CancellationAck, LeaseValid
<1>8. CASE AdapterNext
  BY <1>1, <1>4, <1>5, <1>8
     DEF AdapterNext, AdaptBundle, AdaptRaises, MarkAdaptationFailed, SettleOrphanedRun,
         AnalysesOver
<1>9. CASE ReporterNext \/ (\E s \in StageType : WorkerCrash(s))
  <2>1. EnsuredStages = stage /\ ~AggregationDue
    BY DEF EnsuredStages, AggregationDue
  <2>2. CaseAggregation \notin Analyses /\ ReportGeneration \notin Analyses
    BY DEF Analyses
  <2> QED
    BY <1>1, <1>4, <1>5, <1>9, <2>1, <2>2
       DEF ReporterNext, WorkerCrash, EnsureAggregation, AggregateCase, GenerateReport,
           ReportRaises, MarkReportFailed, AnalysesOver
<1> QED  BY <1>6, <1>7, <1>8, <1>9 DEF Next

\* A sweep that ends the run ends the only analysis under way.
LEMMA ExpiryEndsAnalyses ==
  ASSUME ExecutorTypes \subseteq Analyses, TypeOK, JobsConsistent, StageOrder,
         NEW due, \A t \in StageType : due[t] \subseteq Held(t),
         status # "terminal", ExpiredStatus(due) = "terminal", NEW s \in Analyses
  PROVE  ExpiredStages(due)[s] \notin Pending \cup Active
<1>1. Analyses \subseteq StageType
  BY DEF Analyses, StageType
<1>2. CASE EndsCancellation(due)
  BY <1>1, <1>2, WithdrawnQuiet DEF ExpiredStages, EndsCancellation
<1>3. CASE ~EndsCancellation(due)
  <2>1. status # "cancelling" /\ Exhausted(due) # {}
    BY <1>3 DEF ExpiredStatus
  <2>2. PICK t \in StageType : t \in Hit(due) /\ ~CanRetry(t)
    BY <2>1 DEF Exhausted, Hit
  <2>3. t \in Analyses /\ stage[t] \in Active
    BY <2>2, HeldFacts DEF Hit
  <2>4. ExpiredStages(due) = HitStages(due) /\ HitStages(due)[t] = "failed"
    BY <1>3, <2>1, <2>2 DEF ExpiredStages, HitStages, HitState
  <2>5. s # t => stage[s] \notin Pending \cup Active
    <3>1. CASE t = PlatformAnalysis
      BY <2>3, <3>1, OneAnalysis, Classes DEF Analyses, Outcome, Pending, Active
    <3>2. CASE t = C2Analysis
      BY <2>3, <3>2, Classes DEF StageOrder, Analyses, Outcome
    <3> QED  BY <2>3, <3>1, <3>2 DEF Analyses
  <2>6. s # t => s \notin Hit(due)
    BY <1>1, <2>5, HeldFacts DEF Hit
  <2> QED  BY <1>1, <2>4, <2>5, <2>6 DEF HitStages, Pending, Active
<1> QED  BY <1>2, <1>3

\* The step that makes a run terminal finds its analyses over, or ends the last one.
LEMMA EndsWithAnalyses ==
  ASSUME ExecutorTypes \subseteq Analyses, TypeOK, JobsConsistent, StageOrder, [Next]_vars,
         status # "terminal", status' = "terminal", NEW s \in Analyses
  PROVE  stage'[s] \notin Pending \cup Active
<1> USE StageTypes DEF TypeOK, runVars
<1>1. Analyses \subseteq StageType
  BY DEF Analyses, StageType
<1>2. ~(ConfirmRun \/ TimeNext \/ UNCHANGED vars)
  BY DEF ConfirmRun, TimeNext, BackoffElapses, LeaseLapses, DeadlinePasses, vars
<1>3. CASE CancelRun
  BY <1>1, <1>3, WithdrawnQuiet DEF CancelRun
<1>4. CASE SweepLeases
  BY <1>4, ExpiryEndsAnalyses, OverdueHeld DEF SweepLeases, Expire
<1>5. CASE ExecutorNext
  <2> PICK t \in StageType :
        \/ ClaimStage(t)
        \/ \E n \in DOMAIN attempts[t] :
             \/ Heartbeat(t, n)
             \/ \E outcome \in Outcome : CompleteStage(t, n, outcome)
             \/ \E retryable \in BOOLEAN : FailStage(t, n, retryable)
             \/ CancellationAck(t, n)
    BY <1>5 DEF ExecutorNext
  <2>1. ~ClaimStage(t)
    BY DEF ClaimStage
  <2>2. PICK n \in DOMAIN attempts[t] :
             \/ Heartbeat(t, n)
             \/ \E outcome \in Outcome : CompleteStage(t, n, outcome)
             \/ \E retryable \in BOOLEAN : FailStage(t, n, retryable)
             \/ CancellationAck(t, n)
    BY <2>1
  <2>3. n \in Held(t)
    BY <2>2 DEF Heartbeat, CompleteStage, FailStage, CancellationAck, LeaseValid
  <2>4. t \in Analyses /\ stage[t] \in Active
    BY <2>3, HeldFacts
  <2>5. s # t => stage[s] \notin Pending \cup Active
    <3>1. CASE t = PlatformAnalysis
      BY <2>4, <3>1, OneAnalysis, Classes DEF Analyses, Outcome, Pending, Active
    <3>2. CASE t = C2Analysis
      BY <2>4, <3>2, Classes DEF StageOrder, Analyses, Outcome
    <3> QED  BY <2>4, <3>1, <3>2 DEF Analyses
  <2>6. CASE Heartbeat(t, n)
    <3>1. Expire(Only(t, n)) /\ \A u \in StageType : Only(t, n)[u] \subseteq Held(u)
      BY <2>3, <2>6 DEF Heartbeat, Only
    <3> QED  BY <3>1, ExpiryEndsAnalyses DEF Expire
  <2>7. ASSUME NEW outcome \in Outcome, CompleteStage(t, n, outcome)
        PROVE  stage'[s] \notin Pending \cup Active
    <3>1. t # ReportGeneration
      BY <2>4 DEF Analyses
    <3>2. stage' = [stage EXCEPT ![t] = outcome]
      BY <2>7, <3>1 DEF CompleteStage
    <3> QED  BY <1>1, <2>5, <3>2, Classes
  <2>8. ASSUME NEW retryable \in BOOLEAN, FailStage(t, n, retryable)
        PROVE  stage'[s] \notin Pending \cup Active
    <3>1. stage' = [stage EXCEPT ![t] = "failed"]
      BY <2>8 DEF FailStage
    <3> QED  BY <1>1, <2>5, <3>1 DEF Pending, Active
  <2>9. CASE CancellationAck(t, n)
    BY <1>1, <2>9, WithdrawnQuiet DEF CancellationAck
  <2> QED  BY <2>2, <2>6, <2>7, <2>8, <2>9
<1>6. CASE AdapterNext
  <2>1. \E a \in Adaptation : stage[a] # "absent"
    BY <1>6
       DEF AdapterNext, AdaptBundle, AdaptRaises, MarkAdaptationFailed, SettleOrphanedRun,
           JobsConsistent
  <2>2. stage[s] \notin Pending \cup Active
    BY <2>1, OneAnalysis DEF Adaptation
  <2>3. stage'[s] = stage[s]
    <3>1. Adaptation \cap Analyses = {}
      BY DEF Adaptation, Analyses
    <3> QED
      BY <1>1, <1>6, <3>1
         DEF AdapterNext, AdaptBundle, AdaptRaises, MarkAdaptationFailed, SettleOrphanedRun
  <2> QED  BY <2>2, <2>3
<1>7. CASE GenerateReport
  <2>1. stage[s] \notin Pending \cup Active
    BY <1>7, OneAnalysis DEF GenerateReport
  <2>2. stage'[s] = stage[s]
    BY <1>1, <1>7 DEF GenerateReport, EnsuredStages, Analyses
  <2> QED  BY <2>1, <2>2
<1>8. ~((ReporterNext /\ ~GenerateReport) \/ (\E t \in StageType : WorkerCrash(t)))
  BY DEF ReporterNext, WorkerCrash, EnsureAggregation, AggregateCase, ReportRaises,
         MarkReportFailed
<1> QED  BY <1>2, <1>3, <1>4, <1>5, <1>6, <1>7, <1>8 DEF Next

\* As deployed, with executors for the analyses only, a run that became terminal stays
\* so, for every retry policy: nothing is left that a claim could take.  Where executors
\* adapt or report too, a failed stage ends the run while its sibling is at work.
THEOREM TerminalKept == ASSUME ExecutorTypes \subseteq Analyses PROVE Spec => TerminalStays
<1>1. Init => AnalysesOver
  BY DEF Init, AnalysesOver
<1>2. TypeOK /\ TypeOK' /\ JobsConsistent /\ OrderInv /\ AnalysesOver /\ [Next]_vars =>
        AnalysesOver'
  BY OverStaysOver, EndsWithAnalyses DEF AnalysesOver, OrderInv
<1>3. TypeOK /\ JobsConsistent /\ OrderInv /\ AnalysesOver /\ [Next]_vars =>
        [status = "terminal" => status' = "terminal"]_vars
  BY OverStaysOver DEF OrderInv
<1> QED
  BY <1>1, <1>2, <1>3, InitTypeOK, NextTypeOK, InitConsistent, NextConsistent, InitOrder,
     NextOrder, PTL
     DEF Spec, TerminalStays

=============================================================================
