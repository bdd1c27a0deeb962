----------------------------- MODULE StageRequests -----------------------------
(***************************************************************************)
(* The rows of one stage under concurrent transactions.  RunPipeline takes *)
(* each handler of the API as one step; here a handler reads its rows,     *)
(* decides, writes the columns it changed, waits for the lock of the audit *)
(* chain and commits, and other handlers run in between.  The database is  *)
(* PostgreSQL at READ COMMITTED: a read sees what is committed and locks   *)
(* nothing, a written row is locked until the transaction ends, and only   *)
(* the sweep's leases and a claim's stage are locked when read.  Signed    *)
(* requests may be delivered any number of times.                          *)
(***************************************************************************)
EXTENDS Naturals, Sequences, FiniteSetsExt

CONSTANTS
  Workers,     \* sessions of the database in which requests are handled
  MaxAttempts, \* AnalysisStage.max_attempts
  MaxClaims,   \* bound: the attempts there are
  Deadlines,   \* bound: the attempts that may reach their deadline
  None

ASSUME MaxAttemptsAssumption == MaxAttempts \in Nat \ {0}
ASSUME MaxClaimsAssumption == MaxClaims \in Nat \ {0}
ASSUME DeadlinesAssumption == Deadlines \subseteq 1 .. MaxClaims

Attempts == 1 .. MaxClaims

\* Mutating requests that an executor signs once; heartbeats have no effect to repeat.
Signed == {"complete", "fail", "cancellation_ack"}
Transaction == Signed \cup {"heartbeat", "claim", "sweep", "cancel"}

VARIABLES
  db,       \* the committed rows: run, stage, attempts and their leases
  late,     \* attempts whose deadline has passed
  sent,     \* the signed requests of an attempt's executor that have arrived
  recorded, \* ExecutorRequest rows: signed requests with a stored response
  audit,    \* audit_events: the predecessor that each event names
  tx,       \* the transactions under way
  effects   \* history: how often a signed request was applied

vars == <<db, late, sent, recorded, audit, tx, effects>>

RunStatus == {"queued", "running", "cancelling", "terminal"}
StageState == {"queued", "leased", "running", "completed", "failed", "cancelled"}
Result == {"none", "cancelled", "failed"}
AttemptState == {"none", "leased", "running", "completed", "failed", "expired", "cancelled"}

\* fresh: the lease is not released and expires_at lies ahead.
Rows ==
  [status : RunStatus, result : Result, stage : StageState,
   attempt : [Attempts -> AttemptState], released : [Attempts -> BOOLEAN],
   fresh : [Attempts -> BOOLEAN]]

ASSUME NoneAssumption ==
  None \notin Nat \cup BOOLEAN \cup RunStatus \cup Result \cup StageState \cup AttemptState

Idle == [kind |-> "idle"]

Init ==
  /\ db = [status |-> "queued", result |-> "none", stage |-> "queued",
           attempt |-> [i \in Attempts |-> "none"], released |-> [i \in Attempts |-> FALSE],
           fresh |-> [i \in Attempts |-> FALSE]]
  /\ late = {}
  /\ sent = [i \in Attempts |-> {}]
  /\ recorded = {}
  /\ audit = <<>>
  /\ tx = [w \in Workers |-> Idle]
  /\ effects = [k \in Attempts \X Signed |-> 0]

Busy(w) == tx[w].kind # "idle"
Lease(i) == <<"lease", i>>

\* Mutant: rows are written and selected without locks.
LockedNever(w) == {}

LockedByOthers(w) == UNION {tx[v].locks : v \in {u \in Workers \ {w} : Busy(u)}}
Held(i) == db.attempt[i] # "none" /\ ~db.released[i]
Count(rows) == Cardinality({i \in Attempts : rows.attempt[i] # "none"})

-----------------------------------------------------------------------------
(* What the handlers make of the rows that they read *)

Expired(rows, i) ==
  LET released == [rows EXCEPT !.released[i] = TRUE]
  IN  IF rows.status = "cancelling"
      THEN [released EXCEPT !.attempt[i] = "cancelled", !.stage = "cancelled",
                            !.status = "terminal", !.result = "cancelled"]
      ELSE IF Count(db) < MaxAttempts
      THEN [released EXCEPT !.attempt[i] = "expired", !.stage = "queued"]
      ELSE [released EXCEPT !.attempt[i] = "expired", !.stage = "failed",
                            !.status = "terminal", !.result = "failed"]

Heartbeat(rows, i) ==
  IF rows.status = "cancelling" THEN rows
  ELSE IF i \in late THEN Expired(rows, i)
  ELSE [rows EXCEPT !.stage = "running", !.attempt[i] = "running"]

Renews(rows, i) == rows.status = "cancelling" \/ i \notin late

CompleteStage(rows, i) ==
  [rows EXCEPT !.stage = "completed", !.attempt[i] = "completed", !.released[i] = TRUE]

FailStage(rows, i) ==
  LET failed == [rows EXCEPT !.attempt[i] = "failed", !.released[i] = TRUE]
  IN  IF Count(db) < MaxAttempts THEN [failed EXCEPT !.stage = "queued"]
      ELSE [failed EXCEPT !.stage = "failed", !.status = "terminal", !.result = "failed"]

CancellationAck(rows, i) ==
  [rows EXCEPT !.stage = "cancelled", !.attempt[i] = "cancelled", !.released[i] = TRUE,
               !.status = "terminal", !.result = "cancelled"]

CancelRun(rows) ==
  IF rows.stage \in {"leased", "running"} THEN [rows EXCEPT !.status = "cancelling"]
  ELSE [rows EXCEPT !.status = "terminal", !.result = "cancelled",
                    !.stage = IF @ = "queued" THEN "cancelled" ELSE @]

ClaimStage(rows) ==
  LET i == Count(db) + 1
  IN  [rows EXCEPT !.stage = "leased", !.status = "running", !.attempt[i] = "leased",
                   !.released[i] = FALSE, !.fresh[i] = TRUE]

Handled(kind, rows, i, overdue) ==
  CASE kind = "heartbeat" -> Heartbeat(rows, i)
    [] kind = "complete" -> CompleteStage(rows, i)
    [] kind = "fail" -> FailStage(rows, i)
    [] kind = "cancellation_ack" -> CancellationAck(rows, i)
    [] kind = "cancel" -> CancelRun(rows)
    [] kind = "claim" -> ClaimStage(rows)
    [] kind = "sweep" -> FoldSet(LAMBDA l, r : Expired(r, l), rows, overdue)

-----------------------------------------------------------------------------
(* The steps of a transaction *)

Begin(w, kind, i, overdue, locks) ==
  /\ ~Busy(w)
  /\ tx' = [tx EXCEPT ![w] = [kind |-> kind, attempt |-> i, overdue |-> overdue, locks |-> locks,
                              read |-> IF kind = "cancel" THEN <<db.status>>
                                       ELSE IF locks = {} THEN <<db.stage, db.attempt[i]>>
                                       ELSE <<>>,
                              writes |-> None, renews |-> FALSE, written |-> FALSE,
                              previous |-> None]]
  /\ UNCHANGED <<db, late, recorded, audit, effects>>

\* validate_lease
Valid(i) == db.fresh[i]

\* Mutant: the keys of requests are not unique.
InFlightNever(i, kind) == FALSE

\* The key of a request is inserted when its transaction begins: a copy waits for the first,
\* and then fails on the unique key or is answered with the stored response.
InFlight(i, kind) == \E w \in Workers : Busy(w) /\ tx[w].kind = kind /\ tx[w].attempt = i

ArriveHeartbeat(w, i) ==
  /\ Valid(i)
  /\ sent[i] = {}
  /\ Begin(w, "heartbeat", i, {}, {})
  /\ UNCHANGED sent

\* A signed request arrives, or one of its copies, which is handled only if none was recorded.
\* An executor completes or acknowledges, and reports a failure if it has no answer.
ArriveSigned(w, i, kind) ==
  /\ Valid(i)
  /\ kind \in sent[i] \cup {"fail"} \/ sent[i] = {}
  /\ <<i, kind>> \notin recorded /\ ~InFlight(i, kind)
  /\ sent' = [sent EXCEPT ![i] = @ \cup {kind}]
  /\ Begin(w, kind, i, {}, {})

ArriveCancel(w) ==
  /\ db.status \in {"queued", "running"}
  /\ Begin(w, "cancel", 1, {}, {})
  /\ UNCHANGED sent

\* FOR UPDATE SKIP LOCKED: the stage, if nobody holds it.  A claim that meets overdue leases
\* sweeps them and finds the stage waiting for its next attempt.  A claim does not look at
\* max_attempts: a stage that a late write queues again is claimed once more.
ArriveClaim(w) ==
  /\ Count(db) < MaxClaims
  /\ db.stage = "queued"
  /\ <<"stage">> \notin LockedByOthers(w)
  /\ Begin(w, "claim", 1, {}, {<<"stage">>})
  /\ UNCHANGED sent

\* Mutant: the sweep reads the leases without locking them.
SelectedUnlocked(w, held) == {}

Selected(w, held) == {Lease(i) : i \in held}

\* FOR UPDATE SKIP LOCKED: the unreleased leases that nobody holds.
ArriveSweep(w) ==
  LET held == {i \in Attempts : Held(i) /\ Lease(i) \notin LockedByOthers(w)}
      overdue == {i \in held : ~db.fresh[i] \/ i \in late}
  IN  /\ overdue # {}
      /\ Begin(w, "sweep", 1, overdue, Selected(w, held))
      /\ UNCHANGED sent

\* What a handler has read when it decides: its first rows as they were, the others as they are.
Read(t) ==
  IF t.read = <<>> THEN db
  ELSE IF t.kind = "cancel" THEN [db EXCEPT !.status = t.read[1], !.result = "none"]
  ELSE [db EXCEPT !.stage = t.read[1], !.attempt[t.attempt] = t.read[2],
                  !.released[t.attempt] = FALSE]

\* The columns that a handler changed.
Changes(read, new) ==
  LET change(old, val) == IF val = old THEN None ELSE val
      each(old, val) == [i \in Attempts |-> change(old[i], val[i])]
  IN  [status |-> change(read.status, new.status), result |-> change(read.result, new.result),
       stage |-> change(read.stage, new.stage), attempt |-> each(read.attempt, new.attempt),
       released |-> each(read.released, new.released), fresh |-> each(read.fresh, new.fresh)]

Decide(w) ==
  LET t == tx[w]
      rows == Read(t)
  IN  /\ Busy(w) /\ t.writes = None
      /\ t.kind = "cancellation_ack" => rows.status = "cancelling"
      /\ tx' = [tx EXCEPT ![w].read = <<>>,
                          ![w].writes = Changes(rows, Handled(t.kind, rows, t.attempt, t.overdue)),
                          ![w].renews = t.kind = "heartbeat" /\ Renews(rows, t.attempt)]
      /\ UNCHANGED <<db, late, sent, recorded, audit, effects>>

\* The rows with a changed column.
Touched(t) ==
  {r \in {<<"run">>} : t.writes.status # None \/ t.writes.result # None}
    \cup {r \in {<<"stage">>} : t.writes.stage # None}
    \cup {<<"attempt", i>> : i \in {j \in Attempts : t.writes.attempt[j] # None}}
    \cup {Lease(i) : i \in {j \in Attempts : \/ t.writes.released[j] # None
                                             \/ t.renews /\ j = t.attempt}}

\* Mutant: the last event is read without the lock.
AuditUnlocked(w) == TRUE

AuditFree(w) == \A v \in Workers : Busy(v) => tx[v].previous = None

\* All but the heartbeats that renew a lease leave an event.
Audited(t) == ~t.renews

\* The rows are written, which waits for those that another transaction holds, and append_audit
\* takes its lock and reads the last event.
Write(w) ==
  LET t == tx[w]
  IN  /\ Busy(w) /\ t.writes # None /\ ~t.written
      /\ Touched(t) \cap LockedByOthers(w) = {}
      /\ Audited(t) => AuditFree(w)
      /\ tx' = [tx EXCEPT ![w].written = TRUE, ![w].locks = @ \cup Touched(t),
                          ![w].previous = IF Audited(t) THEN Len(audit) ELSE None]
      /\ UNCHANGED <<db, late, sent, recorded, audit, effects>>

\* Only the columns that a handler changed are written, over whatever they hold by now.
Written(t) ==
  LET over(now, val) == IF val = None THEN now ELSE val
      each(now, val) == [i \in Attempts |-> over(now[i], val[i])]
  IN  [status |-> over(db.status, t.writes.status), result |-> over(db.result, t.writes.result),
       stage |-> over(db.stage, t.writes.stage), attempt |-> each(db.attempt, t.writes.attempt),
       released |-> each(db.released, t.writes.released),
       fresh |-> [i \in Attempts |->
                    /\ ~over(db.released[i], t.writes.released[i])
                    /\ over(db.fresh[i], t.writes.fresh[i]) \/ (t.renews /\ i = t.attempt)]]

Commit(w) ==
  LET t == tx[w]
      key == <<t.attempt, t.kind>>
  IN  /\ Busy(w) /\ t.written
      /\ db' = Written(t)
      /\ audit' = IF t.previous = None THEN audit ELSE Append(audit, t.previous)
      /\ IF t.kind \in Signed
         THEN /\ recorded' = recorded \cup {key}
              /\ effects' = [effects EXCEPT ![key] = @ + 1]
         ELSE UNCHANGED <<recorded, effects>>
      /\ tx' = [tx EXCEPT ![w] = Idle]
      /\ UNCHANGED <<late, sent>>

\* A refusal, an error, the victim of a deadlock, or the end of the server.
Abort(w) ==
  /\ Busy(w)
  /\ tx' = [tx EXCEPT ![w] = Idle]
  /\ UNCHANGED <<db, late, sent, recorded, audit, effects>>

-----------------------------------------------------------------------------
(* The clock *)

LeaseLapses(i) ==
  /\ db.fresh[i]
  /\ db' = [db EXCEPT !.fresh[i] = FALSE]
  /\ UNCHANGED <<late, sent, recorded, audit, tx, effects>>

DeadlinePasses(i) ==
  /\ Held(i) /\ i \in Deadlines \ late
  /\ late' = late \cup {i}
  /\ UNCHANGED <<db, sent, recorded, audit, tx, effects>>

Step(w) == Decide(w) \/ Write(w) \/ Commit(w) \/ Abort(w)

Arrives(w) ==
  \/ \E i \in Attempts : ArriveHeartbeat(w, i)
  \/ \E i \in Attempts, kind \in Signed : ArriveSigned(w, i, kind)
  \/ ArriveCancel(w)
  \/ ArriveClaim(w)
  \/ ArriveSweep(w)

Next ==
  \/ \E w \in Workers : Arrives(w) \/ Step(w)
  \/ \E i \in Attempts : LeaseLapses(i) \/ DeadlinePasses(i)

Spec == Init /\ [][Next]_vars

-----------------------------------------------------------------------------
(* Properties *)

\* The rows keep their types, and no two transactions hold one row.
TypeOK ==
  /\ db \in Rows
  /\ late \subseteq Attempts
  /\ sent \in [Attempts -> SUBSET Signed]
  /\ recorded \subseteq Attempts \X Signed
  /\ \A w \in Workers : Busy(w) => tx[w].kind \in Transaction
  /\ \A v, w \in Workers : v # w /\ Busy(v) /\ Busy(w) => tx[v].locks \cap tx[w].locks = {}

\* A signed request takes effect at most once, however many of its copies arrive, also while
\* the first is being handled (signed_request, verify_stage_mutation).
EffectOnce == \A k \in Attempts \X Signed : effects[k] <= 1

\* Each event of the audit chain names the event before it: concurrent handlers leave one
\* chain (append_audit).
AuditLinear == \A n \in DOMAIN audit : audit[n] = n - 1

\* The sweep ends no lease that was renewed, released or handed on after it was selected
\* (expire_leases).
SweepEndsOverdue ==
  [][\A w \in Workers :
       Busy(w) /\ tx[w].kind = "sweep" /\ Len(audit') > Len(audit) /\ ~Busy(w)' =>
         \A i \in tx[w].overdue : Held(i) /\ (~db.fresh[i] \/ i \in late)]_vars

-----------------------------------------------------------------------------
(* Said of the code by its documents or comments, and not kept (README) *)

\* "Final cancellation also cancels queued and waiting dependents": nothing executes for a
\* cancelled run.  A claim that commits while cancel_run waits with what it read does.
CancelledRunStops == db.result = "cancelled" => \A i \in Attempts : ~Held(i)

\* "if it dies the lease expires and the stage is re-queued": a stage that is leased or running
\* has a lease that the sweep can end.  A first heartbeat that was validated before a failure or
\* a sweep released its lease sets the stage running after it.
StageHeld == db.stage \in {"leased", "running"} => \E i \in Attempts : Held(i)

\* max_attempts bounds the attempts of a stage, as it does in RunPipeline, where a handler is
\* one step.  A failure that decided to retry, and commits after a sweep and a claim of the next
\* attempt, queues the stage once more.
AttemptBudget == Count(db) <= MaxAttempts

=============================================================================
