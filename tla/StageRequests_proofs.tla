------------------------- MODULE StageRequests_proofs -------------------------
(***************************************************************************)
(* Proofs about StageRequests, for any number of sessions, attempts and    *)
(* copies of a request.  A transaction decides from rows that it read, and *)
(* commits columns over whatever they hold by then, so the invariant says  *)
(* of each transaction what its locks, its reservation of a key and its    *)
(* reading of the audit chain protect until it ends.                       *)
(***************************************************************************)
EXTENDS StageRequests, FiniteSetTheorems, WellFoundedInduction, TLAPS

-----------------------------------------------------------------------------
(* The fold of a sweep.  The library's rule of induction is out of the       *)
(* provers' reach, so both proofs take a least counterexample.               *)

Least(S) == CHOOSE i \in S : TRUE

\* f maps each set of leases to what a sweep of them makes of the rows.
Unfolds(f, rows, D) ==
  f = [S \in D |-> IF S = {} THEN rows ELSE Expired(f[S \ {Least(S)}], Least(S))]

UpTo(S, n) == {U \in SUBSET S : Cardinality(U) <= n}

LEMMA LeastNumber ==
  ASSUME NEW T, T \subseteq Nat, T # {}
  PROVE  \E m \in T : \A n \in T : m <= n
<1>1. PICK m \in T : \A n \in T : ~(<<n, m>> \in OpToRel(<, Nat))
  BY WFMin, NatLessThanWellFounded, Zenon
<1>2. \A n \in T : <<n, m>> \in Nat \X Nat /\ <<n, m>>[1] = n /\ <<n, m>>[2] = m
  OBVIOUS
<1>3. \A n \in T : ~(n < m)
  BY <1>1, <1>2, Zenon DEF OpToRel
<1> QED  BY <1>3

\* One lease less.
LEMMA OneLess ==
  ASSUME NEW S, IsFiniteSet(S), NEW n \in Nat, NEW U \in UpTo(S, n), U # {}
  PROVE  /\ n > 0 /\ Least(U) \in U /\ U \ {Least(U)} \in UpTo(S, n - 1)
<1>1. IsFiniteSet(U) /\ Least(U) \in U
  BY FS_Subset DEF UpTo, Least
<1>2. Cardinality(U \ {Least(U)}) = Cardinality(U) - 1 /\ Cardinality(U) \in Nat
  BY <1>1, FS_RemoveElement, FS_CardinalityType
<1>3. Cardinality(U \ {Least(U)}) \in Nat
  BY <1>1, FS_RemoveElement, FS_CardinalityType
<1> QED  BY <1>1, <1>2, <1>3 DEF UpTo

\* Leases can be swept one after the other.
LEMMA SweepExists ==
  ASSUME NEW S, IsFiniteSet(S), NEW rows, NEW n \in Nat
  PROVE  \E f : Unfolds(f, rows, UpTo(S, n))
<1> DEFINE T == {k \in Nat : ~\E f : Unfolds(f, rows, UpTo(S, k))}
<1> SUFFICES ASSUME T # {} PROVE FALSE
  OBVIOUS
<1>1. PICK m \in T : \A k \in T : m <= k
  BY LeastNumber
<1>2. CASE m = 0
  <2> DEFINE g == [U \in UpTo(S, 0) |-> rows]
  <2>1. ASSUME NEW U \in UpTo(S, 0), U # {} PROVE FALSE
    <3>1. 0 \in Nat /\ ~(0 > 0)
      OBVIOUS
    <3> QED  BY <2>1, <3>1, OneLess
  <2>2. Unfolds(g, rows, UpTo(S, 0))
    BY <2>1 DEF Unfolds
  <2> QED  BY <1>2, <2>2
<1>3. CASE m # 0
  <2>1. m - 1 \in Nat /\ m - 1 \notin T
    BY <1>1, <1>3
  <2>2. PICK f : Unfolds(f, rows, UpTo(S, m - 1))
    BY <2>1
  <2> DEFINE Next1(h, U) == IF U = {} THEN rows ELSE Expired(h[U \ {Least(U)}], Least(U))
             g == [U \in UpTo(S, m) |-> Next1(f, U)]
  <2>3. \A U \in UpTo(S, m) : U # {} => g[U \ {Least(U)}] = f[U \ {Least(U)}]
    <3> SUFFICES ASSUME NEW U \in UpTo(S, m), U # {}
                 PROVE  g[U \ {Least(U)}] = f[U \ {Least(U)}]
      OBVIOUS
    <3> DEFINE V == U \ {Least(U)}
    <3>1. V \in UpTo(S, m - 1)
      BY OneLess
    <3>2. V \in UpTo(S, m)
      BY <3>1, <2>1, FS_Subset, FS_CardinalityType DEF UpTo
    <3>3. f[V] = Next1(f, V)
      BY <2>2, <3>1 DEF Unfolds
    <3> QED  BY <3>2, <3>3
  <2>4. \A U \in UpTo(S, m) : Next1(f, U) = Next1(g, U)
    BY <2>3
  <2>5. g = [U \in UpTo(S, m) |-> Next1(g, U)]
    BY <2>4
  <2>6. Unfolds(g, rows, UpTo(S, m))
    BY <2>5 DEF Unfolds
  <2> QED  BY <2>6
<1> QED  BY <1>2, <1>3

Swept(rows, overdue) == FoldSet(LAMBDA l, r : Expired(r, l), rows, overdue)

\* What a sweep makes of the rows is found lease by lease.
LEMMA SweepUnfolds ==
  ASSUME NEW rows, NEW overdue, IsFiniteSet(overdue)
  PROVE  \E f : Unfolds(f, rows, SUBSET overdue) /\ Swept(rows, overdue) = f[overdue]
<1>1. Swept(rows, overdue) = (CHOOSE f : Unfolds(f, rows, SUBSET overdue))[overdue]
  BY DEF Swept, FoldSet, MapThenFoldSet, Unfolds, Least
<1>2. UpTo(overdue, Cardinality(overdue)) = SUBSET overdue
  BY FS_Subset DEF UpTo
<1>3. PICK n \in Nat : n = Cardinality(overdue)
  BY FS_CardinalityType
<1>4. \E f : Unfolds(f, rows, UpTo(overdue, n))
  BY SweepExists
<1> QED  BY <1>1, <1>2, <1>3, <1>4

-----------------------------------------------------------------------------
(* What the handlers make of the rows *)

\* What a handler may make of the rows that it read: it ends or starts the attempts in hands,
\* and only a claim sets a lease's expiry.
Makes(rows, new, hands) ==
  /\ new \in Rows
  /\ new.fresh = rows.fresh
  /\ \A j \in Attempts : j \notin hands => new.attempt[j] = rows.attempt[j]
  /\ \A j \in hands : new.attempt[j] # "none"

LEMMA RowsFields ==
  ASSUME NEW r \in Rows
  PROVE  /\ r.status \in RunStatus /\ r.result \in Result /\ r.stage \in StageState
         /\ r.attempt \in [Attempts -> AttemptState] /\ r.released \in [Attempts -> BOOLEAN]
         /\ r.fresh \in [Attempts -> BOOLEAN]
         /\ r = [status |-> r.status, result |-> r.result, stage |-> r.stage,
                 attempt |-> r.attempt, released |-> r.released, fresh |-> r.fresh]
BY DEF Rows

LEMMA RowsMade ==
  ASSUME NEW st \in RunStatus, NEW re \in Result, NEW sg \in StageState,
         NEW at \in [Attempts -> AttemptState], NEW rl \in [Attempts -> BOOLEAN],
         NEW fr \in [Attempts -> BOOLEAN]
  PROVE  [status |-> st, result |-> re, stage |-> sg, attempt |-> at, released |-> rl,
          fresh |-> fr] \in Rows
BY DEF Rows

\* Each handler's rows, field by field: the attempt that it is about gets a new state.
LEMMA OneAttempt ==
  ASSUME NEW rows \in Rows, NEW i \in Attempts, NEW a \in AttemptState \ {"none"},
         NEW st \in RunStatus, NEW re \in Result, NEW sg \in StageState,
         NEW rl \in [Attempts -> BOOLEAN],
         NEW new, new = [status |-> st, result |-> re, stage |-> sg,
                         attempt |-> [rows.attempt EXCEPT ![i] = a], released |-> rl,
                         fresh |-> rows.fresh]
  PROVE  Makes(rows, new, {i})
<1>1. [rows.attempt EXCEPT ![i] = a] \in [Attempts -> AttemptState]
  BY RowsFields
<1>2. new \in Rows
  BY <1>1, RowsFields, RowsMade
<1>3. new.attempt = [rows.attempt EXCEPT ![i] = a] /\ new.fresh = rows.fresh
  OBVIOUS
<1> QED  BY <1>2, <1>3, RowsFields DEF Makes

LEMMA ExpiredMakes ==
  ASSUME NEW rows \in Rows, NEW i \in Attempts
  PROVE  Makes(rows, Expired(rows, i), {i})
<1> DEFINE rl == [rows.released EXCEPT ![i] = TRUE]
           made(st, re, sg, a) ==
             [status |-> st, result |-> re, stage |-> sg,
              attempt |-> [rows.attempt EXCEPT ![i] = a], released |-> rl, fresh |-> rows.fresh]
<1>1. rl \in [Attempts -> BOOLEAN]
  BY RowsFields
<1>2. Expired(rows, i) \in {made("terminal", "cancelled", "cancelled", "cancelled"),
                            made(rows.status, rows.result, "queued", "expired"),
                            made("terminal", "failed", "failed", "expired")}
  <2>1. PICK r : r = [rows EXCEPT !.released[i] = TRUE]
    OBVIOUS
  <2>2. r = [status |-> rows.status, result |-> rows.result, stage |-> rows.stage,
             attempt |-> rows.attempt, released |-> rl, fresh |-> rows.fresh]
    <3>1. r = [rows EXCEPT !.released = rl]
      BY <2>1
    <3> HIDE DEF rl
    <3> QED  BY <3>1, RowsFields
  <2>3. CASE rows.status = "cancelling"
    <3>1. Expired(rows, i) = [r EXCEPT !.attempt[i] = "cancelled", !.stage = "cancelled",
                                       !.status = "terminal", !.result = "cancelled"]
      BY <2>1, <2>3 DEF Expired
    <3> HIDE DEF rl
    <3> QED  BY <2>2, <3>1
  <2>4. CASE rows.status # "cancelling" /\ Count(db) < MaxAttempts
    <3>1. Expired(rows, i) = [r EXCEPT !.attempt[i] = "expired", !.stage = "queued"]
      BY <2>1, <2>4 DEF Expired
    <3> HIDE DEF rl
    <3> QED  BY <2>2, <3>1
  <2>5. CASE rows.status # "cancelling" /\ ~(Count(db) < MaxAttempts)
    <3>1. Expired(rows, i) = [r EXCEPT !.attempt[i] = "expired", !.stage = "failed",
                                       !.status = "terminal", !.result = "failed"]
      BY <2>1, <2>5 DEF Expired
    <3> HIDE DEF rl
    <3> QED  BY <2>2, <3>1
  <2> QED  BY <2>3, <2>4, <2>5
<1>3. {"terminal", rows.status} \subseteq RunStatus
      /\ {"cancelled", "failed", rows.result} \subseteq Result
      /\ {"cancelled", "queued", "failed"} \subseteq StageState
      /\ {"cancelled", "expired"} \subseteq AttemptState \ {"none"}
  BY RowsFields DEF RunStatus, Result, StageState, AttemptState
<1> HIDE DEF rl
<1>4. Makes(rows, made("terminal", "cancelled", "cancelled", "cancelled"), {i})
  BY <1>1, <1>3, OneAttempt
<1>5. Makes(rows, made(rows.status, rows.result, "queued", "expired"), {i})
  BY <1>1, <1>3, OneAttempt
<1>6. Makes(rows, made("terminal", "failed", "failed", "expired"), {i})
  BY <1>1, <1>3, OneAttempt
<1> QED  BY <1>2, <1>4, <1>5, <1>6

\* A sweep ends the leases that it selected, and nothing else.
LEMMA SweptMakes ==
  ASSUME NEW rows \in Rows, NEW overdue \in SUBSET Attempts
  PROVE  Makes(rows, Swept(rows, overdue), overdue)
<1>1. IsFiniteSet(overdue)
  <2>1. IsFiniteSet(1 .. MaxClaims)
    BY FS_Interval, MaxClaimsAssumption
  <2> QED  BY <2>1, FS_Subset DEF Attempts
<1>2. PICK f : Unfolds(f, rows, SUBSET overdue) /\ Swept(rows, overdue) = f[overdue]
  BY <1>1, SweepUnfolds
<1> DEFINE T == {n \in Nat : ~\A U \in UpTo(overdue, n) : Makes(rows, f[U], U)}
<1>3. T = {}
  <2> SUFFICES ASSUME T # {} PROVE FALSE
    OBVIOUS
  <2>1. PICK m \in T : \A n \in T : m <= n
    BY LeastNumber
  <2>2. PICK U \in UpTo(overdue, m) : ~Makes(rows, f[U], U)
    BY <2>1
  <2>3. U \in SUBSET overdue
    BY DEF UpTo
  <2>4. U # {}
    <3>1. ASSUME U = {} PROVE f[U] = rows
      BY <1>2, <2>3, <3>1 DEF Unfolds
    <3> QED  BY <2>2, <3>1 DEF Makes
  <2>5. m > 0 /\ Least(U) \in U /\ U \ {Least(U)} \in UpTo(overdue, m - 1)
    BY <1>1, <2>1, <2>4, OneLess
  <2>6. m - 1 \in Nat /\ m - 1 \notin T
    BY <2>1, <2>5
  <2>7. Makes(rows, f[U \ {Least(U)}], U \ {Least(U)})
    BY <2>5, <2>6
  <2>8. f[U] = Expired(f[U \ {Least(U)}], Least(U))
    BY <1>2, <2>3, <2>4 DEF Unfolds
  <2>9. Makes(f[U \ {Least(U)}], f[U], {Least(U)})
    <3>1. f[U \ {Least(U)}] \in Rows /\ Least(U) \in Attempts
      BY <2>3, <2>5, <2>7 DEF Makes
    <3> QED  BY <2>8, <3>1, ExpiredMakes
  <2> QED  BY <2>2, <2>3, <2>5, <2>7, <2>9 DEF Makes
<1>4. PICK n \in Nat : n = Cardinality(overdue)
  BY <1>1, FS_CardinalityType
<1>5. overdue \in UpTo(overdue, n)
  BY <1>4 DEF UpTo
<1> QED  BY <1>2, <1>3, <1>4, <1>5

Executor == Signed \cup {"heartbeat"}

\* The attempts whose state a handler other than a claim may change.
Hands(kind, i, overdue) ==
  IF kind = "sweep" THEN overdue ELSE IF kind = "cancel" THEN {} ELSE {i}

\* The handlers that change the state of one attempt and release its lease.
LEMMA EndedMakes ==
  ASSUME NEW rows \in Rows, NEW i \in Attempts
  PROVE  /\ Makes(rows, CompleteStage(rows, i), {i})
         /\ Makes(rows, FailStage(rows, i), {i})
         /\ Makes(rows, CancellationAck(rows, i), {i})
<1> DEFINE rl == [rows.released EXCEPT ![i] = TRUE]
           made(st, re, sg, a) ==
             [status |-> st, result |-> re, stage |-> sg,
              attempt |-> [rows.attempt EXCEPT ![i] = a], released |-> rl, fresh |-> rows.fresh]
<1>1. rl \in [Attempts -> BOOLEAN]
  BY RowsFields
<1>11. PICK co, ca, fa : /\ co = [rows.attempt EXCEPT ![i] = "completed"]
                         /\ ca = [rows.attempt EXCEPT ![i] = "cancelled"]
                         /\ fa = [rows.attempt EXCEPT ![i] = "failed"]
  OBVIOUS
<1>12. PICK failed : failed = [rows EXCEPT !.attempt = fa, !.released = rl]
  OBVIOUS
<1>2. /\ CompleteStage(rows, i) =
           [rows EXCEPT !.stage = "completed", !.attempt = co, !.released = rl]
      /\ CancellationAck(rows, i) =
           [rows EXCEPT !.stage = "cancelled", !.attempt = ca, !.released = rl,
                        !.status = "terminal", !.result = "cancelled"]
      /\ FailStage(rows, i) =
           IF Count(db) < MaxAttempts THEN [failed EXCEPT !.stage = "queued"]
           ELSE [failed EXCEPT !.stage = "failed", !.status = "terminal", !.result = "failed"]
  BY <1>11, <1>12 DEF CompleteStage, CancellationAck, FailStage
<1>3. /\ {"terminal", rows.status} \subseteq RunStatus
      /\ {"cancelled", "failed", rows.result} \subseteq Result
      /\ {"cancelled", "completed", "queued", "failed"} \subseteq StageState
      /\ {"cancelled", "completed", "failed"} \subseteq AttemptState \ {"none"}
  BY RowsFields DEF RunStatus, Result, StageState, AttemptState
<1> HIDE DEF rl
<1>4. CompleteStage(rows, i) = made(rows.status, rows.result, "completed", "completed")
  BY <1>2, <1>11, RowsFields
<1>5. CancellationAck(rows, i) = made("terminal", "cancelled", "cancelled", "cancelled")
  BY <1>2, <1>11, RowsFields
<1>6. FailStage(rows, i) \in {made(rows.status, rows.result, "queued", "failed"),
                              made("terminal", "failed", "failed", "failed")}
  <2>1. failed = [status |-> rows.status, result |-> rows.result, stage |-> rows.stage,
                  attempt |-> fa, released |-> rl, fresh |-> rows.fresh]
    BY <1>12 DEF Rows
  <2>2. CASE Count(db) < MaxAttempts
    BY <1>2, <1>11, <2>1, <2>2
  <2>3. CASE ~(Count(db) < MaxAttempts)
    BY <1>2, <1>11, <2>1, <2>3
  <2> QED  BY <2>2, <2>3
<1>7. Makes(rows, made(rows.status, rows.result, "completed", "completed"), {i})
  BY <1>1, <1>3, OneAttempt
<1>8. Makes(rows, made("terminal", "cancelled", "cancelled", "cancelled"), {i})
  BY <1>1, <1>3, OneAttempt
<1>9. Makes(rows, made(rows.status, rows.result, "queued", "failed"), {i})
  BY <1>1, <1>3, OneAttempt
<1>10. Makes(rows, made("terminal", "failed", "failed", "failed"), {i})
  BY <1>1, <1>3, OneAttempt
<1> QED  BY <1>4, <1>5, <1>6, <1>7, <1>8, <1>9, <1>10

LEMMA HeartbeatMakes ==
  ASSUME NEW rows \in Rows, NEW i \in Attempts, rows.attempt[i] # "none"
  PROVE  Makes(rows, Heartbeat(rows, i), {i})
<1>1. CASE rows.status = "cancelling"
  BY <1>1 DEF Heartbeat, Makes
<1>2. CASE rows.status # "cancelling" /\ i \in late
  BY <1>2, ExpiredMakes DEF Heartbeat
<1>3. CASE rows.status # "cancelling" /\ i \notin late
  <2>1. Heartbeat(rows, i) =
          [status |-> rows.status, result |-> rows.result, stage |-> "running",
           attempt |-> [rows.attempt EXCEPT ![i] = "running"], released |-> rows.released,
           fresh |-> rows.fresh]
    <3>1. PICK at : at = [rows.attempt EXCEPT ![i] = "running"]
      OBVIOUS
    <3>2. Heartbeat(rows, i) = [rows EXCEPT !.stage = "running", !.attempt = at]
      BY <1>3, <3>1 DEF Heartbeat
    <3> QED  BY <3>1, <3>2, RowsFields
  <2>2. "running" \in StageState /\ "running" \in AttemptState \ {"none"}
    BY DEF StageState, AttemptState
  <2> QED  BY <2>1, <2>2, RowsFields, OneAttempt
<1> QED  BY <1>1, <1>2, <1>3

LEMMA CancelMakes ==
  ASSUME NEW rows \in Rows
  PROVE  Makes(rows, CancelRun(rows), {})
<1> DEFINE made(st, re, sg) ==
             [status |-> st, result |-> re, stage |-> sg, attempt |-> rows.attempt,
              released |-> rows.released, fresh |-> rows.fresh]
<1>1. CancelRun(rows) \in {made("cancelling", rows.result, rows.stage),
                           made("terminal", "cancelled", "cancelled"),
                           made("terminal", "cancelled", rows.stage)}
  <2>1. CASE rows.stage \in {"leased", "running"}
    BY <2>1, RowsFields DEF CancelRun
  <2>2. CASE rows.stage = "queued"
    <3>1. CancelRun(rows) = [rows EXCEPT !.status = "terminal", !.result = "cancelled",
                                         !.stage = "cancelled"]
      BY <2>2, RowsFields DEF CancelRun
    <3> QED  BY <3>1, RowsFields
  <2>3. CASE rows.stage \notin {"leased", "running", "queued"}
    <3>1. CancelRun(rows) = [rows EXCEPT !.status = "terminal", !.result = "cancelled",
                                         !.stage = rows.stage]
      BY <2>3, RowsFields DEF CancelRun
    <3> QED  BY <3>1, RowsFields
  <2> QED  BY <2>1, <2>2, <2>3
<1>2. /\ {"cancelling", "terminal"} \subseteq RunStatus
      /\ "cancelled" \in Result /\ "cancelled" \in StageState
  BY DEF RunStatus, Result, StageState
<1>3. CancelRun(rows) \in Rows
  BY <1>1, <1>2, RowsFields, RowsMade
<1>4. CancelRun(rows).attempt = rows.attempt /\ CancelRun(rows).fresh = rows.fresh
  BY <1>1
<1> QED  BY <1>3, <1>4 DEF Makes

LEMMA HandledMakes ==
  ASSUME NEW rows \in Rows, NEW kind \in Transaction \ {"claim"}, NEW i \in Attempts,
         NEW overdue \in SUBSET Attempts, kind \in Executor => rows.attempt[i] # "none"
  PROVE  Makes(rows, Handled(kind, rows, i, overdue), Hands(kind, i, overdue))
<1>1. CASE kind = "sweep"
  BY <1>1, SweptMakes DEF Handled, Swept, Hands
<1>2. CASE kind = "cancel"
  BY <1>2, CancelMakes DEF Handled, Hands
<1>3. CASE kind = "heartbeat"
  BY <1>3, HeartbeatMakes DEF Handled, Hands, Executor
<1>4. CASE kind = "complete"
  BY <1>4, EndedMakes DEF Handled, Hands
<1>5. CASE kind = "fail"
  BY <1>5, EndedMakes DEF Handled, Hands
<1>6. CASE kind = "cancellation_ack"
  BY <1>6, EndedMakes DEF Handled, Hands
<1> QED  BY <1>1, <1>2, <1>3, <1>4, <1>5, <1>6 DEF Transaction, Signed

\* A claim starts the next attempt, and gives it a lease.
LEMMA ClaimMakes ==
  ASSUME NEW rows \in Rows, Count(db) + 1 \in Attempts, NEW i, NEW overdue
  PROVE  /\ Handled("claim", rows, i, overdue) \in Rows
         /\ \A j \in Attempts :
              /\ Handled("claim", rows, i, overdue).attempt[j] =
                   IF j = Count(db) + 1 THEN "leased" ELSE rows.attempt[j]
              /\ j # Count(db) + 1 =>
                   Handled("claim", rows, i, overdue).fresh[j] = rows.fresh[j]
              /\ j = Count(db) + 1 => Handled("claim", rows, i, overdue).fresh[j]
<1>1. PICK n \in Attempts : n = Count(db) + 1
  OBVIOUS
<1>2. PICK at, rl, fr : /\ at = [rows.attempt EXCEPT ![n] = "leased"]
                        /\ rl = [rows.released EXCEPT ![n] = FALSE]
                        /\ fr = [rows.fresh EXCEPT ![n] = TRUE]
  OBVIOUS
<1>3. Handled("claim", rows, i, overdue) =
        [rows EXCEPT !.stage = "leased", !.status = "running", !.attempt = at,
                     !.released = rl, !.fresh = fr]
  BY <1>1, <1>2 DEF Handled, ClaimStage
<1>4. "leased" \in StageState /\ "running" \in RunStatus /\ "leased" \in AttemptState
  BY DEF StageState, RunStatus, AttemptState
<1>5. /\ at \in [Attempts -> AttemptState] /\ rl \in [Attempts -> BOOLEAN]
      /\ fr \in [Attempts -> BOOLEAN]
  BY <1>2, <1>4, RowsFields
<1>6. Handled("claim", rows, i, overdue) =
        [status |-> "running", result |-> rows.result, stage |-> "leased", attempt |-> at,
         released |-> rl, fresh |-> fr]
  BY <1>3, RowsFields
<1>7. Handled("claim", rows, i, overdue) \in Rows
  BY <1>4, <1>5, <1>6, RowsFields, RowsMade
<1>8. \A j \in Attempts : at[j] = IF j = n THEN "leased" ELSE rows.attempt[j]
  BY <1>2, RowsFields
<1>9. fr[n] /\ \A j \in Attempts : j # n => fr[j] = rows.fresh[j]
  BY <1>2, RowsFields
<1>10. /\ Handled("claim", rows, i, overdue).attempt = at
       /\ Handled("claim", rows, i, overdue).fresh = fr
  BY <1>6
<1> QED  BY <1>1, <1>7, <1>8, <1>9, <1>10

-----------------------------------------------------------------------------
(* The inductive invariant *)

Option(S) == S \cup {None}

ChangeSet ==
  [status : Option(RunStatus), result : Option(Result), stage : Option(StageState),
   attempt : [Attempts -> Option(AttemptState)], released : [Attempts -> Option(BOOLEAN)],
   fresh : [Attempts -> Option(BOOLEAN)]]

\* A transaction under way.
Txn(t) ==
  /\ t = [kind |-> t.kind, attempt |-> t.attempt, overdue |-> t.overdue, locks |-> t.locks,
          read |-> t.read, writes |-> t.writes, renews |-> t.renews, written |-> t.written,
          previous |-> t.previous]
  /\ t.kind \in Transaction /\ t.attempt \in Attempts /\ t.overdue \in SUBSET Attempts
  /\ t.writes # None => t.writes \in ChangeSet
  /\ t.renews \in BOOLEAN /\ t.written \in BOOLEAN /\ t.previous \in Option(Nat)
  /\ t.renews => t.kind = "heartbeat"
  /\ t.read # <<>> => IF t.kind = "cancel" THEN t.read[1] \in RunStatus
                      ELSE /\ t.kind \in Executor /\ t.read[1] \in StageState
                           /\ t.read[2] \in AttemptState \ {"none"}

TypeInv ==
  /\ db \in Rows
  /\ late \subseteq Attempts
  /\ sent \in [Attempts -> SUBSET Signed]
  /\ recorded \subseteq Attempts \X Signed
  /\ audit \in Seq(Nat)
  /\ effects \in [Attempts \X Signed -> Nat]
  /\ tx = [w \in Workers |-> tx[w]]
  /\ \A w \in Workers : tx[w] = Idle \/ Txn(tx[w])

\* No row is held twice.  A claim holds the stage and a sweep the leases that it selected from
\* the beginning, every transaction what it wrote.
LockInv ==
  /\ \A v, w \in Workers : v # w /\ Busy(v) /\ Busy(w) => tx[v].locks \cap tx[w].locks = {}
  /\ \A w \in Workers : Busy(w) =>
       /\ tx[w].kind = "claim" => <<"stage">> \in tx[w].locks
       /\ tx[w].kind = "sweep" => \A i \in tx[w].overdue : Lease(i) \in tx[w].locks
       /\ tx[w].written => tx[w].writes # None /\ Touched(tx[w]) \subseteq tx[w].locks

Key(t) == <<t.attempt, t.kind>>

\* A request that was recorded took effect once; one under way was not recorded, and has no
\* copy under way.
OnceInv ==
  /\ \A k \in Attempts \X Signed : effects[k] = IF k \in recorded THEN 1 ELSE 0
  /\ \A w \in Workers : Busy(w) /\ tx[w].kind \in Signed =>
       /\ Key(tx[w]) \notin recorded
       /\ \A v \in Workers \ {w} : Busy(v) => Key(tx[v]) # Key(tx[w])

\* Who has read the last event is alone with it.
ChainInv ==
  /\ AuditLinear
  /\ \A w \in Workers : Busy(w) /\ tx[w].previous # None =>
       /\ tx[w].previous = Len(audit)
       /\ \A v \in Workers \ {w} : Busy(v) => tx[v].previous = None

\* What a transaction will write of the attempts: a claim the next one, the others only attempts
\* that exist.
WritesFit(t) ==
  t.writes # None =>
    \A j \in Attempts :
      /\ t.writes.attempt[j] # "none"
      /\ t.kind # "claim" =>
           /\ t.writes.fresh[j] = None
           /\ t.writes.attempt[j] # None => db.attempt[j] # "none"
      /\ t.kind = "claim" =>
           IF j = Count(db) + 1 THEN t.writes.attempt[j] = "leased"
           ELSE t.writes.attempt[j] = None /\ t.writes.fresh[j] = None

Overdue(i) == Held(i) /\ (~db.fresh[i] \/ i \in late)

\* The attempts are numbered without gaps, only one that exists has a lease, and what a
\* transaction is about stays: the leases of a sweep are overdue until it ends.
RowsInv ==
  /\ Count(db) \in 0 .. MaxClaims
  /\ \A i \in Attempts : db.attempt[i] # "none" <=> i <= Count(db)
  /\ \A i \in Attempts : db.fresh[i] => db.attempt[i] # "none"
  /\ \A w \in Workers : Busy(w) =>
       /\ tx[w].kind \in Executor => db.attempt[tx[w].attempt] # "none"
       /\ tx[w].kind = "claim" => Count(db) < MaxClaims
       /\ tx[w].kind = "sweep" => \A i \in tx[w].overdue : Overdue(i)
       /\ WritesFit(tx[w])

IInv == TypeInv /\ LockInv /\ OnceInv /\ ChainInv /\ RowsInv

-----------------------------------------------------------------------------
(* Lemmas about the state *)

LEMMA Underway ==
  ASSUME TypeInv, NEW w \in Workers, Busy(w)
  PROVE  Txn(tx[w])
BY DEF TypeInv, Busy, Idle

\* One transaction begins, goes on or ends.
Becomes(w, t) == tx' = [tx EXCEPT ![w] = t]

LEMMA OthersGoOn ==
  ASSUME TypeInv, NEW w \in Workers, NEW t, Becomes(w, t)
  PROVE  /\ tx'[w] = t
         /\ \A v \in Workers : v # w => tx'[v] = tx[v] /\ Busy(v)' = Busy(v)
         /\ Busy(w)' = (t.kind # "idle")
         /\ tx' = [v \in Workers |-> tx'[v]]
BY DEF TypeInv, Becomes, Busy

LEMMA NotLocked ==
  ASSUME NEW w \in Workers, NEW S, S \cap LockedByOthers(w) = {},
         NEW v \in Workers, v # w, Busy(v)
  PROVE  S \cap tx[v].locks = {}
BY DEF LockedByOthers

\* The attempts that exist, counted.
LEMMA Counted ==
  ASSUME NEW rows, NEW n \in 0 .. MaxClaims,
         \A i \in Attempts : rows.attempt[i] # "none" <=> i <= n
  PROVE  Count(rows) = n
<1>1. {i \in Attempts : rows.attempt[i] # "none"} = 1 .. n
  BY MaxClaimsAssumption DEF Attempts
<1>2. Cardinality(1 .. n) = n
  BY FS_Interval, MaxClaimsAssumption
<1> QED  BY <1>1, <1>2 DEF Count

-----------------------------------------------------------------------------
(* A transaction begins *)

\* What is known of a transaction that has just begun.
Begun(w, t) ==
  /\ ~Busy(w) /\ Becomes(w, t) /\ Txn(t)
  /\ t.writes = None /\ ~t.written /\ t.previous = None
  /\ UNCHANGED <<db, late, recorded, audit, effects>>
  /\ sent' \in [Attempts -> SUBSET Signed]
  /\ t.locks \cap LockedByOthers(w) = {}
  /\ t.kind \in Executor => db.attempt[t.attempt] # "none"
  /\ t.kind = "claim" => <<"stage">> \in t.locks /\ Count(db) < MaxClaims
  /\ t.kind = "sweep" => \A i \in t.overdue : Lease(i) \in t.locks /\ Overdue(i)
  /\ t.kind \in Signed => Key(t) \notin recorded /\ ~InFlight(t.attempt, t.kind)

LEMMA BeginTxn ==
  ASSUME TypeInv, NEW w \in Workers, NEW kind \in Transaction, NEW i \in Attempts,
         NEW overdue \in SUBSET Attempts, NEW locks, Begin(w, kind, i, overdue, locks),
         kind \in {"claim", "sweep"} => locks # {},
         kind \in Executor => locks = {} /\ db.attempt[i] # "none"
  PROVE  \E t : /\ Becomes(w, t) /\ Txn(t) /\ ~Busy(w)
                /\ t.kind = kind /\ t.attempt = i /\ t.overdue = overdue /\ t.locks = locks
                /\ t.writes = None /\ ~t.written /\ t.previous = None
                /\ UNCHANGED <<db, late, recorded, audit, effects>>
<1>1. PICK read : read = IF kind = "cancel" THEN <<db.status>>
                         ELSE IF locks = {} THEN <<db.stage, db.attempt[i]>> ELSE <<>>
  OBVIOUS
<1>2. PICK t : t = [kind |-> kind, attempt |-> i, overdue |-> overdue, locks |-> locks,
                    read |-> read, writes |-> None, renews |-> FALSE, written |-> FALSE,
                    previous |-> None]
  OBVIOUS
<1>3. /\ t.kind = kind /\ t.attempt = i /\ t.overdue = overdue /\ t.locks = locks
      /\ t.read = read /\ t.writes = None /\ t.renews = FALSE /\ t.written = FALSE
      /\ t.previous = None
  BY <1>2
<1>4. read # <<>> => IF kind = "cancel" THEN read[1] \in RunStatus
                     ELSE /\ kind \in Executor /\ read[1] \in StageState
                          /\ read[2] \in AttemptState \ {"none"}
  <2>1. CASE kind = "cancel"
    BY <1>1, <2>1, RowsFields DEF TypeInv
  <2>2. CASE kind \in {"claim", "sweep"}
    BY <1>1, <2>2
  <2>3. CASE kind \in Executor
    BY <1>1, <2>3, RowsFields DEF TypeInv, Executor, Signed
  <2> QED  BY <2>1, <2>2, <2>3 DEF Transaction, Executor
<1>5. t = [kind |-> t.kind, attempt |-> t.attempt, overdue |-> t.overdue, locks |-> t.locks,
           read |-> t.read, writes |-> t.writes, renews |-> t.renews, written |-> t.written,
           previous |-> t.previous]
  BY <1>2, <1>3
<1>6. Txn(t)
  BY <1>3, <1>4, <1>5 DEF Txn, Option
<1>7. Becomes(w, t) /\ ~Busy(w) /\ UNCHANGED <<db, late, recorded, audit, effects>>
  BY <1>1, <1>2 DEF Begin, Becomes
<1> QED  BY <1>3, <1>6, <1>7

LEMMA ArrivesBegins ==
  ASSUME IInv, NEW w \in Workers, Arrives(w)
  PROVE  \E t : Begun(w, t)
<1> USE DEF IInv
<1>1. 1 \in Attempts
  BY MaxClaimsAssumption DEF Attempts
<1>2. ASSUME NEW i \in Attempts, ArriveHeartbeat(w, i)
      PROVE  \E t : Begun(w, t)
  <2>1. "heartbeat" \in Transaction /\ "heartbeat" \in Executor /\ "heartbeat" \notin Signed
    BY DEF Transaction, Executor, Signed
  <2>2. db.attempt[i] # "none" /\ Begin(w, "heartbeat", i, {}, {}) /\ UNCHANGED sent
    BY <1>2 DEF ArriveHeartbeat, Valid, RowsInv
  <2>3. PICK t : /\ Becomes(w, t) /\ Txn(t) /\ ~Busy(w)
                 /\ t.kind = "heartbeat" /\ t.attempt = i /\ t.overdue = {} /\ t.locks = {}
                 /\ t.writes = None /\ ~t.written /\ t.previous = None
                 /\ UNCHANGED <<db, late, recorded, audit, effects>>
    BY <2>1, <2>2, BeginTxn
  <2>4. sent' \in [Attempts -> SUBSET Signed]
    BY <2>2 DEF TypeInv
  <2> QED  BY <2>1, <2>2, <2>3, <2>4 DEF Begun
<1>3. ASSUME NEW i \in Attempts, NEW kind \in Signed, ArriveSigned(w, i, kind)
      PROVE  \E t : Begun(w, t)
  <2>1. kind \in Transaction /\ kind \in Executor /\ kind \notin {"claim", "sweep"}
    BY DEF Transaction, Executor, Signed
  <2>2. /\ db.attempt[i] # "none" /\ Begin(w, kind, i, {}, {})
        /\ <<i, kind>> \notin recorded /\ ~InFlight(i, kind)
    BY <1>3 DEF ArriveSigned, Valid, RowsInv
  <2>3. PICK t : /\ Becomes(w, t) /\ Txn(t) /\ ~Busy(w)
                 /\ t.kind = kind /\ t.attempt = i /\ t.overdue = {} /\ t.locks = {}
                 /\ t.writes = None /\ ~t.written /\ t.previous = None
                 /\ UNCHANGED <<db, late, recorded, audit, effects>>
    BY <2>1, <2>2, BeginTxn
  <2>4. sent' \in [Attempts -> SUBSET Signed]
    BY <1>3 DEF TypeInv, ArriveSigned
  <2> QED  BY <2>1, <2>2, <2>3, <2>4 DEF Begun, Key
<1>4. ASSUME ArriveCancel(w)
      PROVE  \E t : Begun(w, t)
  <2>1. "cancel" \in Transaction /\ "cancel" \notin Executor /\ "cancel" \notin Signed
    BY DEF Transaction, Executor, Signed
  <2>2. PICK t : /\ Becomes(w, t) /\ Txn(t) /\ ~Busy(w)
                 /\ t.kind = "cancel" /\ t.attempt = 1 /\ t.overdue = {} /\ t.locks = {}
                 /\ t.writes = None /\ ~t.written /\ t.previous = None
                 /\ UNCHANGED <<db, late, recorded, audit, effects>>
    BY <1>1, <1>4, <2>1, BeginTxn DEF ArriveCancel
  <2>3. sent' \in [Attempts -> SUBSET Signed]
    BY <1>4 DEF TypeInv, ArriveCancel
  <2> QED  BY <2>1, <2>2, <2>3 DEF Begun
<1>5. ASSUME ArriveClaim(w)
      PROVE  \E t : Begun(w, t)
  <2>1. "claim" \in Transaction /\ "claim" \notin Executor /\ "claim" \notin Signed
    BY DEF Transaction, Executor, Signed
  <2>2. PICK t : /\ Becomes(w, t) /\ Txn(t) /\ ~Busy(w)
                 /\ t.kind = "claim" /\ t.attempt = 1 /\ t.overdue = {}
                 /\ t.locks = {<<"stage">>}
                 /\ t.writes = None /\ ~t.written /\ t.previous = None
                 /\ UNCHANGED <<db, late, recorded, audit, effects>>
    BY <1>1, <1>5, <2>1, BeginTxn DEF ArriveClaim
  <2>3. /\ sent' \in [Attempts -> SUBSET Signed] /\ Count(db) < MaxClaims
        /\ <<"stage">> \notin LockedByOthers(w)
    BY <1>5 DEF TypeInv, ArriveClaim
  <2> QED  BY <2>1, <2>2, <2>3 DEF Begun
<1>6. ASSUME ArriveSweep(w)
      PROVE  \E t : Begun(w, t)
  <2>1. "sweep" \in Transaction /\ "sweep" \notin Executor /\ "sweep" \notin Signed
    BY DEF Transaction, Executor, Signed
  <2>2. PICK held : held = {i \in Attempts : Held(i) /\ Lease(i) \notin LockedByOthers(w)}
    OBVIOUS
  <2>3. PICK overdue : overdue = {i \in held : ~db.fresh[i] \/ i \in late}
    OBVIOUS
  <2>4. PICK locks : locks = Selected(w, held)
    OBVIOUS
  <2>5. overdue # {} /\ Begin(w, "sweep", 1, overdue, locks) /\ UNCHANGED sent
    BY <1>6, <2>2, <2>3, <2>4 DEF ArriveSweep
  <2>6. /\ overdue \in SUBSET Attempts /\ locks # {}
        /\ \A i \in overdue : Lease(i) \in locks /\ Overdue(i)
        /\ locks \cap LockedByOthers(w) = {}
    BY <2>2, <2>3, <2>4, <2>5 DEF Selected, Overdue
  <2>7. PICK t : /\ Becomes(w, t) /\ Txn(t) /\ ~Busy(w)
                 /\ t.kind = "sweep" /\ t.attempt = 1 /\ t.overdue = overdue
                 /\ t.locks = locks
                 /\ t.writes = None /\ ~t.written /\ t.previous = None
                 /\ UNCHANGED <<db, late, recorded, audit, effects>>
    BY <1>1, <2>1, <2>5, <2>6, BeginTxn
  <2>8. sent' \in [Attempts -> SUBSET Signed]
    BY <2>5 DEF TypeInv
  <2> QED  BY <2>1, <2>6, <2>7, <2>8 DEF Begun
<1> QED  BY <1>2, <1>3, <1>4, <1>5, <1>6 DEF Arrives

LEMMA BeginKeeps ==
  ASSUME IInv, NEW w \in Workers, NEW t, Begun(w, t)
  PROVE  IInv'
<1> USE DEF IInv, Begun
<1>1. /\ tx'[w] = t /\ Busy(w)'
      /\ \A v \in Workers : v # w => tx'[v] = tx[v] /\ Busy(v)' = Busy(v)
      /\ tx' = [v \in Workers |-> tx'[v]]
  BY OthersGoOn DEF Txn, Transaction, Signed
<1>2. TypeInv'
  BY <1>1 DEF TypeInv
<1>3. LockInv'
  <2>1. \A v \in Workers : v # w /\ Busy(v) => t.locks \cap tx[v].locks = {}
    BY NotLocked
  <2> QED  BY <1>1, <2>1 DEF LockInv, Touched
<1>4. OnceInv'
  BY <1>1 DEF OnceInv, InFlight, Key
<1>5. ChainInv'
  BY <1>1 DEF ChainInv, AuditLinear
<1>6. RowsInv'
  <2>1. Count(db)' = Count(db) /\ \A i \in Attempts : Overdue(i)' = Overdue(i)
    BY DEF Count, Overdue, Held
  <2>2. WritesFit(tx[w])'
    BY <1>1 DEF WritesFit
  <2>3. ASSUME NEW v \in Workers, v # w, Busy(v)
        PROVE  WritesFit(tx[v])'
    BY <1>1, <2>1, <2>3 DEF RowsInv, WritesFit
  <2>4. ASSUME NEW v \in Workers, Busy(v)'
        PROVE  /\ tx'[v].kind \in Executor => db'.attempt[tx'[v].attempt] # "none"
               /\ tx'[v].kind = "claim" => Count(db) < MaxClaims
               /\ tx'[v].kind = "sweep" => \A i \in tx'[v].overdue : Overdue(i)
    <3>1. CASE v = w
      BY <1>1, <3>1
    <3>2. CASE v # w
      BY <1>1, <2>4, <3>2 DEF RowsInv
    <3> QED  BY <3>1, <3>2
  <2>5. ASSUME NEW v \in Workers, Busy(v)'
        PROVE  tx'[v].overdue \in SUBSET Attempts
    <3>1. Txn(tx'[v])
      BY <1>2, <2>5 DEF TypeInv, Busy, Idle
    <3> QED  BY <3>1 DEF Txn
  <2>6. /\ (Count(db) \in 0 .. MaxClaims)'
        /\ (\A i \in Attempts : db.attempt[i] # "none" <=> i <= Count(db))'
        /\ (\A i \in Attempts : db.fresh[i] => db.attempt[i] # "none")'
    BY <2>1 DEF RowsInv
  <2>7. \A v \in Workers : Busy(v)' => WritesFit(tx[v])'
    BY <1>1, <2>2, <2>3
  <2> QED  BY <1>1, <2>1, <2>4, <2>5, <2>6, <2>7 DEF RowsInv
<1> QED  BY <1>2, <1>3, <1>4, <1>5, <1>6

-----------------------------------------------------------------------------
(* A transaction goes on *)

\* What a step of a transaction that does not end it must respect.
LEMMA GoOnKeeps ==
  ASSUME IInv, NEW w \in Workers, Busy(w), NEW t, Becomes(w, t), Txn(t),
         UNCHANGED <<db, late, sent, recorded, audit, effects>>,
         t.kind = tx[w].kind, t.attempt = tx[w].attempt, t.overdue = tx[w].overdue,
         tx[w].locks \subseteq t.locks,
         \A v \in Workers : v # w /\ Busy(v) => t.locks \cap tx[v].locks = {},
         t.written => t.writes # None /\ Touched(t) \subseteq t.locks,
         WritesFit(t),
         t.previous # None => /\ t.previous = Len(audit)
                              /\ \A v \in Workers : v # w /\ Busy(v) => tx[v].previous = None
  PROVE  IInv'
<1> USE DEF IInv
<1>1. /\ tx'[w] = t /\ Busy(w)'
      /\ \A v \in Workers : v # w => tx'[v] = tx[v] /\ Busy(v)' = Busy(v)
      /\ tx' = [v \in Workers |-> tx'[v]]
  BY OthersGoOn DEF Txn, Transaction, Signed
<1>2. TypeInv'
  BY <1>1 DEF TypeInv
<1>3. LockInv'
  BY <1>1 DEF LockInv, Touched
<1>4. OnceInv'
  BY <1>1 DEF OnceInv, Key
<1>5. ChainInv'
  BY <1>1 DEF ChainInv, AuditLinear
<1>6. RowsInv'
  <2>1. Count(db)' = Count(db) /\ \A i \in Attempts : Overdue(i)' = Overdue(i)
    BY DEF Count, Overdue, Held
  <2>2. WritesFit(tx[w])'
    BY <1>1, <2>1 DEF WritesFit
  <2>3. ASSUME NEW v \in Workers, v # w, Busy(v)
        PROVE  WritesFit(tx[v])'
    BY <1>1, <2>1, <2>3 DEF RowsInv, WritesFit
  <2>4. \A v \in Workers : Busy(v)' => /\ Busy(v) /\ tx'[v].kind = tx[v].kind
                                       /\ tx'[v].attempt = tx[v].attempt
                                       /\ tx'[v].overdue = tx[v].overdue
    BY <1>1
  <2>5. ASSUME NEW v \in Workers, Busy(v)'
        PROVE  tx'[v].overdue \in SUBSET Attempts
    <3>1. Txn(tx'[v])
      BY <1>2, <2>5 DEF TypeInv, Busy, Idle
    <3> QED  BY <3>1 DEF Txn
  <2>6. /\ (Count(db) \in 0 .. MaxClaims)'
        /\ (\A i \in Attempts : db.attempt[i] # "none" <=> i <= Count(db))'
        /\ (\A i \in Attempts : db.fresh[i] => db.attempt[i] # "none")'
    BY <2>1 DEF RowsInv
  <2>7. \A v \in Workers : Busy(v)' => WritesFit(tx[v])'
    BY <1>1, <2>2, <2>3
  <2> QED  BY <1>1, <2>1, <2>4, <2>5, <2>6, <2>7 DEF RowsInv
<1> QED  BY <1>2, <1>3, <1>4, <1>5, <1>6

\* The rows that a handler has when it decides.
LEMMA ReadFits ==
  ASSUME IInv, NEW w \in Workers, Busy(w)
  PROVE  LET t == tx[w] IN
         /\ Read(t) \in Rows /\ Read(t).fresh = db.fresh
         /\ \A j \in Attempts : t.kind \notin Executor \/ j # t.attempt =>
                                  Read(t).attempt[j] = db.attempt[j]
         /\ t.kind \in Executor => Read(t).attempt[t.attempt] # "none"
<1> USE DEF IInv
<1>1. PICK t : t = tx[w]
  OBVIOUS
<1>2. Txn(t) /\ db \in Rows /\ (t.kind \in Executor => db.attempt[t.attempt] # "none")
  BY <1>1, Underway DEF TypeInv, RowsInv
<1>3. t.attempt \in Attempts
  BY <1>2 DEF Txn
<1>4. CASE t.read = <<>>
  BY <1>1, <1>2, <1>4 DEF Read
<1>5. CASE t.read # <<>> /\ t.kind = "cancel"
  <2>1. t.read[1] \in RunStatus /\ "none" \in Result
    BY <1>2, <1>5 DEF Txn, Result
  <2>2. Read(t) = [db EXCEPT !.status = t.read[1], !.result = "none"]
    BY <1>5 DEF Read
  <2>3. Read(t) = [status |-> t.read[1], result |-> "none", stage |-> db.stage,
                   attempt |-> db.attempt, released |-> db.released, fresh |-> db.fresh]
    BY <1>2, <2>2, RowsFields
  <2>4. Read(t) \in Rows
    BY <1>2, <2>1, <2>3, RowsFields, RowsMade
  <2>5. Read(t).attempt = db.attempt /\ Read(t).fresh = db.fresh
    BY <2>3
  <2> QED  BY <1>1, <1>5, <2>4, <2>5 DEF Executor, Signed
<1>6. CASE t.read # <<>> /\ t.kind # "cancel"
  <2>1. t.kind \in Executor /\ t.read[1] \in StageState /\ t.read[2] \in AttemptState \ {"none"}
    BY <1>2, <1>6 DEF Txn
  <2>2. PICK at, rl : /\ at = [db.attempt EXCEPT ![t.attempt] = t.read[2]]
                      /\ rl = [db.released EXCEPT ![t.attempt] = FALSE]
    OBVIOUS
  <2>3. Read(t) = [db EXCEPT !.stage = t.read[1], !.attempt = at, !.released = rl]
    BY <1>6, <2>2 DEF Read
  <2>4. at \in [Attempts -> AttemptState] /\ rl \in [Attempts -> BOOLEAN]
    BY <1>2, <1>3, <2>1, <2>2, RowsFields
  <2>5. Read(t) = [status |-> db.status, result |-> db.result, stage |-> t.read[1],
                   attempt |-> at, released |-> rl, fresh |-> db.fresh]
    BY <1>2, <2>3, RowsFields
  <2>6. Read(t) \in Rows
    BY <1>2, <2>1, <2>4, <2>5, RowsFields, RowsMade
  <2>7. Read(t).attempt = at /\ Read(t).fresh = db.fresh
    BY <2>5
  <2>8. \A j \in Attempts : at[j] = IF j = t.attempt THEN t.read[2] ELSE db.attempt[j]
    BY <1>2, <2>2, RowsFields
  <2> QED  BY <1>1, <1>3, <2>1, <2>6, <2>7, <2>8
<1> QED  BY <1>4, <1>5, <1>6

\* Only the columns that changed are written.
LEMMA ChangesFit ==
  ASSUME NEW read \in Rows, NEW new \in Rows
  PROVE  /\ Changes(read, new) \in ChangeSet
         /\ \A j \in Attempts :
              /\ Changes(read, new).attempt[j] =
                   IF new.attempt[j] = read.attempt[j] THEN None ELSE new.attempt[j]
              /\ new.fresh[j] = read.fresh[j] => Changes(read, new).fresh[j] = None
<1> DEFINE change(old, val) == IF val = old THEN None ELSE val
<1>1. PICK at, rl, fr :
        /\ at = [i \in Attempts |-> change(read.attempt[i], new.attempt[i])]
        /\ rl = [i \in Attempts |-> change(read.released[i], new.released[i])]
        /\ fr = [i \in Attempts |-> change(read.fresh[i], new.fresh[i])]
  OBVIOUS
<1>2. PICK st, re, sg : /\ st = change(read.status, new.status)
                        /\ re = change(read.result, new.result)
                        /\ sg = change(read.stage, new.stage)
  OBVIOUS
<1>3. Changes(read, new) = [status |-> st, result |-> re, stage |-> sg, attempt |-> at,
                            released |-> rl, fresh |-> fr]
  BY <1>1, <1>2 DEF Changes
<1>4. st \in Option(RunStatus) /\ re \in Option(Result) /\ sg \in Option(StageState)
  BY <1>2, RowsFields DEF Option
<1>5. at \in [Attempts -> Option(AttemptState)]
  BY <1>1, RowsFields DEF Option
<1>6. rl \in [Attempts -> Option(BOOLEAN)]
  BY <1>1, RowsFields DEF Option
<1>7. fr \in [Attempts -> Option(BOOLEAN)]
  BY <1>1, RowsFields DEF Option
<1>8. Changes(read, new) \in ChangeSet
  BY <1>3, <1>4, <1>5, <1>6, <1>7 DEF ChangeSet
<1>9. Changes(read, new).attempt = at /\ Changes(read, new).fresh = fr
  BY <1>3
<1> QED  BY <1>1, <1>8, <1>9

LEMMA DecideKeeps ==
  ASSUME IInv, NEW w \in Workers, Decide(w)
  PROVE  IInv'
<1> USE DEF IInv
<1>1. Busy(w) /\ Txn(tx[w]) /\ tx[w].writes = None
  BY Underway DEF Decide
<1>2. PICK s : s = tx[w]
  OBVIOUS
<1>3. PICK rows : rows = Read(s)
  OBVIOUS
<1>4. PICK new : new = Handled(s.kind, rows, s.attempt, s.overdue)
  OBVIOUS
<1>5. PICK renews \in BOOLEAN : renews = (s.kind = "heartbeat" /\ Renews(rows, s.attempt))
  OBVIOUS
<1>6. PICK t : t = [s EXCEPT !.read = <<>>, !.writes = Changes(rows, new), !.renews = renews]
  OBVIOUS
<1>7. Becomes(w, t) /\ UNCHANGED <<db, late, sent, recorded, audit, effects>>
  BY <1>2, <1>3, <1>4, <1>5, <1>6 DEF Decide, Becomes
<1>8. t = [kind |-> s.kind, attempt |-> s.attempt, overdue |-> s.overdue, locks |-> s.locks,
           read |-> <<>>, writes |-> Changes(rows, new), renews |-> renews,
           written |-> s.written, previous |-> s.previous]
  BY <1>1, <1>2, <1>6 DEF Txn
<1>9. /\ t.kind = s.kind /\ t.attempt = s.attempt /\ t.overdue = s.overdue /\ t.locks = s.locks
      /\ t.read = <<>> /\ t.writes = Changes(rows, new) /\ t.renews = renews
      /\ t.written = s.written /\ t.previous = s.previous
  BY <1>8
<1>10. /\ s.kind \in Transaction /\ s.attempt \in Attempts /\ s.overdue \in SUBSET Attempts
       /\ s.written \in BOOLEAN /\ s.previous \in Option(Nat)
  BY <1>1, <1>2 DEF Txn
<1>11. /\ rows \in Rows /\ rows.fresh = db.fresh
       /\ \A j \in Attempts : s.kind \notin Executor \/ j # s.attempt =>
                                rows.attempt[j] = db.attempt[j]
       /\ s.kind \in Executor => rows.attempt[s.attempt] # "none"
  BY <1>1, <1>2, <1>3, ReadFits
<1>12. ~s.written
  BY <1>1, <1>2 DEF LockInv
<1>13. new \in Rows /\ WritesFit(t)
  <2>1. CASE s.kind = "claim"
    <3>1. Count(db) + 1 \in Attempts
      BY <1>1, <1>2, <2>1, MaxClaimsAssumption DEF RowsInv, Attempts
    <3>2. /\ new \in Rows
          /\ \A j \in Attempts :
               /\ new.attempt[j] = IF j = Count(db) + 1 THEN "leased" ELSE rows.attempt[j]
               /\ j # Count(db) + 1 => new.fresh[j] = rows.fresh[j]
      BY <1>4, <1>11, <2>1, <3>1, ClaimMakes
    <3>3. rows.attempt[Count(db) + 1] = "none"
      BY <1>11, <2>1, <3>1 DEF RowsInv, Executor, Signed
    <3> QED  BY <1>9, <1>11, <2>1, <3>1, <3>2, <3>3, ChangesFit, NoneAssumption
             DEF WritesFit, AttemptState
  <2>2. CASE s.kind # "claim"
    <3>1. Makes(rows, new, Hands(s.kind, s.attempt, s.overdue))
      BY <1>4, <1>10, <1>11, <2>2, HandledMakes
    <3>2. \A j \in Hands(s.kind, s.attempt, s.overdue) : db.attempt[j] # "none"
      <4>1. CASE s.kind = "sweep"
        BY <1>1, <1>2, <4>1 DEF RowsInv, Overdue, Held, Hands
      <4>2. CASE s.kind = "cancel"
        BY <4>2 DEF Hands
      <4>3. CASE s.kind \in Executor
        BY <1>1, <1>2, <4>3 DEF RowsInv, Hands, Executor, Signed
      <4> QED  BY <1>10, <2>2, <4>1, <4>2, <4>3 DEF Transaction, Executor
    <3>3. new \in Rows /\ new.fresh = rows.fresh
      BY <3>1 DEF Makes
    <3>4. ASSUME NEW j \in Attempts
          PROVE  /\ t.writes.attempt[j] # "none" /\ t.writes.fresh[j] = None
                 /\ t.writes.attempt[j] # None => db.attempt[j] # "none"
      <4>1. /\ t.writes.attempt[j] =
                 IF new.attempt[j] = rows.attempt[j] THEN None ELSE new.attempt[j]
            /\ t.writes.fresh[j] = None
        BY <1>9, <1>11, <3>3, ChangesFit
      <4>2. j \notin Hands(s.kind, s.attempt, s.overdue) => new.attempt[j] = rows.attempt[j]
        BY <3>1 DEF Makes
      <4>3. j \in Hands(s.kind, s.attempt, s.overdue) => new.attempt[j] # "none"
        BY <3>1 DEF Makes
      <4>4. None # "none"
        BY NoneAssumption DEF AttemptState
      <4> QED  BY <3>2, <4>1, <4>2, <4>3, <4>4
    <3> QED  BY <1>9, <2>2, <3>3, <3>4 DEF WritesFit
  <2> QED  BY <2>1, <2>2
<1>14. Txn(t)
  BY <1>5, <1>8, <1>9, <1>10, <1>11, <1>13, ChangesFit DEF Txn
<1>15. \A v \in Workers : v # w /\ Busy(v) => t.locks \cap tx[v].locks = {}
  BY <1>1, <1>2, <1>9 DEF LockInv
<1>16. t.previous # None => /\ t.previous = Len(audit)
                            /\ \A v \in Workers : v # w /\ Busy(v) => tx[v].previous = None
  BY <1>1, <1>2, <1>9 DEF ChainInv
<1> QED  BY <1>1, <1>2, <1>7, <1>9, <1>12, <1>13, <1>14, <1>15, <1>16, GoOnKeeps

LEMMA WriteKeeps ==
  ASSUME IInv, NEW w \in Workers, Write(w)
  PROVE  IInv'
<1> USE DEF IInv
<1>1. Busy(w) /\ Txn(tx[w]) /\ tx[w].writes # None
  BY Underway DEF Write
<1>2. PICK s : s = tx[w]
  OBVIOUS
<1>3. PICK previous : previous = IF Audited(s) THEN Len(audit) ELSE None
  OBVIOUS
<1>4. PICK t : t = [s EXCEPT !.written = TRUE, !.locks = s.locks \cup Touched(s),
                             !.previous = previous]
  OBVIOUS
<1>5. Becomes(w, t) /\ UNCHANGED <<db, late, sent, recorded, audit, effects>>
  BY <1>2, <1>3, <1>4 DEF Write, Becomes
<1>6. t = [kind |-> s.kind, attempt |-> s.attempt, overdue |-> s.overdue,
           locks |-> s.locks \cup Touched(s), read |-> s.read, writes |-> s.writes,
           renews |-> s.renews, written |-> TRUE, previous |-> previous]
  BY <1>1, <1>2, <1>4 DEF Txn
<1>7. /\ t.kind = s.kind /\ t.attempt = s.attempt /\ t.overdue = s.overdue
      /\ t.locks = s.locks \cup Touched(s) /\ t.read = s.read /\ t.writes = s.writes
      /\ t.renews = s.renews /\ t.written = TRUE /\ t.previous = previous
  BY <1>6
<1>8. previous \in Option(Nat)
  BY <1>3 DEF TypeInv, Option
<1>9. Txn(t)
  BY <1>1, <1>2, <1>6, <1>7, <1>8 DEF Txn
<1>10. Touched(t) = Touched(s)
  BY <1>7 DEF Touched
<1>11. ASSUME NEW v \in Workers, v # w, Busy(v)
       PROVE  t.locks \cap tx[v].locks = {}
  <2>1. Touched(s) \cap tx[v].locks = {}
    BY <1>2, <1>11, NotLocked DEF Write
  <2>2. s.locks \cap tx[v].locks = {}
    BY <1>1, <1>2, <1>11 DEF LockInv
  <2> QED  BY <1>7, <2>1, <2>2
<1>12. WritesFit(t)
  BY <1>1, <1>2, <1>7 DEF RowsInv, WritesFit
<1>13. previous # None => /\ previous = Len(audit)
                          /\ \A v \in Workers : v # w /\ Busy(v) => tx[v].previous = None
  BY <1>2, <1>3 DEF Write, AuditFree
<1> QED  BY <1>1, <1>2, <1>5, <1>7, <1>9, <1>10, <1>11, <1>12, <1>13, GoOnKeeps

-----------------------------------------------------------------------------
(* A transaction ends *)

LEMMA AbortKeeps ==
  ASSUME IInv, NEW w \in Workers, Abort(w)
  PROVE  IInv'
<1> USE DEF IInv
<1>1. Becomes(w, Idle) /\ UNCHANGED <<db, late, sent, recorded, audit, effects>>
  BY DEF Abort, Becomes
<1>2. /\ tx'[w] = Idle /\ ~Busy(w)'
      /\ \A v \in Workers : v # w => tx'[v] = tx[v] /\ Busy(v)' = Busy(v)
      /\ tx' = [v \in Workers |-> tx'[v]]
  <2>1. Idle.kind = "idle"
    BY DEF Idle
  <2> QED  BY <1>1, <2>1, OthersGoOn
<1>3. TypeInv'
  BY <1>1, <1>2 DEF TypeInv
<1>4. LockInv'
  BY <1>2 DEF LockInv, Touched
<1>5. OnceInv'
  BY <1>1, <1>2 DEF OnceInv, Key
<1>6. ChainInv'
  BY <1>1, <1>2 DEF ChainInv, AuditLinear
<1>7. RowsInv'
  <2>1. Count(db)' = Count(db) /\ \A i \in Attempts : Overdue(i)' = Overdue(i)
    BY <1>1 DEF Count, Overdue, Held
  <2>2. ASSUME NEW v \in Workers, Busy(v)'
        PROVE  /\ tx'[v].kind \in Executor => db'.attempt[tx'[v].attempt] # "none"
               /\ tx'[v].kind = "claim" => Count(db) < MaxClaims
               /\ tx'[v].kind = "sweep" => \A i \in tx'[v].overdue : Overdue(i)
               /\ tx'[v].overdue \in SUBSET Attempts
               /\ WritesFit(tx[v])'
    <3>1. v # w /\ Busy(v) /\ tx'[v] = tx[v]
      BY <1>2, <2>2
    <3>2. tx[v].overdue \in SUBSET Attempts
      BY <3>1, Underway DEF Txn
    <3> QED  BY <1>1, <2>1, <3>1, <3>2 DEF RowsInv, WritesFit
  <2>3. /\ (Count(db) \in 0 .. MaxClaims)'
        /\ (\A i \in Attempts : db.attempt[i] # "none" <=> i <= Count(db))'
        /\ (\A i \in Attempts : db.fresh[i] => db.attempt[i] # "none")'
    BY <1>1, <2>1 DEF RowsInv
  <2> QED  BY <2>1, <2>2, <2>3 DEF RowsInv
<1> QED  BY <1>3, <1>4, <1>5, <1>6, <1>7

\* What a commit makes of the rows.
LEMMA WrittenRows ==
  ASSUME db \in Rows, NEW t, Txn(t), t.writes # None
  PROVE  /\ Written(t) \in Rows
         /\ \A j \in Attempts :
              /\ Written(t).attempt[j] =
                   IF t.writes.attempt[j] = None THEN db.attempt[j] ELSE t.writes.attempt[j]
              /\ Written(t).released[j] =
                   IF t.writes.released[j] = None THEN db.released[j] ELSE t.writes.released[j]
              /\ Written(t).fresh[j] =>
                   \/ IF t.writes.fresh[j] = None THEN db.fresh[j] ELSE t.writes.fresh[j]
                   \/ t.renews /\ j = t.attempt
<1> DEFINE over(now, val) == IF val = None THEN now ELSE val
<1>1. PICK x : x = t.writes
  OBVIOUS
<1>2. /\ x.status \in Option(RunStatus) /\ x.result \in Option(Result)
      /\ x.stage \in Option(StageState) /\ x.attempt \in [Attempts -> Option(AttemptState)]
      /\ x.released \in [Attempts -> Option(BOOLEAN)] /\ x.fresh \in [Attempts -> Option(BOOLEAN)]
  BY <1>1 DEF Txn, ChangeSet
<1>3. PICK at, rl, fr :
        /\ at = [i \in Attempts |-> over(db.attempt[i], x.attempt[i])]
        /\ rl = [i \in Attempts |-> over(db.released[i], x.released[i])]
        /\ fr = [i \in Attempts |->
                   /\ ~over(db.released[i], x.released[i])
                   /\ over(db.fresh[i], x.fresh[i]) \/ (t.renews /\ i = t.attempt)]
  OBVIOUS
<1>4. PICK st, re, sg : /\ st = over(db.status, x.status)
                        /\ re = over(db.result, x.result)
                        /\ sg = over(db.stage, x.stage)
  OBVIOUS
<1>5. Written(t) = [status |-> st, result |-> re, stage |-> sg, attempt |-> at, released |-> rl,
                    fresh |-> fr]
  BY <1>1, <1>3, <1>4 DEF Written
<1>6. st \in RunStatus /\ re \in Result /\ sg \in StageState
  BY <1>2, <1>4, RowsFields DEF Option
<1>7. at \in [Attempts -> AttemptState]
  BY <1>2, <1>3, RowsFields DEF Option
<1>8. rl \in [Attempts -> BOOLEAN]
  BY <1>2, <1>3, RowsFields DEF Option
<1>9. fr \in [Attempts -> BOOLEAN]
  BY <1>3
<1>10. Written(t) \in Rows
  BY <1>5, <1>6, <1>7, <1>8, <1>9, RowsMade
<1>11. Written(t).attempt = at /\ Written(t).released = rl /\ Written(t).fresh = fr
  BY <1>5
<1>12. ASSUME NEW j \in Attempts
       PROVE  fr[j] => \/ IF x.fresh[j] = None THEN db.fresh[j] ELSE x.fresh[j]
                       \/ t.renews /\ j = t.attempt
  BY <1>3
<1> QED  BY <1>1, <1>3, <1>10, <1>11, <1>12

\* A commit adds the attempt of a claim and takes none away.
LEMMA CommittedAttempts ==
  ASSUME IInv, NEW w \in Workers, Busy(w), tx[w].writes # None, db' = Written(tx[w])
  PROVE  /\ Count(db)' = IF tx[w].kind = "claim" THEN Count(db) + 1 ELSE Count(db)
         /\ Count(db)' \in 0 .. MaxClaims
         /\ \A i \in Attempts : db'.attempt[i] # "none" <=> i <= Count(db)'
         /\ \A i \in Attempts : db'.fresh[i] => db'.attempt[i] # "none"
<1> USE DEF IInv
<1>1. PICK t : t = tx[w]
  OBVIOUS
<1>2. Txn(t) /\ db \in Rows /\ WritesFit(t) /\ t.writes # None
  BY <1>1, Underway DEF TypeInv, RowsInv
<1>3. PICK n \in Nat : n = Count(db)
  BY DEF RowsInv
<1>4. /\ n <= MaxClaims /\ (t.kind = "claim" => n < MaxClaims)
      /\ \A i \in Attempts : db.attempt[i] # "none" <=> i <= n
      /\ \A i \in Attempts : db.fresh[i] => db.attempt[i] # "none"
  BY <1>1, <1>3 DEF RowsInv
<1>5. PICK m \in Nat : m = IF t.kind = "claim" THEN n + 1 ELSE n
  OBVIOUS
<1>6. m \in 0 .. MaxClaims
  BY <1>4, <1>5, MaxClaimsAssumption
<1>7. \A j \in Attempts :
        /\ db'.attempt[j] = IF t.writes.attempt[j] = None THEN db.attempt[j]
                            ELSE t.writes.attempt[j]
        /\ db'.fresh[j] => \/ IF t.writes.fresh[j] = None THEN db.fresh[j]
                              ELSE t.writes.fresh[j]
                           \/ t.renews /\ j = t.attempt
  BY <1>1, <1>2, WrittenRows
<1>8. None # "none" /\ None # "leased"
  BY NoneAssumption DEF AttemptState
<1>9. ASSUME NEW i \in Attempts
      PROVE  /\ db'.attempt[i] # "none" <=> i <= m
             /\ db'.fresh[i] => db'.attempt[i] # "none"
  <2>1. i \in Nat
    BY DEF Attempts
  <2>2. CASE t.kind = "claim"
    <3>1. CASE i = n + 1
      BY <1>2, <1>3, <1>5, <1>7, <1>8, <2>2, <3>1 DEF WritesFit
    <3>2. CASE i # n + 1
      <4>1. t.writes.attempt[i] = None /\ t.writes.fresh[i] = None /\ ~t.renews
        BY <1>2, <1>3, <2>2, <3>2 DEF WritesFit, Txn
      <4>2. db'.attempt[i] = db.attempt[i] /\ (db'.fresh[i] => db.fresh[i])
        BY <1>7, <4>1
      <4> QED  BY <1>4, <1>5, <2>1, <2>2, <3>2, <4>2
    <3> QED  BY <3>1, <3>2
  <2>3. CASE t.kind # "claim"
    <3>1. /\ t.writes.attempt[i] # "none" /\ t.writes.fresh[i] = None
          /\ t.writes.attempt[i] # None => db.attempt[i] # "none"
      BY <1>2, <2>3 DEF WritesFit
    <3>2. t.renews => db.attempt[t.attempt] # "none"
      BY <1>1, <1>2 DEF Txn, RowsInv, Executor
    <3>3. db'.attempt[i] # "none" <=> db.attempt[i] # "none"
      BY <1>7, <3>1
    <3>4. db'.fresh[i] => db.attempt[i] # "none"
      BY <1>4, <1>7, <3>1, <3>2
    <3> QED  BY <1>4, <1>5, <2>3, <3>3, <3>4
  <2> QED  BY <2>2, <2>3
<1>10. Count(db') = m
  BY <1>6, <1>9, Counted
<1>11. Count(db)' = m
  BY <1>10 DEF Count
<1> QED  BY <1>1, <1>3, <1>5, <1>6, <1>9, <1>11

\* A commit leaves the leases alone that another transaction holds.
LEMMA HeldLeases ==
  ASSUME IInv, NEW w \in Workers, Busy(w), tx[w].written, db' = Written(tx[w]),
         NEW i \in Attempts, Lease(i) \notin tx[w].locks, Overdue(i), late' = late
  PROVE  Overdue(i)'
<1> USE DEF IInv
<1>1. PICK t : t = tx[w]
  OBVIOUS
<1>2. /\ Txn(t) /\ db \in Rows /\ WritesFit(t) /\ t.writes # None
      /\ Touched(t) \subseteq t.locks
  BY <1>1, Underway DEF TypeInv, RowsInv, LockInv
<1>3. t.writes.released[i] = None /\ ~(t.renews /\ i = t.attempt)
  BY <1>1, <1>2 DEF Touched
<1>4. /\ db'.released[i] = IF t.writes.released[i] = None THEN db.released[i]
                           ELSE t.writes.released[i]
      /\ db'.fresh[i] => \/ IF t.writes.fresh[i] = None THEN db.fresh[i] ELSE t.writes.fresh[i]
                         \/ t.renews /\ i = t.attempt
  BY <1>1, <1>2, WrittenRows
<1>5. db'.attempt[i] # "none"
  <2>1. /\ \A j \in Attempts : db'.attempt[j] # "none" <=> j <= Count(db)'
        /\ Count(db)' = IF t.kind = "claim" THEN Count(db) + 1 ELSE Count(db)
    BY <1>1, <1>2, CommittedAttempts
  <2>2. i <= Count(db) /\ Count(db) \in Nat /\ i \in Nat
    BY DEF Overdue, Held, RowsInv, Attempts
  <2> QED  BY <2>1, <2>2
<1>6. t.writes.fresh[i] = None
  <2>1. i <= Count(db) /\ Count(db) \in Nat
    BY DEF Overdue, Held, RowsInv
  <2> QED  BY <1>2, <2>1 DEF WritesFit, Attempts
<1>7. db'.released[i] = db.released[i] /\ (db'.fresh[i] => db.fresh[i])
  BY <1>3, <1>4, <1>6
<1> QED  BY <1>5, <1>7 DEF Overdue, Held

LEMMA CommitKeeps ==
  ASSUME IInv, NEW w \in Workers, Commit(w)
  PROVE  IInv'
<1> USE DEF IInv
<1>1. PICK t : t = tx[w]
  OBVIOUS
<1>2. /\ Busy(w) /\ Txn(t) /\ t.written /\ t.writes # None /\ Touched(t) \subseteq t.locks
      /\ WritesFit(t) /\ db \in Rows /\ t.kind \in Transaction /\ t.attempt \in Attempts
  BY <1>1, Underway DEF Commit, LockInv, RowsInv, TypeInv, Txn
<1>3. /\ db' = Written(t) /\ Becomes(w, Idle) /\ UNCHANGED <<late, sent>>
      /\ audit' = IF t.previous = None THEN audit ELSE Append(audit, t.previous)
      /\ IF t.kind \in Signed THEN /\ recorded' = recorded \cup {Key(t)}
                                   /\ effects' = [effects EXCEPT ![Key(t)] = @ + 1]
         ELSE UNCHANGED <<recorded, effects>>
  BY <1>1 DEF Commit, Becomes, Key
<1>4. /\ tx'[w] = Idle /\ ~Busy(w)'
      /\ \A v \in Workers : v # w => tx'[v] = tx[v] /\ Busy(v)' = Busy(v)
      /\ tx' = [v \in Workers |-> tx'[v]]
  <2>1. Idle.kind = "idle"
    BY DEF Idle
  <2> QED  BY <1>3, <2>1, OthersGoOn
<1>5. \A v \in Workers : Busy(v)' => v # w /\ Busy(v) /\ tx'[v] = tx[v]
  BY <1>4
<1>6. Key(t) \in Attempts \X Signed <=> t.kind \in Signed
  BY <1>2 DEF Key
<1>7. TypeInv'
  <2>1. db' \in Rows
    BY <1>2, <1>3, WrittenRows
  <2>2. audit' \in Seq(Nat)
    <3>1. t.previous # None => t.previous \in Nat
      BY <1>2 DEF Txn, Option
    <3> QED  BY <1>3, <3>1 DEF TypeInv
  <2>3. recorded' \subseteq Attempts \X Signed
    BY <1>3, <1>6 DEF TypeInv
  <2>4. effects' \in [Attempts \X Signed -> Nat]
    BY <1>3, <1>6 DEF TypeInv
  <2> QED  BY <1>3, <1>4, <2>1, <2>2, <2>3, <2>4 DEF TypeInv
<1>8. LockInv'
  BY <1>4 DEF LockInv, Touched
<1>9. OnceInv'
  <2>1. CASE t.kind \in Signed
    <3>1. Key(t) \notin recorded /\ Key(t) \in Attempts \X Signed
      BY <1>1, <1>2, <1>6, <2>1 DEF OnceInv
    <3>2. effects[Key(t)] = 0
      BY <3>1 DEF OnceInv
    <3>3. \A k \in Attempts \X Signed : effects'[k] = IF k = Key(t) THEN 1 ELSE effects[k]
      BY <1>3, <2>1, <3>1, <3>2 DEF TypeInv
    <3>4. \A k \in Attempts \X Signed : effects'[k] = IF k \in recorded' THEN 1 ELSE 0
      BY <1>3, <2>1, <3>1, <3>3 DEF OnceInv
    <3>5. \A v \in Workers : v # w /\ Busy(v) => Key(tx[v]) # Key(t)
      BY <1>1, <1>2, <2>1 DEF OnceInv
    <3>6. \A v \in Workers : Busy(v)' /\ tx'[v].kind \in Signed =>
            /\ Key(tx'[v]) \notin recorded'
            /\ \A u \in Workers \ {v} : Busy(u)' => Key(tx'[u]) # Key(tx'[v])
      BY <1>3, <1>5, <2>1, <3>5 DEF OnceInv
    <3> QED  BY <3>4, <3>6 DEF OnceInv, Key
  <2>2. CASE t.kind \notin Signed
    BY <1>3, <1>5, <2>2 DEF OnceInv, Key
  <2> QED  BY <2>1, <2>2
<1>10. ChainInv'
  <2>1. CASE t.previous = None
    BY <1>3, <1>5, <2>1 DEF ChainInv, AuditLinear
  <2>2. CASE t.previous # None
    <3>1. /\ t.previous = Len(audit)
          /\ \A v \in Workers : v # w /\ Busy(v) => tx[v].previous = None
      BY <1>1, <1>2, <2>2 DEF ChainInv
    <3>2. audit' = Append(audit, Len(audit)) /\ audit \in Seq(Nat)
      BY <1>3, <2>2, <3>1 DEF TypeInv
    <3>3. AuditLinear'
      BY <3>2 DEF ChainInv, AuditLinear
    <3> QED  BY <1>5, <3>1, <3>3 DEF ChainInv
  <2> QED  BY <2>1, <2>2
<1>11. RowsInv'
  <2>1. /\ Count(db)' = IF t.kind = "claim" THEN Count(db) + 1 ELSE Count(db)
        /\ Count(db)' \in 0 .. MaxClaims
        /\ \A i \in Attempts : db'.attempt[i] # "none" <=> i <= Count(db)'
        /\ \A i \in Attempts : db'.fresh[i] => db'.attempt[i] # "none"
    BY <1>1, <1>2, <1>3, CommittedAttempts
  <2>2. \A i \in Attempts : db.attempt[i] # "none" => db'.attempt[i] # "none"
    BY <2>1 DEF RowsInv, Attempts
  <2>3. ASSUME NEW v \in Workers, Busy(v)'
        PROVE  /\ tx'[v].kind \in Executor => db'.attempt[tx'[v].attempt] # "none"
               /\ tx'[v].kind = "claim" => Count(db)' < MaxClaims
               /\ tx'[v].kind = "sweep" => \A i \in tx'[v].overdue : Overdue(i)'
               /\ WritesFit(tx[v])'
    <3>1. v # w /\ Busy(v) /\ tx'[v] = tx[v]
      BY <1>5, <2>3
    <3>2. Txn(tx[v]) /\ tx[v].attempt \in Attempts /\ tx[v].overdue \in SUBSET Attempts
      BY <3>1, Underway DEF Txn
    <3>3. tx[v].locks \cap t.locks = {}
      BY <1>1, <1>2, <3>1 DEF LockInv
    <3>4. tx[v].kind = "claim" => t.kind # "claim"
      BY <1>1, <1>2, <3>1, <3>3 DEF LockInv
    <3>5. tx[v].kind = "claim" => Count(db)' = Count(db)
      BY <2>1, <3>4
    <3>6. ASSUME tx[v].kind = "sweep", NEW i \in tx[v].overdue
          PROVE  Overdue(i)'
      <4>1. Lease(i) \notin tx[w].locks /\ Overdue(i) /\ i \in Attempts
        BY <1>1, <3>1, <3>2, <3>3, <3>6 DEF LockInv, RowsInv
      <4> QED  BY <1>1, <1>2, <1>3, <4>1, HeldLeases
    <3>7. WritesFit(tx[v])'
      <4>1. WritesFit(tx[v])
        BY <3>1 DEF RowsInv
      <4> QED  BY <2>2, <3>1, <3>5, <4>1 DEF WritesFit
    <3> QED  BY <2>2, <3>1, <3>2, <3>5, <3>6, <3>7 DEF RowsInv
  <2> QED  BY <2>1, <2>3 DEF RowsInv
<1> QED  BY <1>7, <1>8, <1>9, <1>10, <1>11

-----------------------------------------------------------------------------
(* The clock, and every step *)

LEMMA LapseKeeps ==
  ASSUME IInv, NEW i \in Attempts, LeaseLapses(i)
  PROVE  IInv'
<1> USE DEF IInv
<1>1. PICK fr : fr = [db.fresh EXCEPT ![i] = FALSE]
  OBVIOUS
<1>2. db' = [db EXCEPT !.fresh = fr] /\ UNCHANGED <<late, sent, recorded, audit, tx, effects>>
  BY <1>1 DEF LeaseLapses
<1>3. db \in Rows
  BY DEF TypeInv
<1>4. db' = [status |-> db.status, result |-> db.result, stage |-> db.stage,
             attempt |-> db.attempt, released |-> db.released, fresh |-> fr]
  BY <1>2, <1>3, RowsFields
<1>5. fr \in [Attempts -> BOOLEAN] /\ \A j \in Attempts : fr[j] => db.fresh[j]
  BY <1>1, <1>3, RowsFields
<1>6. db' \in Rows
  BY <1>3, <1>4, <1>5, RowsFields, RowsMade
<1>7. db'.attempt = db.attempt /\ db'.released = db.released /\ db'.fresh = fr
  BY <1>4
<1>8. TypeInv'
  BY <1>2, <1>6 DEF TypeInv
<1>9. LockInv' /\ OnceInv' /\ ChainInv'
  BY <1>2 DEF LockInv, Touched, Busy, OnceInv, Key, ChainInv, AuditLinear
<1>10. RowsInv'
  <2>1. Count(db)' = Count(db)
    BY <1>7 DEF Count
  <2>2. \A j \in Attempts : Overdue(j) => Overdue(j)'
    BY <1>2, <1>5, <1>7 DEF Overdue, Held
  <2>3. ASSUME NEW w \in Workers, Busy(w)'
        PROVE  /\ tx'[w].kind \in Executor => db'.attempt[tx'[w].attempt] # "none"
               /\ tx'[w].kind = "claim" => Count(db) < MaxClaims
               /\ tx'[w].kind = "sweep" => \A j \in tx'[w].overdue : Overdue(j)'
               /\ WritesFit(tx[w])'
    <3>1. Busy(w) /\ tx'[w] = tx[w]
      BY <1>2, <2>3 DEF Busy
    <3>2. tx[w].overdue \in SUBSET Attempts
      BY <3>1, Underway DEF Txn
    <3>3. WritesFit(tx[w])'
      BY <1>7, <2>1, <3>1 DEF RowsInv, WritesFit
    <3> QED  BY <1>7, <2>2, <3>1, <3>2, <3>3 DEF RowsInv
  <2>4. /\ (Count(db) \in 0 .. MaxClaims)'
        /\ (\A j \in Attempts : db.attempt[j] # "none" <=> j <= Count(db))'
        /\ (\A j \in Attempts : db.fresh[j] => db.attempt[j] # "none")'
    BY <1>5, <1>7, <2>1 DEF RowsInv
  <2> QED  BY <2>1, <2>3, <2>4 DEF RowsInv
<1> QED  BY <1>8, <1>9, <1>10

LEMMA DeadlineKeeps ==
  ASSUME IInv, NEW i \in Attempts, DeadlinePasses(i)
  PROVE  IInv'
<1> USE DEF IInv
<1>1. late' = late \cup {i} /\ UNCHANGED <<db, sent, recorded, audit, tx, effects>>
  BY DEF DeadlinePasses
<1>2. TypeInv'
  BY <1>1 DEF TypeInv
<1>3. LockInv' /\ OnceInv' /\ ChainInv'
  BY <1>1 DEF LockInv, Touched, Busy, OnceInv, Key, ChainInv, AuditLinear
<1>4. RowsInv'
  <2>1. Count(db)' = Count(db) /\ \A j \in Attempts : Overdue(j) => Overdue(j)'
    BY <1>1 DEF Count, Overdue, Held
  <2>2. ASSUME NEW w \in Workers, Busy(w)'
        PROVE  /\ tx'[w].kind \in Executor => db'.attempt[tx'[w].attempt] # "none"
               /\ tx'[w].kind = "claim" => Count(db) < MaxClaims
               /\ tx'[w].kind = "sweep" => \A j \in tx'[w].overdue : Overdue(j)'
               /\ WritesFit(tx[w])'
    <3>1. Busy(w) /\ tx'[w] = tx[w]
      BY <1>1, <2>2 DEF Busy
    <3>2. tx[w].overdue \in SUBSET Attempts
      BY <3>1, Underway DEF Txn
    <3> QED  BY <1>1, <2>1, <3>1, <3>2 DEF RowsInv, WritesFit
  <2>3. /\ (Count(db) \in 0 .. MaxClaims)'
        /\ (\A j \in Attempts : db.attempt[j] # "none" <=> j <= Count(db))'
        /\ (\A j \in Attempts : db.fresh[j] => db.attempt[j] # "none")'
    BY <1>1, <2>1 DEF RowsInv
  <2> QED  BY <2>1, <2>2, <2>3 DEF RowsInv
<1> QED  BY <1>2, <1>3, <1>4

LEMMA StutterKeeps ==
  ASSUME IInv, UNCHANGED vars
  PROVE  IInv'
<1> USE DEF IInv
<1>1. UNCHANGED <<db, late, sent, recorded, audit, tx, effects>>
  BY DEF vars
<1>2. TypeInv' /\ LockInv' /\ OnceInv' /\ ChainInv'
  BY <1>1 DEF TypeInv, LockInv, Touched, Busy, OnceInv, Key, ChainInv, AuditLinear
<1>3. Count(db)' = Count(db) /\ \A j \in Attempts : Overdue(j)' = Overdue(j)
  BY <1>1 DEF Count, Overdue, Held
<1>4. ASSUME NEW w \in Workers, Busy(w)'
      PROVE  /\ tx'[w].kind \in Executor => db'.attempt[tx'[w].attempt] # "none"
             /\ tx'[w].kind = "claim" => Count(db) < MaxClaims
             /\ tx'[w].kind = "sweep" => \A j \in tx'[w].overdue : Overdue(j)'
             /\ WritesFit(tx[w])'
  <2>1. Busy(w) /\ tx'[w] = tx[w]
    BY <1>1, <1>4 DEF Busy
  <2>2. tx[w].overdue \in SUBSET Attempts
    BY <2>1, Underway DEF Txn
  <2> QED  BY <1>1, <1>3, <2>1, <2>2 DEF RowsInv, WritesFit
<1>5. /\ (Count(db) \in 0 .. MaxClaims)'
      /\ (\A j \in Attempts : db.attempt[j] # "none" <=> j <= Count(db))'
      /\ (\A j \in Attempts : db.fresh[j] => db.attempt[j] # "none")'
  BY <1>1, <1>3 DEF RowsInv
<1>6. RowsInv'
  BY <1>3, <1>4, <1>5 DEF RowsInv
<1> QED  BY <1>2, <1>6

LEMMA InitHolds == Init => IInv
<1> SUFFICES ASSUME Init PROVE IInv
  OBVIOUS
<1>1. \A w \in Workers : tx[w] = Idle /\ ~Busy(w)
  BY DEF Init, Busy, Idle
<1>2. /\ "queued" \in RunStatus /\ "none" \in Result
      /\ "queued" \in StageState /\ "none" \in AttemptState
  BY DEF RunStatus, Result, StageState, AttemptState
<1>3. PICK at, no : /\ at = [i \in Attempts |-> "none"]
                    /\ no = [i \in Attempts |-> FALSE]
  OBVIOUS
<1>4. db = [status |-> "queued", result |-> "none", stage |-> "queued", attempt |-> at,
            released |-> no, fresh |-> no]
  BY <1>3 DEF Init
<1>5. at \in [Attempts -> AttemptState] /\ no \in [Attempts -> BOOLEAN]
  BY <1>2, <1>3
<1>6. db \in Rows
  BY <1>2, <1>4, <1>5, RowsMade
<1>7. TypeInv
  BY <1>1, <1>6 DEF Init, TypeInv
<1>8. LockInv
  BY <1>1 DEF LockInv
<1>9. OnceInv
  BY <1>1 DEF Init, OnceInv
<1>10. ChainInv
  BY <1>1 DEF Init, ChainInv, AuditLinear
<1>11. RowsInv
  <2>1. \A i \in Attempts : db.attempt[i] = "none" /\ ~db.fresh[i] /\ ~(i <= 0)
    BY <1>3, <1>4 DEF Attempts
  <2>2. Count(db) = 0
    BY <2>1, Counted, MaxClaimsAssumption
  <2> QED  BY <1>1, <2>1, <2>2, MaxClaimsAssumption DEF RowsInv
<1> QED  BY <1>7, <1>8, <1>9, <1>10, <1>11 DEF IInv

LEMMA NextKeeps == IInv /\ [Next]_vars => IInv'
<1> SUFFICES ASSUME IInv, [Next]_vars PROVE IInv'
  OBVIOUS
<1>1. ASSUME NEW w \in Workers, Arrives(w) PROVE IInv'
  <2>1. PICK t : Begun(w, t)
    BY <1>1, ArrivesBegins
  <2> QED  BY <2>1, BeginKeeps
<1>2. ASSUME NEW w \in Workers, Step(w) PROVE IInv'
  <2>1. CASE Decide(w)
    BY <2>1, DecideKeeps
  <2>2. CASE Write(w)
    BY <2>2, WriteKeeps
  <2>3. CASE Commit(w)
    BY <2>3, CommitKeeps
  <2>4. CASE Abort(w)
    BY <2>4, AbortKeeps
  <2> QED  BY <1>2, <2>1, <2>2, <2>3, <2>4 DEF Step
<1>3. ASSUME NEW i \in Attempts, LeaseLapses(i) PROVE IInv'
  BY <1>3, LapseKeeps
<1>4. ASSUME NEW i \in Attempts, DeadlinePasses(i) PROVE IInv'
  BY <1>4, DeadlineKeeps
<1>5. CASE UNCHANGED vars
  BY <1>5, StutterKeeps
<1> QED  BY <1>1, <1>2, <1>3, <1>4, <1>5 DEF Next

\* The inductive invariant holds in every state.
THEOREM Invariant == Spec => []IInv
BY InitHolds, NextKeeps, PTL DEF Spec

-----------------------------------------------------------------------------
(* The properties *)

\* The rows keep their types, and no two transactions hold one row, however many requests are
\* handled at once.
THEOREM TypeCorrect == Spec => []TypeOK
<1>1. IInv => TypeOK
  <2> SUFFICES ASSUME IInv PROVE TypeOK
    OBVIOUS
  <2>1. \A w \in Workers : Busy(w) => tx[w].kind \in Transaction
    BY Underway DEF IInv, Txn
  <2> QED  BY <2>1 DEF IInv, TypeInv, LockInv, TypeOK
<1> QED  BY <1>1, Invariant, PTL

\* A signed request takes effect at most once, however many copies of it arrive, and when: a
\* copy under way reserves its key, and a recorded key is refused (signed_request,
\* verify_stage_mutation).
THEOREM RequestsTakeEffectOnce == Spec => []EffectOnce
<1>1. IInv => EffectOnce
  BY DEF IInv, OnceInv, EffectOnce
<1> QED  BY <1>1, Invariant, PTL

\* Concurrent handlers leave one audit chain: who has read the last event is alone with it until
\* it commits (append_audit).
THEOREM ChainIsLinear == Spec => []AuditLinear
<1>1. IInv => AuditLinear
  BY DEF IInv, ChainInv
<1> QED  BY <1>1, Invariant, PTL

\* A sweep ends no lease that was renewed, released or handed on after it was selected: what it
\* selected is locked, and stays overdue until it commits (expire_leases).
THEOREM SweepIsRight == Spec => SweepEndsOverdue
<1>1. IInv /\ [Next]_vars =>
        [\A w \in Workers :
           Busy(w) /\ tx[w].kind = "sweep" /\ Len(audit') > Len(audit) /\ ~Busy(w)' =>
             \A i \in tx[w].overdue : Held(i) /\ (~db.fresh[i] \/ i \in late)]_vars
  BY DEF IInv, RowsInv, Overdue
<1> QED  BY <1>1, Invariant, PTL DEF Spec, SweepEndsOverdue

=============================================================================
