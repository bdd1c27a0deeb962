------------------------- MODULE AndroidExecutor_proofs -------------------------
(***************************************************************************)
(* Proofs about AndroidExecutor, for any number of runs, attempts and      *)
(* commands and any window of the session.  The invariant says which guest *)
(* and which lease the process is still responsible for at each of its     *)
(* steps, and where a command is from its request to its result.           *)
(***************************************************************************)
EXTENDS AndroidExecutor, TLAPS

-----------------------------------------------------------------------------
(* The inductive invariant *)

\* A stage that waits for an attempt may be attempted, and one at work has been.
PlaneInv ==
  /\ stage \in [Runs -> StageState]
  /\ attempts \in [Runs -> Nat]
  /\ cancelling \subseteq Runs
  /\ \A r \in Runs : attempts[r] <= MaxAttempts[r]
  /\ \A r \in Runs : stage[r] = "queued" => attempts[r] < MaxAttempts[r]
  /\ \A r \in Runs : stage[r] = "active" => attempts[r] > 0
  /\ pending \subseteq 1 .. MaxAttempts[Interactive]

PCs == InSession \cup {"idle", "prepare", "static", "start", "network", "dynamic", "collect",
                       "revoke", "stop", "deliver", "report", "stopping", "failing", "down"}

\* The process works on a run that nobody has reported.
ProcessInv ==
  /\ pc \in PCs /\ current \in Runs \cup {None} /\ activeRun \in RealWorld \cup {None}
  /\ thread \in {"off", "on", "failed"} /\ stop \in {"none", "cancelled", "timeout"}
  /\ fate \in {"ok", "error", "unstarted", "stop"} /\ doing \in Commands \cup {None}
  /\ current = None <=> pc \in {"idle", "down"}
  /\ current # None => stage[current] \notin {"completed", "acknowledged"}
  /\ pc \in InSession => current = Interactive

\* A lease that the process holds is the one that it will revoke, and it has none when it
\* reports a run.
LeaseInv ==
  /\ lease \in [RealWorld -> {"none", "held", "lost"}]
  /\ \A r \in RealWorld : lease[r] = "held" => activeRun = r
  /\ pc \in {"stop", "deliver", "report"} => activeRun = None
  /\ \A r \in RealWorld : stage[r] = "completed" => lease[r] # "held"

WithGuest == InSession \cup {"network", "dynamic", "collect", "revoke", "stop"}

\* A guest is that of the current run, between its start and its stop, or nobody's: an
\* analysis that got beyond its start has one that the process knows of.
GuestInv ==
  /\ guests \subseteq Runs /\ left \subseteq guests /\ unremoved \subseteq guests
  /\ guests \ (left \cup unremoved) \subseteq IF pc \in WithGuest THEN {current} ELSE {}
  /\ pc \in WithGuest /\ current \in left => pc \in {"revoke", "stop"} /\ fate = "unstarted"
  /\ pc \in {"deliver", "report"} => current \notin guests \ unremoved
  /\ \A r \in Runs : stage[r] = "completed" => r \notin guests \ unremoved

\* A command is queued once, and was executed only if it was taken from the queue.
CommandInv ==
  /\ executions \in [Commands -> Nat]
  /\ SessionTypeOK
  /\ \A i, j \in DOMAIN queue : queue[i] = queue[j] => i = j
  /\ \A i \in DOMAIN queue : queue[i] \notin running \cup finished
  /\ \A c \in Commands : executions[c] <= 1
  /\ \A c \in Commands : c \notin running \cup finished => executions[c] = 0

ExecutorInv == PlaneInv /\ ProcessInv /\ LeaseInv /\ GuestInv
IInv == ExecutorInv /\ CommandInv

-----------------------------------------------------------------------------
(* The session *)

LEMMA LeastOfTwo ==
  ASSUME NEW a \in Int, NEW b \in Int
  PROVE  /\ Min({a, b}) \in {a, b} /\ Min({a, b}) <= a /\ Min({a, b}) <= b
         /\ Max({a, b}) \in {a, b} /\ Max({a, b}) >= a /\ Max({a, b}) >= b
<1>1. \E x \in {a, b} : \A y \in {a, b} : x <= y
  OBVIOUS
<1>2. \E x \in {a, b} : \A y \in {a, b} : x >= y
  OBVIOUS
<1>3. Min({a, b}) \in {a, b} /\ \A y \in {a, b} : Min({a, b}) <= y
  BY <1>1 DEF Min
<1>4. Max({a, b}) \in {a, b} /\ \A y \in {a, b} : Max({a, b}) >= y
  BY <1>2 DEF Max
<1> QED  BY <1>3, <1>4

\* How long a session can have to go.
LEMMA Windows ==
  /\ Duration \in Nat \ {0} /\ Extension \in Nat \ {0} /\ Limit \in Nat \ {0}
  /\ Max({Duration, Limit}) \in Nat
  /\ Duration <= Max({Duration, Limit}) /\ Limit <= Max({Duration, Limit})
<1>1. Duration \in Nat \ {0} /\ Extension \in Nat \ {0} /\ Limit \in Nat \ {0}
  BY TimeAssumption
<1>2. Duration \in Int /\ Limit \in Int
  BY <1>1
<1>3. /\ Max({Duration, Limit}) \in {Duration, Limit}
      /\ Max({Duration, Limit}) >= Duration /\ Max({Duration, Limit}) >= Limit
  BY <1>2, LeastOfTwo, Zenon
<1> QED  BY <1>1, <1>3

\* Requests that leave the commands alone keep what is known of them.
LEMMA CommandsStay ==
  ASSUME CommandInv, UNCHANGED <<executions, commandVars>>,
         session' \in SessionState, remaining' \in 0 .. Max({Duration, Limit}), age' \in 0 .. Limit
  PROVE  CommandInv'
BY DEF CommandInv, commandVars, SessionTypeOK

LEMMA SessionStays ==
  ASSUME CommandInv, UNCHANGED <<executions, sessionVars>>
  PROVE  CommandInv'
BY CommandsStay DEF CommandInv, SessionTypeOK, sessionVars, commandVars

LEMMA SessionCloses ==
  ASSUME CommandInv, UNCHANGED executions, NEW r, NEW state \in SessionState,
         EndsSession(r, state)
  PROVE  CommandInv'
<1>1. CASE r = Interactive
  BY <1>1, CommandsStay, Windows
     DEF EndsSession, CloseSession, CommandInv, SessionTypeOK, SessionState
<1>2. CASE r # Interactive
  BY <1>2, SessionStays DEF EndsSession
<1> QED  BY <1>1, <1>2

LEMMA RegisterKeeps ==
  ASSUME CommandInv, UNCHANGED executions, Register
  PROVE  CommandInv'
BY CommandsStay, Windows DEF Register, CommandInv, SessionTypeOK, SessionState

LEMMA FinalizeKeeps ==
  ASSUME CommandInv, UNCHANGED executions, PollFinalize
  PROVE  CommandInv'
BY CommandsStay, Windows DEF PollFinalize, CommandInv, SessionTypeOK, SessionState

\* The first command of the queue is taken, and executed or, with the answer, lost.
LEMMA PollKeeps ==
  ASSUME CommandInv, NEW c \in Commands, PollCommand(c),
         \/ executions' = [executions EXCEPT ![c] = @ + 1]
         \/ UNCHANGED executions
  PROVE  CommandInv'
<1> USE DEF CommandInv, SessionTypeOK
<1>1. /\ queue \in Seq(Commands) /\ queue # <<>> /\ c = queue[1] /\ 1 \in DOMAIN queue
      /\ queue' = Tail(queue) /\ running' = running \cup {c} /\ finished' = finished
  BY DEF PollCommand
<1>2. queue' \in Seq(Commands) /\ DOMAIN queue' = 1 .. Len(queue) - 1
      /\ \A i \in DOMAIN queue' : queue'[i] = queue[i + 1] /\ i + 1 \in DOMAIN queue /\ i + 1 # 1
  BY <1>1
<1>3. \A i \in DOMAIN queue' : queue'[i] \notin running' \cup finished'
  BY <1>1, <1>2
<1>4. \A i, j \in DOMAIN queue' : queue'[i] = queue'[j] => i = j
  <2>1. \A i, j \in DOMAIN queue' : queue'[i] = queue'[j] => i + 1 = j + 1
    BY <1>2
  <2> QED  BY <1>2, <2>1
<1>5. executions[c] = 0
  BY <1>1
<1>6. executions' \in [Commands -> Nat]
      /\ \A d \in Commands : executions'[d] = executions[d] \/ (d = c /\ executions'[d] = 1)
  BY <1>5
<1>7. \A d \in Commands : /\ executions'[d] <= 1
                          /\ d \notin running' \cup finished' => executions'[d] = 0
  BY <1>1, <1>6
<1>8. SessionTypeOK'
  BY <1>1, <1>2, Windows DEF PollCommand, SessionState
<1> QED  BY <1>3, <1>4, <1>6, <1>7, <1>8

LEMMA CompleteKeeps ==
  ASSUME CommandInv, UNCHANGED executions, NEW c, CompleteCommand(c)
  PROVE  CommandInv'
<1> USE DEF CommandInv, SessionTypeOK
<1>1. /\ running' = running \ {c} /\ finished' = finished \cup {c} /\ c \in running
      /\ UNCHANGED <<session, remaining, age, queue>>
  BY DEF CompleteCommand, clockVars
<1>2. running' \cup finished' = running \cup finished
  BY <1>1
<1> QED  BY <1>1, <1>2

\* A command is requested once.
LEMMA RequestKeeps ==
  ASSUME CommandInv, UNCHANGED executions, NEW c \in Commands, Request(c)
  PROVE  CommandInv'
<1> USE DEF CommandInv, SessionTypeOK
<1>1. /\ queue' = Append(queue, c) /\ c \notin running \cup finished
      /\ \A i \in DOMAIN queue : queue[i] # c
      /\ UNCHANGED <<session, remaining, age, running, finished>>
  BY DEF Request, clockVars, Range
<1>2. /\ queue' \in Seq(Commands) /\ DOMAIN queue' = 1 .. Len(queue) + 1
      /\ queue'[Len(queue) + 1] = c /\ \A i \in DOMAIN queue : queue'[i] = queue[i]
      /\ \A i \in DOMAIN queue' : i \in DOMAIN queue \/ i = Len(queue) + 1
  BY <1>1
<1>3. \A i, j \in DOMAIN queue' : queue'[i] = queue'[j] => i = j
  BY <1>1, <1>2
<1>4. \A i \in DOMAIN queue' : queue'[i] \notin running \cup finished
  BY <1>1, <1>2
<1> QED  BY <1>1, <1>2, <1>3, <1>4

LEMMA ExtendKeeps ==
  ASSUME CommandInv, UNCHANGED executions, Extend
  PROVE  CommandInv'
<1>1. Limit - age \in 0 .. Limit /\ remaining + Extension \in Nat
  BY Windows DEF CommandInv, SessionTypeOK
<1>2. Extended \in 0 .. Limit
  <2>1. Extended \in {Limit - age, remaining + Extension} /\ Extended <= Limit - age
    BY <1>1, LeastOfTwo DEF Extended
  <2> QED  BY <1>1, <2>1, Windows
<1>3. remaining' \in 0 .. Max({Duration, Limit})
  BY <1>2, Windows DEF Extend
<1> QED  BY <1>3, CommandsStay DEF Extend, CommandInv, SessionTypeOK

LEMMA TickKeeps ==
  ASSUME CommandInv, UNCHANGED executions, Tick
  PROVE  CommandInv'
<1>1. PICK top \in Nat : top = Max({Duration, Limit})
  BY Windows
<1>2. remaining \in 0 .. top /\ age \in 0 .. Limit
  BY <1>1 DEF CommandInv, SessionTypeOK
<1>3. remaining' \in 0 .. top
  <2>1. remaining' \in {remaining - 1, 0} /\ remaining' >= 0
    BY <1>2, LeastOfTwo DEF Tick
  <2> QED  BY <1>2, <2>1
<1>4. age' \in 0 .. Limit
  <2>1. Limit \in Nat /\ Limit \in Int /\ age + 1 \in Nat /\ age + 1 \in Int
    BY <1>2, Windows
  <2>2. age' \in {age + 1, Limit} /\ age' <= Limit
    BY <2>1, LeastOfTwo, Zenon DEF Tick
  <2> QED  BY <2>1, <2>2
<1> QED  BY <1>1, <1>3, <1>4, CommandsStay DEF Tick, CommandInv, SessionTypeOK

-----------------------------------------------------------------------------
(* The control plane                                                        *)

LEMMA CancelStep ==
  ASSUME ExecutorInv, NEW r \in Runs, Cancel(r)
  PROVE  ExecutorInv'
<1> USE RunsAssumption, AttemptsAssumption
    DEF ExecutorInv, ProcessInv, Cancel, leaseVars, claimVars, workerVars
<1>1. PlaneInv'
  BY DEF PlaneInv, Step, StageState, Terminal
<1>2. ProcessInv'
  BY DEF PlaneInv, Step, PCs, InSession
<1>3. LeaseInv'
  BY DEF LeaseInv, Step, PlaneInv, InSession
<1>4. GuestInv'
  BY DEF GuestInv, Step, PlaneInv, WithGuest, InSession
<1> QED  BY <1>1, <1>2, <1>3, <1>4

LEMMA LeaseExpiresStep ==
  ASSUME ExecutorInv, NEW r \in Runs, LeaseExpires(r)
  PROVE  ExecutorInv'
<1> USE RunsAssumption, AttemptsAssumption
    DEF ExecutorInv, ProcessInv, LeaseExpires, leaseVars, claimVars, workerVars, Expires, Ends,
        MayRetry
<1>1. PlaneInv'
  BY DEF PlaneInv, Step, StageState, Terminal
<1>2. ProcessInv'
  BY DEF PlaneInv, Step, PCs, InSession
<1>3. LeaseInv'
  BY DEF LeaseInv, Step, PlaneInv, InSession
<1>4. GuestInv'
  BY DEF GuestInv, Step, PlaneInv, WithGuest, InSession
<1> QED  BY <1>1, <1>2, <1>3, <1>4

LEMMA DeadlinePassesStep ==
  ASSUME ExecutorInv, NEW r \in Runs, DeadlinePasses(r)
  PROVE  ExecutorInv'
<1> USE RunsAssumption, AttemptsAssumption
    DEF ExecutorInv, ProcessInv, DeadlinePasses, leaseVars, claimVars, workerVars, Expires, Ends,
        MayRetry
<1>1. PlaneInv'
  BY DEF PlaneInv, Step, StageState, Terminal
<1>2. ProcessInv'
  BY DEF PlaneInv, Step, PCs, InSession
<1>3. LeaseInv'
  BY DEF LeaseInv, Step, PlaneInv, InSession
<1>4. GuestInv'
  BY DEF GuestInv, Step, PlaneInv, WithGuest, InSession
<1> QED  BY <1>1, <1>2, <1>3, <1>4

-----------------------------------------------------------------------------
(* The analysis of a run                                                    *)

LEMMA ClaimStep ==
  ASSUME ExecutorInv, NEW r \in Runs, Claim(r)
  PROVE  ExecutorInv'
<1> USE RunsAssumption, AttemptsAssumption
    DEF ExecutorInv, ProcessInv, Claim, leaseVars, workerVars
<1>1. PlaneInv'
  <2>1. attempts[r] \in Nat /\ MaxAttempts[r] \in Nat
    BY DEF PlaneInv
  <2>2. attempts[r] < MaxAttempts[r]
    BY DEF PlaneInv
  <2>3. attempts[r] + 1 <= MaxAttempts[r] /\ attempts[r] + 1 \in Nat
    BY <2>1, <2>2
  <2>4. attempts' \in [Runs -> Nat] /\ \A s \in Runs : attempts'[s] <= MaxAttempts[s]
    BY <2>1, <2>3 DEF PlaneInv
  <2> QED  BY <2>4 DEF PlaneInv, Step, StageState
<1>2. ProcessInv'
  BY DEF PlaneInv, Step, PCs, InSession
<1>3. LeaseInv'
  BY DEF LeaseInv, Step, PlaneInv, InSession
<1>4. GuestInv'
  BY DEF GuestInv, Step, PlaneInv, WithGuest, InSession
<1> QED  BY <1>1, <1>2, <1>3, <1>4

LEMMA PrepareStep ==
  ASSUME ExecutorInv, Prepare
  PROVE  ExecutorInv'
<1> USE RunsAssumption, AttemptsAssumption
    DEF ExecutorInv, ProcessInv, Prepare, Excepts, planeVars, workerVars
<1>1. PlaneInv'
  BY DEF PlaneInv, Step, StageState, Terminal
<1>2. ProcessInv'
  BY DEF PlaneInv, Step, PCs, InSession
<1>3. LeaseInv'
  BY DEF LeaseInv, Step, PlaneInv, InSession
<1>4. GuestInv'
  BY DEF GuestInv, Step, PlaneInv, WithGuest, InSession
<1> QED  BY <1>1, <1>2, <1>3, <1>4

LEMMA StaticStep ==
  ASSUME ExecutorInv, Static
  PROVE  ExecutorInv'
<1> USE RunsAssumption, AttemptsAssumption
    DEF ExecutorInv, ProcessInv, Static, Excepts, planeVars, workerVars
<1>1. PlaneInv'
  BY DEF PlaneInv, Step, StageState, Terminal
<1>2. ProcessInv'
  BY DEF PlaneInv, Step, PCs, InSession
<1>3. LeaseInv'
  BY DEF LeaseInv, Step, PlaneInv, InSession
<1>4. GuestInv'
  BY DEF GuestInv, Step, PlaneInv, WithGuest, InSession
<1> QED  BY <1>1, <1>2, <1>3, <1>4

LEMMA StartStep ==
  ASSUME ExecutorInv, Start
  PROVE  ExecutorInv'
<1> USE RunsAssumption, AttemptsAssumption
    DEF ExecutorInv, ProcessInv, Start, Boots, planeVars, leaseVars
<1>1. PlaneInv'
  BY DEF PlaneInv, Step, StageState, Terminal
<1>2. ProcessInv'
  BY DEF PlaneInv, Step, PCs, InSession
<1>3. LeaseInv'
  BY DEF LeaseInv, Step, PlaneInv, InSession
<1>4. GuestInv'
  BY DEF GuestInv, Step, PlaneInv, WithGuest, InSession
<1> QED  BY <1>1, <1>2, <1>3, <1>4

LEMMA AcquireStep ==
  ASSUME ExecutorInv, Acquire
  PROVE  ExecutorInv'
<1> USE RunsAssumption, AttemptsAssumption
    DEF ExecutorInv, ProcessInv, Acquire, Acquired, planeVars, workerVars
<1>1. PlaneInv'
  BY DEF PlaneInv, Step, StageState, Terminal
<1>2. ProcessInv'
  BY DEF PlaneInv, Step, PCs, InSession
<1>3. LeaseInv'
  BY DEF LeaseInv, Step, PlaneInv, InSession
<1>4. GuestInv'
  BY DEF GuestInv, Step, PlaneInv, WithGuest, InSession
<1> QED  BY <1>1, <1>2, <1>3, <1>4

LEMMA DynamicStep ==
  ASSUME ExecutorInv, Dynamic
  PROVE  ExecutorInv'
<1> USE RunsAssumption, AttemptsAssumption
    DEF ExecutorInv, ProcessInv, Dynamic, Leaves, planeVars, leaseVars, workerVars
<1>1. PlaneInv'
  BY DEF PlaneInv, Step, StageState, Terminal
<1>2. ProcessInv'
  BY DEF PlaneInv, Step, PCs, InSession
<1>3. LeaseInv'
  BY DEF LeaseInv, Step, PlaneInv, InSession
<1>4. GuestInv'
  BY DEF GuestInv, Step, PlaneInv, WithGuest, InSession
<1> QED  BY <1>1, <1>2, <1>3, <1>4

LEMMA CollectStep ==
  ASSUME ExecutorInv, Collect
  PROVE  ExecutorInv'
<1> USE RunsAssumption, AttemptsAssumption
    DEF ExecutorInv, ProcessInv, Collect, Leaves, planeVars, leaseVars, workerVars
<1>1. PlaneInv'
  BY DEF PlaneInv, Step, StageState, Terminal
<1>2. ProcessInv'
  BY DEF PlaneInv, Step, PCs, InSession
<1>3. LeaseInv'
  BY DEF LeaseInv, Step, PlaneInv, InSession
<1>4. GuestInv'
  BY DEF GuestInv, Step, PlaneInv, WithGuest, InSession
<1> QED  BY <1>1, <1>2, <1>3, <1>4

LEMMA ReadyStep ==
  ASSUME ExecutorInv, Ready
  PROVE  ExecutorInv'
<1> USE RunsAssumption, AttemptsAssumption
    DEF ExecutorInv, ProcessInv, Ready, leaseVars, claimVars, workerVars
<1>1. PlaneInv'
  <2>1. current = Interactive /\ current \in Runs /\ stage[current] = "active"
    BY DEF Step, InSession, Valid
  <2>2. attempts[current] \in 1 .. MaxAttempts[Interactive]
    BY <2>1 DEF PlaneInv
  <2> QED  BY <2>2 DEF PlaneInv
<1>2. ProcessInv'
  BY DEF PlaneInv, Step, PCs, InSession
<1>3. LeaseInv'
  BY DEF LeaseInv, Step, PlaneInv, InSession
<1>4. GuestInv'
  BY DEF GuestInv, Step, PlaneInv, WithGuest, InSession
<1> QED  BY <1>1, <1>2, <1>3, <1>4

LEMMA RegistersStep ==
  ASSUME ExecutorInv, NEW n \in pending, Registers(n)
  PROVE  ExecutorInv'
<1> USE RunsAssumption, AttemptsAssumption
    DEF ExecutorInv, ProcessInv, Registers, leaseVars, claimVars, workerVars
<1>1. PlaneInv'
  BY DEF PlaneInv, Step, StageState, Terminal
<1>2. ProcessInv'
  BY DEF PlaneInv, Step, PCs, InSession
<1>3. LeaseInv'
  BY DEF LeaseInv, Step, PlaneInv, InSession
<1>4. GuestInv'
  BY DEF GuestInv, Step, PlaneInv, WithGuest, InSession
<1> QED  BY <1>1, <1>2, <1>3, <1>4

LEMMA PollStep ==
  ASSUME ExecutorInv, Poll
  PROVE  ExecutorInv'
<1> USE RunsAssumption, AttemptsAssumption
    DEF ExecutorInv, ProcessInv, Poll, Executes, planeVars, leaseVars, claimVars, workerVars
<1>1. PlaneInv'
  BY DEF PlaneInv, Step, StageState, Terminal
<1>2. ProcessInv'
  BY DEF PlaneInv, Step, PCs, InSession
<1>3. LeaseInv'
  BY DEF LeaseInv, Step, PlaneInv, InSession
<1>4. GuestInv'
  BY DEF GuestInv, Step, PlaneInv, WithGuest, InSession
<1> QED  BY <1>1, <1>2, <1>3, <1>4

LEMMA AnswerStep ==
  ASSUME ExecutorInv, Answer
  PROVE  ExecutorInv'
<1> USE RunsAssumption, AttemptsAssumption
    DEF ExecutorInv, ProcessInv, Answer, planeVars, leaseVars, claimVars, workerVars
<1>1. PlaneInv'
  BY DEF PlaneInv, Step, StageState, Terminal
<1>2. ProcessInv'
  BY DEF PlaneInv, Step, PCs, InSession
<1>3. LeaseInv'
  BY DEF LeaseInv, Step, PlaneInv, InSession
<1>4. GuestInv'
  BY DEF GuestInv, Step, PlaneInv, WithGuest, InSession
<1> QED  BY <1>1, <1>2, <1>3, <1>4

LEMMA SessionFailsStep ==
  ASSUME ExecutorInv, SessionFails
  PROVE  ExecutorInv'
<1> USE RunsAssumption, AttemptsAssumption
    DEF ExecutorInv, ProcessInv, SessionFails, SessionLeaves, Leaves, planeVars, leaseVars,
        workerVars
<1>1. PlaneInv'
  BY DEF PlaneInv, Step, StageState, Terminal
<1>2. ProcessInv'
  BY DEF PlaneInv, Step, PCs, InSession
<1>3. LeaseInv'
  BY DEF LeaseInv, Step, PlaneInv, InSession
<1>4. GuestInv'
  BY DEF GuestInv, Step, PlaneInv, WithGuest, InSession
<1> QED  BY <1>1, <1>2, <1>3, <1>4

LEMMA SessionStopsStep ==
  ASSUME ExecutorInv, SessionStops
  PROVE  ExecutorInv'
<1> USE RunsAssumption, AttemptsAssumption
    DEF ExecutorInv, ProcessInv, SessionStops, SessionLeaves, Leaves, planeVars, leaseVars,
        workerVars
<1>1. PlaneInv'
  BY DEF PlaneInv, Step, StageState, Terminal
<1>2. ProcessInv'
  BY DEF PlaneInv, Step, PCs, InSession
<1>3. LeaseInv'
  BY DEF LeaseInv, Step, PlaneInv, InSession
<1>4. GuestInv'
  BY DEF GuestInv, Step, PlaneInv, WithGuest, InSession
<1> QED  BY <1>1, <1>2, <1>3, <1>4

-----------------------------------------------------------------------------
(* The clean-up and the outcome                                             *)

LEMMA RevokeStep ==
  ASSUME ExecutorInv, Revoke
  PROVE  ExecutorInv'
<1> USE RunsAssumption, AttemptsAssumption
    DEF ExecutorInv, ProcessInv, Revoke, RevokeFails, Replaced, Excepts, planeVars, leaseVars
<1>1. PlaneInv'
  BY DEF PlaneInv, Step, StageState, Terminal
<1>2. ProcessInv'
  BY DEF PlaneInv, Step, PCs, InSession
<1>3. LeaseInv'
  BY DEF LeaseInv, Step, PlaneInv, InSession
<1>4. GuestInv'
  BY DEF GuestInv, Step, PlaneInv, WithGuest, InSession
<1> QED  BY <1>1, <1>2, <1>3, <1>4

LEMMA StopStep ==
  ASSUME ExecutorInv, Stop
  PROVE  ExecutorInv'
<1> USE RunsAssumption, AttemptsAssumption
    DEF ExecutorInv, ProcessInv, Stop, GuestStops, StopRaises, Replaced, Excepts, planeVars
<1>1. PlaneInv'
  BY DEF PlaneInv, Step, StageState, Terminal
<1>2. ProcessInv'
  BY DEF PlaneInv, Step, PCs, InSession
<1>3. LeaseInv'
  BY DEF LeaseInv, Step, PlaneInv, InSession
<1>4. GuestInv'
  BY DEF GuestInv, Step, PlaneInv, WithGuest, InSession
<1> QED  BY <1>1, <1>2, <1>3, <1>4

LEMMA DeliverStep ==
  ASSUME ExecutorInv, Deliver
  PROVE  ExecutorInv'
<1> USE RunsAssumption, AttemptsAssumption
    DEF ExecutorInv, ProcessInv, Deliver, Excepts, planeVars, workerVars
<1>1. PlaneInv'
  BY DEF PlaneInv, Step, StageState, Terminal
<1>2. ProcessInv'
  BY DEF PlaneInv, Step, PCs, InSession
<1>3. LeaseInv'
  BY DEF LeaseInv, Step, PlaneInv, InSession
<1>4. GuestInv'
  BY DEF GuestInv, Step, PlaneInv, WithGuest, InSession
<1> QED  BY <1>1, <1>2, <1>3, <1>4

LEMMA ReportStep ==
  ASSUME ExecutorInv, Report
  PROVE  ExecutorInv'
<1> USE RunsAssumption, AttemptsAssumption
    DEF ExecutorInv, ProcessInv, Report, Reports, Ends, Released, Dies, MayRetry, Valid,
        workerVars
<1>1. PlaneInv'
  BY DEF PlaneInv, Step, StageState, Terminal
<1>2. ProcessInv'
  BY DEF PlaneInv, Step, PCs, InSession
<1>3. LeaseInv'
  BY DEF LeaseInv, Step, PlaneInv, InSession
<1>4. GuestInv'
  BY DEF GuestInv, Step, PlaneInv, WithGuest, InSession
<1> QED  BY <1>1, <1>2, <1>3, <1>4

LEMMA AcknowledgeStep ==
  ASSUME ExecutorInv, Acknowledge
  PROVE  ExecutorInv'
<1> USE RunsAssumption, AttemptsAssumption
    DEF ExecutorInv, ProcessInv, Acknowledge, planeVars, Reports, Ends, Released, Dies, MayRetry,
        Valid, workerVars
<1>1. PlaneInv'
  BY DEF PlaneInv, Step, StageState, Terminal
<1>2. ProcessInv'
  BY DEF PlaneInv, Step, PCs, InSession
<1>3. LeaseInv'
  BY DEF LeaseInv, Step, PlaneInv, InSession
<1>4. GuestInv'
  BY DEF GuestInv, Step, PlaneInv, WithGuest, InSession
<1> QED  BY <1>1, <1>2, <1>3, <1>4

LEMMA FailStep ==
  ASSUME ExecutorInv, Fail
  PROVE  ExecutorInv'
<1> USE RunsAssumption, AttemptsAssumption
    DEF ExecutorInv, ProcessInv, Fail, Reports, Ends, Released, Dies, MayRetry, Valid, workerVars
<1>1. PlaneInv'
  BY DEF PlaneInv, Step, StageState, Terminal
<1>2. ProcessInv'
  BY DEF PlaneInv, Step, PCs, InSession
<1>3. LeaseInv'
  BY DEF LeaseInv, Step, PlaneInv, InSession
<1>4. GuestInv'
  BY DEF GuestInv, Step, PlaneInv, WithGuest, InSession
<1> QED  BY <1>1, <1>2, <1>3, <1>4

-----------------------------------------------------------------------------
(* The heartbeats and the environment                                       *)

LEMMA HeartbeatStopsStep ==
  ASSUME ExecutorInv, HeartbeatStops
  PROVE  ExecutorInv'
<1> USE RunsAssumption, AttemptsAssumption
    DEF ExecutorInv, ProcessInv, HeartbeatStops, planeVars, claimVars, workerVars, Valid,
        Expires, Ends, MayRetry
<1>1. PlaneInv'
  BY DEF PlaneInv, Step, StageState, Terminal
<1>2. ProcessInv'
  BY DEF PlaneInv, Step, PCs, InSession
<1>3. LeaseInv'
  BY DEF LeaseInv, Step, PlaneInv, InSession
<1>4. GuestInv'
  BY DEF GuestInv, Step, PlaneInv, WithGuest, InSession
<1> QED  BY <1>1, <1>2, <1>3, <1>4

LEMMA HeartbeatFailsStep ==
  ASSUME ExecutorInv, HeartbeatFails
  PROVE  ExecutorInv'
<1> USE RunsAssumption, AttemptsAssumption
    DEF ExecutorInv, ProcessInv, HeartbeatFails, planeVars, claimVars, workerVars
<1>1. PlaneInv'
  BY DEF PlaneInv, Step, StageState, Terminal
<1>2. ProcessInv'
  BY DEF PlaneInv, Step, PCs, InSession
<1>3. LeaseInv'
  BY DEF LeaseInv, Step, PlaneInv, InSession
<1>4. GuestInv'
  BY DEF GuestInv, Step, PlaneInv, WithGuest, InSession
<1> QED  BY <1>1, <1>2, <1>3, <1>4

LEMMA CrashStep ==
  ASSUME ExecutorInv, Crash
  PROVE  ExecutorInv'
<1> USE RunsAssumption, AttemptsAssumption
    DEF ExecutorInv, ProcessInv, Crash, Dies, planeVars
<1>1. PlaneInv'
  BY DEF PlaneInv, Step, StageState, Terminal
<1>2. ProcessInv'
  BY DEF PlaneInv, Step, PCs, InSession
<1>3. LeaseInv'
  BY DEF LeaseInv, Step, PlaneInv, InSession
<1>4. GuestInv'
  BY DEF GuestInv, Step, PlaneInv, WithGuest, InSession
<1> QED  BY <1>1, <1>2, <1>3, <1>4

LEMMA ResetStep ==
  ASSUME ExecutorInv, Reset
  PROVE  ExecutorInv'
<1> USE RunsAssumption, AttemptsAssumption
    DEF ExecutorInv, ProcessInv, Reset, planeVars, leaseVars, claimVars, workerVars
<1>1. PlaneInv'
  BY DEF PlaneInv, Step, StageState, Terminal
<1>2. ProcessInv'
  BY DEF PlaneInv, Step, PCs, InSession
<1>3. LeaseInv'
  BY DEF LeaseInv, Step, PlaneInv, InSession
<1>4. GuestInv'
  BY DEF GuestInv, Step, PlaneInv, WithGuest, InSession
<1> QED  BY <1>1, <1>2, <1>3, <1>4

LEMMA GuestDiesStep ==
  ASSUME ExecutorInv, NEW r \in Runs, GuestDies(r)
  PROVE  ExecutorInv'
<1> USE RunsAssumption, AttemptsAssumption
    DEF ExecutorInv, ProcessInv, GuestDies, planeVars, leaseVars, claimVars
<1>1. PlaneInv'
  BY DEF PlaneInv, Step, StageState, Terminal
<1>2. ProcessInv'
  BY DEF PlaneInv, Step, PCs, InSession
<1>3. LeaseInv'
  BY DEF LeaseInv, Step, PlaneInv, InSession
<1>4. GuestInv'
  BY DEF GuestInv, Step, PlaneInv, WithGuest, InSession
<1> QED  BY <1>1, <1>2, <1>3, <1>4

LEMMA BrokerDropsStep ==
  ASSUME ExecutorInv, NEW r \in RealWorld, BrokerDrops(r)
  PROVE  ExecutorInv'
<1> USE RunsAssumption, AttemptsAssumption
    DEF ExecutorInv, ProcessInv, BrokerDrops, planeVars, leaseVars, claimVars, workerVars
<1>1. PlaneInv'
  BY DEF PlaneInv, Step, StageState, Terminal
<1>2. ProcessInv'
  BY DEF PlaneInv, Step, PCs, InSession
<1>3. LeaseInv'
  BY DEF LeaseInv, Step, PlaneInv, InSession
<1>4. GuestInv'
  BY DEF GuestInv, Step, PlaneInv, WithGuest, InSession
<1> QED  BY <1>1, <1>2, <1>3, <1>4

-----------------------------------------------------------------------------
(* Every step                                                               *)

LEMMA InitHolds == Init => IInv
<1> SUFFICES ASSUME Init PROVE IInv
  OBVIOUS
<1> USE RunsAssumption, AttemptsAssumption DEF Init
<1>1. PlaneInv
  BY DEF PlaneInv, StageState
<1>2. ProcessInv
  BY DEF ProcessInv, PCs, InSession
<1>3. LeaseInv
  BY DEF LeaseInv
<1>4. GuestInv
  BY DEF GuestInv
<1>5. CommandInv
  BY Windows DEF CommandInv, SessionInit, SessionTypeOK, SessionState
<1> QED  BY <1>1, <1>2, <1>3, <1>4, <1>5 DEF IInv, ExecutorInv

LEMMA ExecutorStays ==
  ASSUME ExecutorInv, UNCHANGED <<planeVars, pc, leaseVars, claimVars, doing, lease, workerVars>>
  PROVE  ExecutorInv'
<1> USE DEF ExecutorInv, planeVars, leaseVars, claimVars, workerVars
<1>1. PlaneInv'
  BY DEF PlaneInv
<1>2. ProcessInv'
  BY DEF ProcessInv
<1>3. LeaseInv'
  BY DEF LeaseInv
<1>4. GuestInv'
  BY DEF GuestInv
<1> QED  BY <1>1, <1>2, <1>3, <1>4

LEMMA ExecutorNext == ExecutorInv /\ Next => ExecutorInv'
<1> SUFFICES ASSUME ExecutorInv, Next PROVE ExecutorInv'
  OBVIOUS
<1>1. ASSUME ProcessNext PROVE ExecutorInv'
  BY <1>1, ClaimStep, PrepareStep, StaticStep, StartStep, AcquireStep, DynamicStep, ReadyStep,
     PollStep, AnswerStep, SessionStopsStep, CollectStep, RevokeStep, StopStep, DeliverStep,
     ReportStep, AcknowledgeStep, FailStep DEF ProcessNext
<1>2. ASSUME HeartbeatNext PROVE ExecutorInv'
  BY <1>2, HeartbeatStopsStep, HeartbeatFailsStep DEF HeartbeatNext
<1>3. ASSUME PlaneNext PROVE ExecutorInv'
  BY <1>3, CancelStep, LeaseExpiresStep, DeadlinePassesStep, RegistersStep DEF PlaneNext
<1>4. ASSUME Analyst \/ Time PROVE ExecutorInv'
  <2>1. UNCHANGED <<planeVars, pc, leaseVars, claimVars, doing, lease, workerVars>>
    BY <1>4 DEF Analyst, Time
  <2> QED  BY <2>1, ExecutorStays
<1>5. ASSUME EnvironmentNext PROVE ExecutorInv'
  BY <1>4, <1>5, CrashStep, ResetStep, GuestDiesStep, BrokerDropsStep DEF EnvironmentNext
<1> QED  BY <1>1, <1>2, <1>3, <1>5, SessionFailsStep DEF Next

LEMMA ExpiryKeepsCommands ==
  ASSUME CommandInv, UNCHANGED executions, NEW r, Expires(r)
  PROVE  CommandInv'
BY SessionCloses DEF Expires, SessionState

LEMMA OutcomeKeepsCommands ==
  ASSUME CommandInv, NEW from, NEW state, NEW closed \in SessionState,
         Reports(from, state, closed)
  PROVE  CommandInv'
<1>1. CASE EndsSession(current, closed) /\ UNCHANGED executions
  BY <1>1, SessionCloses
<1>2. CASE UNCHANGED <<executions, sessionVars>>
  BY <1>2, SessionStays
<1> QED  BY <1>1, <1>2 DEF Reports

LEMMA CommandsNext == CommandInv /\ Next => CommandInv'
<1> SUFFICES ASSUME CommandInv, Next PROVE CommandInv'
  OBVIOUS
<1>1. ASSUME \/ \E r \in Runs : Claim(r) \/ Cancel(r) \/ GuestDies(r)
             \/ \E r \in RealWorld : BrokerDrops(r)
             \/ Prepare \/ Static \/ Start \/ Acquire \/ Dynamic \/ Collect
             \/ SessionStops \/ SessionFails \/ Revoke \/ Stop \/ Deliver
             \/ Ready \/ HeartbeatFails \/ Crash \/ Reset
      PROVE  CommandInv'
  <2>1. UNCHANGED <<executions, sessionVars>>
    BY <1>1 DEF Claim, Cancel, GuestDies, BrokerDrops, Prepare, Static, Start, Acquire, Dynamic,
                Ready, Collect, SessionStops, SessionFails, SessionLeaves, Revoke, Stop, Deliver,
                HeartbeatFails, Crash, Reset
  <2> QED  BY <2>1, SessionStays
<1>2. ASSUME NEW n \in pending, Registers(n) PROVE CommandInv'
  BY <1>2, RegisterKeeps DEF Registers
<1>3. ASSUME Poll PROVE CommandInv'
  <2>1. CASE PollFinalize /\ UNCHANGED executions
    BY <2>1, FinalizeKeeps
  <2>2. CASE PollNothing /\ UNCHANGED executions
    BY <2>2, SessionStays DEF PollNothing
  <2>3. ASSUME NEW c \in Commands, PollCommand(c), Executes(c) \/ UNCHANGED executions
        PROVE  CommandInv'
    BY <2>3, PollKeeps DEF Executes
  <2> QED  BY <1>3, <2>1, <2>2, <2>3 DEF Poll
<1>4. ASSUME Answer PROVE CommandInv'
  BY <1>4, CompleteKeeps DEF Answer
<1>5. ASSUME Report \/ Acknowledge \/ Fail PROVE CommandInv'
  <2>1. {"ended", "recovering"} \subseteq SessionState
    BY DEF SessionState
  <2>2. CASE Report
    BY <2>1, <2>2, OutcomeKeepsCommands DEF Report
  <2>3. CASE Acknowledge
    BY <2>1, <2>3, OutcomeKeepsCommands, SessionStays DEF Acknowledge
  <2>4. CASE Fail
    BY <2>1, <2>4, OutcomeKeepsCommands DEF Fail
  <2> QED  BY <1>5, <2>2, <2>3, <2>4
<1>6. ASSUME HeartbeatStops PROVE CommandInv'
  BY <1>6, ExpiryKeepsCommands, SessionStays DEF HeartbeatStops
<1>7. ASSUME NEW r \in Runs, LeaseExpires(r) \/ DeadlinePasses(r) PROVE CommandInv'
  BY <1>7, ExpiryKeepsCommands DEF LeaseExpires, DeadlinePasses
<1>8. ASSUME Analyst PROVE CommandInv'
  BY <1>8, RequestKeeps, ExtendKeeps DEF Analyst, AnalystNext
<1>9. ASSUME Time PROVE CommandInv'
  BY <1>9, TickKeeps DEF Time
<1> QED  BY <1>1, <1>2, <1>3, <1>4, <1>5, <1>6, <1>7, <1>8, <1>9
         DEF Next, ProcessNext, HeartbeatNext, PlaneNext, EnvironmentNext

LEMMA NextKeeps == IInv /\ [Next]_vars => IInv'
<1>1. IInv /\ Next => IInv'
  BY ExecutorNext, CommandsNext DEF IInv
<1>2. IInv /\ UNCHANGED vars => IInv'
  <2> SUFFICES ASSUME IInv, UNCHANGED vars PROVE IInv'
    OBVIOUS
  <2>1. ExecutorInv'
    BY ExecutorStays DEF IInv, vars
  <2>2. CommandInv'
    BY SessionStays DEF IInv, vars
  <2> QED  BY <2>1, <2>2 DEF IInv
<1> QED  BY <1>1, <1>2

\* The inductive invariant holds in every state.
THEOREM Invariant == Spec => []IInv
BY InitHolds, NextKeeps, PTL DEF Spec

-----------------------------------------------------------------------------
(* The properties                                                           *)

\* Every variable of the executor, the session and the worker keeps its type, and no run is
\* attempted more often than it may be (expire_attempt, fail_stage).
THEOREM TypeCorrect == Spec => []TypeOK
<1>1. IInv => TypeOK
  <2> SUFFICES ASSUME IInv PROVE TypeOK
    OBVIOUS
  <2>1. \A r \in Runs : attempts[r] \in 0 .. MaxAttempts[r]
    BY AttemptsAssumption DEF IInv, ExecutorInv, PlaneInv
  <2> QED  BY <2>1 DEF IInv, ExecutorInv, PlaneInv, ProcessInv, LeaseInv, GuestInv, CommandInv,
                       PCs, TypeOK
<1> QED  BY <1>1, Invariant, PTL

\* A command of the analyst is executed at most once, whatever answers are lost, however often
\* the executor dies and whichever attempt registers the session again (android_session_poll).
THEOREM EachCommandOnce == Spec => []CommandsExecutedOnce
<1>1. IInv => CommandsExecutedOnce
  BY DEF IInv, CommandInv, CommandsExecutedOnce
<1> QED  BY <1>1, Invariant, PTL

\* A run is reported complete only with no lease that the process still holds for it and no
\* guest but one that Docker failed to remove, and its cancellation done with no guest but
\* such a one or one that an earlier attempt left, for any number of runs that follow each
\* other in one process (AndroidExecutor._analyze).
THEOREM ReportsAreQuiet == Spec => []ReportedRunIsQuiet
<1>1. IInv => ReportedRunIsQuiet
  <2> SUFFICES ASSUME IInv, NEW r \in Runs
               PROVE  /\ stage[r] = "completed" => r \notin guests \ unremoved
                      /\ stage[r] = "completed" /\ r \in RealWorld => lease[r] # "held"
                      /\ stage[r] = "acknowledged" => r \notin guests \ (left \cup unremoved)
    BY DEF ReportedRunIsQuiet
  <2>1. stage[r] = "acknowledged" => r \notin guests \ (left \cup unremoved)
    <3> SUFFICES ASSUME stage[r] = "acknowledged", r \in guests \ (left \cup unremoved)
                 PROVE  FALSE
      OBVIOUS
    <3>1. r = current
      BY DEF IInv, ExecutorInv, GuestInv
    <3> QED  BY <3>1, RunsAssumption DEF IInv, ExecutorInv, ProcessInv
  <2> QED  BY <2>1 DEF IInv, ExecutorInv, LeaseInv, GuestInv
<1> QED  BY <1>1, Invariant, PTL

=============================================================================
