---------------------------- MODULE AndroidSession ----------------------------
(***************************************************************************)
(* The interactive session of one Android run, as the control plane keeps  *)
(* it: the analyst queues commands, extends or finalizes the session, and  *)
(* the executor that holds the stage's lease polls for the next command    *)
(* and completes it.  A request reads the lease without a lock and locks   *)
(* the session's row after that, so that the lease may be over by the time *)
(* the row changes.  For a registration, which opens the session, these    *)
(* are two steps of AndroidExecutor, which composes this module with the   *)
(* executor.  A late poll or completion opens nothing: it closes a closed  *)
(* session, or takes a command as a poll does whose answer is lost.        *)
(***************************************************************************)
EXTENDS Naturals, Sequences, FiniteSetsExt, Functions

CONSTANTS
  Commands,   \* the commands that the analyst may give, each once
  Finalize,   \* the one of them that ends the session
  Duration,   \* duration_seconds of a registration, in units of time
  Extension,  \* what an extension adds, at most
  Limit       \* the hard limit of a session, counted from started_at

ASSUME FinalizeAssumption == Finalize \in Commands
ASSUME TimeAssumption == {Duration, Extension, Limit} \subseteq Nat \ {0}

VARIABLES
  session,    \* AndroidDynamicSession.state, "none" before there is one
  remaining,  \* expires_at - now of a session that is ready, 0 once it has passed
  age,        \* now - started_at, as far as the limit tells ages apart
  queue,      \* commands in state "queued", oldest first
  running,    \* commands in state "running"
  finished    \* commands in state "completed" or "failed"

sessionVars == <<session, remaining, age, queue, running, finished>>
clockVars == <<remaining, age>>
commandVars == <<queue, running, finished>>

\* States "ended", "failed" and "cancelled" are told apart by nobody.
SessionState == {"none", "ready", "finalizing", "recovering", "expired", "ended"}

SessionInit ==
  /\ session = "none"
  /\ remaining = 0
  /\ age = 0
  /\ queue = <<>>
  /\ running = {}
  /\ finished = {}

-----------------------------------------------------------------------------
(* Requests of the executor *)

\* What a registration does to the row, whatever its lease has come to: a session that
\* exists keeps its started_at and commands.
Register ==
  /\ session' = "ready"
  /\ remaining' = Duration
  /\ UNCHANGED <<age, commandVars>>

PollCloses == remaining = 0 \/ session \in {"finalizing", "expired"}

PollFinalize ==
  /\ PollCloses
  /\ session' = "finalizing"
  /\ remaining' = 0
  /\ UNCHANGED <<age, commandVars>>

PollNothing ==
  /\ ~PollCloses
  /\ queue = <<>>
  /\ UNCHANGED sessionVars

\* Mutant: the command stays queued until it is completed.
PollCommandKept(c) ==
  /\ ~PollCloses
  /\ queue # <<>> /\ c = Head(queue)
  /\ running' = running \cup {c}
  /\ IF c = Finalize THEN session' = "finalizing" /\ remaining' = 0
                     ELSE UNCHANGED <<session, remaining>>
  /\ UNCHANGED <<age, queue, finished>>

PollCommand(c) ==
  /\ ~PollCloses
  /\ queue # <<>> /\ c = Head(queue)
  /\ queue' = Tail(queue)
  /\ running' = running \cup {c}
  /\ IF c = Finalize THEN session' = "finalizing" /\ remaining' = 0
                     ELSE UNCHANGED <<session, remaining>>
  /\ UNCHANGED <<age, finished>>

CompleteCommand(c) ==
  /\ c \in running
  /\ running' = running \ {c}
  /\ finished' = finished \cup {c}
  /\ UNCHANGED <<session, clockVars, queue>>

\* The stage's end ends its session, if it has one.
CloseSession(state) ==
  /\ session' = IF session = "none" THEN "none" ELSE state
  /\ remaining' = 0
  /\ UNCHANGED <<age, commandVars>>

-----------------------------------------------------------------------------
(* Requests of the analyst *)

Request(c) ==
  /\ session = "ready"
  /\ c \notin Range(queue) \cup running \cup finished
  /\ c = Finalize \/ (queue = <<>> /\ running = {})
  /\ queue' = Append(queue, c)
  /\ UNCHANGED <<session, clockVars, running, finished>>

\* Mutant: an extension is bounded by the time left, not by the session's age.
ExtendedUnaged == Min({Limit, remaining + Extension})

\* expires_at, cut at started_at plus the limit.
Extended == Min({Limit - age, remaining + Extension})

Extend ==
  /\ session = "ready"
  /\ remaining' = Extended
  /\ UNCHANGED <<session, age, commandVars>>

-----------------------------------------------------------------------------

\* From the limit on, ages are not told apart.
Tick ==
  /\ session = "ready"
  /\ remaining > 0 \/ age < Limit
  /\ remaining' = Max({remaining - 1, 0})
  /\ age' = Min({age + 1, Limit})
  /\ UNCHANGED <<session, commandVars>>

AnalystNext ==
  \/ \E c \in Commands : Request(c)
  \/ Extend

SessionTypeOK ==
  /\ session \in SessionState
  /\ remaining \in 0 .. Max({Duration, Limit})
  /\ age \in 0 .. Limit
  /\ queue \in Seq(Commands)
  /\ running \subseteq Commands
  /\ finished \subseteq Commands

=============================================================================
