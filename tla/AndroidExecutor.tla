---------------------------- MODULE AndroidExecutor ----------------------------
(***************************************************************************)
(* The Android executor: one process in a disposable worker that takes the *)
(* platform stages of runs one after the other, with the guest it starts,  *)
(* the egress lease it holds at the broker, the thread that renews its     *)
(* leases, and the interactive session.  The worker is powered off when    *)
(* the process ends, and comes back without guests.  One run, Interactive, *)
(* has a session; runs in RealWorld have an egress lease.                  *)
(***************************************************************************)
EXTENDS AndroidSession

CONSTANTS
  Runs,
  Interactive,  \* the run with an interactive session
  RealWorld,    \* runs of profile real_world_egress, the others are isolated
  MaxAttempts,  \* max_attempts of a run's stage
  None

ASSUME RunsAssumption == Interactive \in Runs /\ RealWorld \subseteq Runs /\ None \notin Runs
ASSUME AttemptsAssumption == MaxAttempts \in [Runs -> Nat \ {0}]

VARIABLES
  \* the control plane
  stage,       \* state of a run's platform stage
  attempts,    \* attempts made of it
  cancelling,  \* runs in status CANCELLING
  pending,     \* attempts of the interactive run whose registration of the session was
               \* found to hold a lease, and has not changed the session yet
  \* the process
  pc,          \* what process_stage does next, "down" without a process
  current,     \* the run of its claim
  activeRun,   \* _egress_active_run
  thread,      \* the heartbeats: "off", "on", or "failed" after an outage
  stop,        \* the reason of a stop the heartbeats were asked for
  fate,        \* how the dynamic analysis went
  doing,       \* the command it got from its last poll
  \* the broker and the worker
  lease,       \* a run's lease at the broker: "none", "held" by the process that
               \* got the answer, or "lost" when nobody knows of it
  guests,      \* runs whose guest runs, and holds the worker's ADB endpoint
  executions,  \* history: how often a command was executed
  left,        \* guests that no process will stop: the clean-up that should have
               \* done it raised before, or never knew of the guest
  unremoved    \* guests that Docker failed to remove, which nobody noticed

planeVars == <<stage, attempts, cancelling, pending>>
leaseVars == <<activeRun, thread, stop>>
claimVars == <<current, fate>>
workerVars == <<guests, left, unremoved>>
vars == <<planeVars, pc, leaseVars, claimVars, doing, lease, workerVars,
          executions, sessionVars>>

\* The run is terminal in the last three: its executor completed the analysis, it
\* acknowledged the cancellation, or the run was failed, timed out or cancelled.
Terminal == {"completed", "acknowledged", "ended"}
StageState == {"queued", "active"} \cup Terminal

Init ==
  /\ stage = [r \in Runs |-> "queued"]
  /\ attempts = [r \in Runs |-> 0]
  /\ cancelling = {}
  /\ pending = {}
  /\ pc = "idle"
  /\ current = None
  /\ activeRun = None
  /\ thread = "off"
  /\ stop = "none"
  /\ fate = "ok"
  /\ doing = None
  /\ lease = [r \in RealWorld |-> "none"]
  /\ guests = {}
  /\ left = {}
  /\ unremoved = {}
  /\ executions = [c \in Commands |-> 0]
  /\ SessionInit

\* Its lease is valid until the stage ends under it.
Valid == current # None /\ stage[current] = "active"

\* check_stop
StopSeen == stop # "none"

Step(from, to) == pc = from /\ pc' = to

\* The process ends, with an exception that nothing catches; the worker powers off.
Dies ==
  /\ pc' = "down"
  /\ current' = None
  /\ activeRun' = None
  /\ thread' = "off"
  /\ stop' = "none"
  /\ fate' = "ok"
  /\ doing' = None
  /\ guests' = {}
  /\ left' = {}
  /\ unremoved' = {}
  /\ lease' = [r \in RealWorld |-> IF lease[r] = "held" THEN "lost" ELSE lease[r]]

Released ==
  /\ pc' = "idle"
  /\ current' = None
  /\ stop' = "none"
  /\ fate' = "ok"
  /\ UNCHANGED <<activeRun, thread, doing, lease, workerVars>>

\* An exception ends the attempt, and what else was to be done is forgotten.
Excepts ==
  /\ pc' = "failing"
  /\ thread' = "off"
  /\ stop' = "none"
  /\ fate' = "ok"

EndsSession(r, state) ==
  IF r = Interactive THEN CloseSession(state) ELSE UNCHANGED sessionVars

-----------------------------------------------------------------------------
(* The control plane *)

\* Without a stage at work, a cancellation ends the run at once.
Cancel(r) ==
  /\ stage[r] \in {"queued", "active"}
  /\ r \notin cancelling
  /\ IF stage[r] = "active"
     THEN cancelling' = cancelling \cup {r} /\ UNCHANGED stage
     ELSE stage' = [stage EXCEPT ![r] = "ended"] /\ UNCHANGED cancelling
  /\ UNCHANGED <<attempts, pending, pc, leaseVars, claimVars, doing, lease, workerVars,
                 executions, sessionVars>>

Ends(r, state) ==
  /\ stage' = [stage EXCEPT ![r] = state]
  /\ cancelling' = IF state \in Terminal THEN cancelling \ {r} ELSE cancelling

\* Mutant: the attempt that ends is not counted.
MayRetryUncounted(r) == attempts[r] - 1 < MaxAttempts[r]

MayRetry(r) == attempts[r] < MaxAttempts[r]

\* expire_attempt
Expires(r) ==
  /\ stage[r] = "active"
  /\ Ends(r, IF r \notin cancelling /\ MayRetry(r) THEN "queued" ELSE "ended")
  /\ EndsSession(r, "expired")
  /\ UNCHANGED <<attempts, pending>>

\* The scheduler ends the attempts whose lease nobody renews ...
LeaseExpires(r) ==
  /\ r # current \/ thread # "on"
  /\ Expires(r)
  /\ UNCHANGED <<pc, leaseVars, claimVars, doing, lease, workerVars, executions>>

\* ... and those that are past their deadline.
DeadlinePasses(r) ==
  /\ Expires(r)
  /\ UNCHANGED <<pc, leaseVars, claimVars, doing, lease, workerVars, executions>>

-----------------------------------------------------------------------------
(* process_stage *)

Claim(r) ==
  /\ Step("idle", "prepare")
  /\ stage[r] = "queued"
  /\ stage' = [stage EXCEPT ![r] = "active"]
  /\ attempts' = [attempts EXCEPT ![r] = @ + 1]
  /\ cancelling' = cancelling \ {r}
  /\ current' = r
  /\ UNCHANGED <<pending, leaseVars, fate, doing, lease, workerVars, executions, sessionVars>>

\* Download, upload to MobSF, native task, and the first heartbeat.
Prepare ==
  /\ pc = "prepare"
  /\ \/ Excepts
     \/ /\ Valid
        /\ current \in cancelling
        /\ pc' = "stopping"
        /\ stop' = "cancelled"
        /\ UNCHANGED <<thread, fate>>
     \/ /\ Valid
        /\ current \notin cancelling
        /\ pc' = "static"
        /\ thread' = "on"
        /\ UNCHANGED <<stop, fate>>
  /\ UNCHANGED <<planeVars, activeRun, current, doing, lease, workerVars,
                 executions, sessionVars>>

\* Static analysis precedes the try: an exception here has nothing to clean up.
Static ==
  /\ pc = "static"
  /\ \/ pc' = "start" /\ ~StopSeen /\ UNCHANGED <<thread, stop, fate>>
     \/ pc' = "stopping" /\ StopSeen /\ thread' = "off" /\ UNCHANGED <<stop, fate>>
     \/ Excepts
  /\ UNCHANGED <<planeVars, activeRun, current, doing, lease, workerVars,
                 executions, sessionVars>>

\* A container has its run's name, and one that is published to the open network holds
\* the worker's ADB endpoint: neither is free while the container of another start is there.
Boots ==
  /\ current \notin guests
  /\ guests \cap RealWorld = {}
  /\ guests' = guests \cup {current}

\* A start that fails leaves no container, or one that did not boot or capture, which stop
\* will remove, or one that it does not know of: docker run raised, and had started it.
Start ==
  /\ pc = "start"
  /\ \/ /\ Boots
        /\ pc' = "network"
        /\ UNCHANGED <<fate, left>>
     \/ /\ fate' = "unstarted"
        /\ pc' = "revoke"
        /\ \/ UNCHANGED <<guests, left>>
           \/ Boots /\ left' \in {left, left \cup {current}}
  /\ UNCHANGED <<planeVars, leaseVars, current, doing, lease, unremoved, executions, sessionVars>>

\* Only activeRun tells the process of a lease: one that it could not revoke for an earlier run
\* is forgotten when the next run's takes its place.
Acquired(r) ==
  /\ lease' = [l \in RealWorld |-> IF l = r THEN "held"
                                  ELSE IF lease[l] = "held" THEN "lost" ELSE lease[l]]
  /\ activeRun' = r

\* The broker opens the lease, or refuses it, perhaps after it ended the one the run
\* had; an answer that does not come in time looks like a refusal.
Acquire ==
  /\ pc = "network"
  /\ IF current \notin RealWorld
     THEN pc' = "dynamic" /\ UNCHANGED <<activeRun, lease, fate>>
     ELSE \/ /\ Acquired(current)
             /\ pc' = "dynamic"
             /\ UNCHANGED fate
          \/ /\ \E l \in {"none", "lost", lease[current]} : lease' = [lease EXCEPT ![current] = l]
             /\ fate' = "error"
             /\ pc' = "revoke"
             /\ UNCHANGED activeRun
  /\ UNCHANGED <<planeVars, thread, stop, current, doing, workerVars, executions, sessionVars>>

\* An exception, or a stop, in the try block of _analyze.
Leaves(result) == pc' = "revoke" /\ fate' = result

Dynamic ==
  /\ pc = "dynamic"
  /\ \/ StopSeen /\ Leaves("stop")
     \/ Leaves("error")
     \/ /\ ~StopSeen
        /\ pc' = IF current = Interactive THEN "ready" ELSE "collect"
        /\ UNCHANGED fate
  /\ UNCHANGED <<planeVars, leaseVars, current, doing, lease, workerVars,
                 executions, sessionVars>>

Collect ==
  /\ pc = "collect"
  /\ \/ StopSeen /\ Leaves("stop")
     \/ Leaves("error")
     \/ ~StopSeen /\ pc' = "revoke" /\ UNCHANGED fate
  /\ UNCHANGED <<planeVars, leaseVars, current, doing, lease, workerVars,
                 executions, sessionVars>>

-----------------------------------------------------------------------------
(* _interactive_session: an exception or a stop leaves the loop for the finally *)
(* block, and a request without a lease is refused, which is an exception.      *)

InSession == {"ready", "registering", "poll", "answer"}

SessionLeaves(result) ==
  /\ pc \in InSession
  /\ Leaves(result)
  /\ doing' = None
  /\ UNCHANGED <<planeVars, leaseVars, current, lease, workerVars, executions, sessionVars>>

\* A registration that is not answered in time is not repeated.
SessionStops ==
  \/ pc = "poll" /\ StopSeen /\ SessionLeaves("stop")
  \/ (~Valid \/ pc = "registering") /\ SessionLeaves("error")

\* A request fails for good, or a call of the loop raises.
SessionFails == SessionLeaves("error")

\* The registration is found to hold a lease ...
Ready ==
  /\ Step("ready", "registering")
  /\ Valid
  /\ pending' = pending \cup {attempts[current]}
  /\ UNCHANGED <<stage, attempts, cancelling, leaseVars, claimVars, doing, lease, workerVars,
                 executions, sessionVars>>

\* ... and changes the session, with its process waiting for the answer or not, and with its
\* attempt at work or not.
Registers(n) ==
  /\ n \in pending
  /\ pending' = pending \ {n}
  /\ Register
  /\ pc' = IF pc = "registering" /\ attempts[Interactive] = n THEN "poll" ELSE pc
  /\ UNCHANGED <<stage, attempts, cancelling, leaseVars, claimVars, doing, lease, workerVars,
                 executions>>

\* An exception of a command is its result.
Executes(c) ==
  /\ doing' = c
  /\ executions' = [executions EXCEPT ![c] = @ + 1]

\* A poll whose answer is lost is repeated, as a request of its own.
Poll ==
  /\ pc = "poll"
  /\ Valid /\ ~StopSeen
  /\ \/ /\ PollFinalize
        /\ pc' \in {"poll", "collect"}
        /\ UNCHANGED <<doing, executions>>
     \/ /\ PollNothing
        /\ UNCHANGED <<pc, doing, executions>>
     \/ \E c \in Commands :
          /\ PollCommand(c)
          /\ \/ pc' = "answer" /\ Executes(c)
             \/ UNCHANGED <<pc, doing, executions>>
  /\ UNCHANGED <<planeVars, leaseVars, claimVars, lease, workerVars>>

Answer ==
  /\ pc = "answer"
  /\ Valid
  /\ CompleteCommand(doing)
  /\ pc' = IF doing = Finalize THEN "collect" ELSE "poll"
  /\ doing' = None
  /\ UNCHANGED <<planeVars, leaseVars, claimVars, lease, workerVars, executions>>

-----------------------------------------------------------------------------
(* The finally block, and the outcome *)

\* What an exception in the finally block does: the rest of it is skipped.
Replaced ==
  /\ Excepts
  /\ left' = left \cup ((guests \cap {current}) \ unremoved)
  /\ UNCHANGED unremoved

\* Mutant: a revocation that raises is logged and the block goes on ...
RevokeFailsOn == pc' = "stop" /\ UNCHANGED <<leaseVars, fate, left, unremoved>>

\* The process forgets the run only once it has revoked the lease and downloaded the
\* capture: the broker refuses one without a complete packet, or does not answer.
RevokeFails == Replaced /\ UNCHANGED activeRun

Revoke ==
  /\ pc = "revoke"
  /\ IF activeRun = None
     THEN pc' = "stop" /\ UNCHANGED <<lease, leaseVars, fate, left, unremoved>>
     ELSE \/ /\ lease' = [lease EXCEPT ![activeRun] = "none"]
             /\ activeRun' = None
             /\ pc' = "stop"
             /\ UNCHANGED <<thread, stop, fate, left, unremoved>>
          \/ /\ lease' \in {lease, [lease EXCEPT ![activeRun] = "none"]}
             /\ RevokeFails
  /\ UNCHANGED <<planeVars, current, doing, guests, executions, sessionVars>>

\* Docker answers within two minutes, or subprocess raises.
StopRaises == Replaced

\* The process stops the guest that it knows of.  A removal that fails is ignored, and
\* the guest forgotten.
GuestStops ==
  /\ IF current \in guests \ (left \cup unremoved)
     THEN \/ guests' = guests \ {current} /\ UNCHANGED unremoved
          \/ UNCHANGED guests /\ unremoved' = unremoved \cup {current}
     ELSE UNCHANGED <<guests, unremoved>>
  /\ UNCHANGED left

\* avd.stop, and the check for a PCAP after it.
Stop ==
  /\ pc = "stop"
  /\ \/ /\ GuestStops
        /\ \/ fate = "stop" /\ pc' = "stopping" /\ thread' = "off" /\ UNCHANGED stop
           \/ fate \in {"ok", "error"} /\ pc' = "deliver" /\ UNCHANGED <<thread, stop>>
           \/ fate # "stop" /\ Excepts
        /\ fate' = "ok"
     \/ StopRaises /\ UNCHANGED guests
  /\ UNCHANGED <<planeVars, activeRun, current, doing, lease, executions, sessionVars>>

\* The uploads, after which an outage of the heartbeats fails the analysis.
Deliver ==
  /\ pc = "deliver"
  /\ \/ /\ Valid
        /\ thread # "failed"
        /\ pc' = "report"
        /\ thread' = "off"
        /\ stop' = "none"
        /\ UNCHANGED fate
     \/ Excepts
  /\ UNCHANGED <<planeVars, activeRun, current, doing, lease, workerVars,
                 executions, sessionVars>>

\* A request that ends the stage; if it is refused, or its answer is lost, so is the
\* failure that is reported next: an exception that nothing catches.
Reports(from, state, closed) ==
  /\ pc = from
  /\ \/ /\ Valid
        /\ Ends(current, state)
        /\ EndsSession(current, closed)
        /\ Released \/ Dies
     \/ /\ Dies
        /\ UNCHANGED <<stage, cancelling, sessionVars>>
  /\ UNCHANGED <<attempts, pending, executions>>

Report == Reports("report", "completed", "ended")

\* Only a cancellation is acknowledged; the control plane knows of a time-out.
Acknowledge ==
  \/ stop = "cancelled" /\ Reports("stopping", "acknowledged", "ended")
  \/ /\ pc = "stopping"
     /\ stop = "timeout"
     /\ Released
     /\ UNCHANGED <<planeVars, executions, sessionVars>>

Fail ==
  IF current # None /\ MayRetry(current)
  THEN Reports("failing", "queued", "recovering")
  ELSE Reports("failing", "ended", "ended")

-----------------------------------------------------------------------------
(* The heartbeat thread *)

Heartbeating == thread = "on" /\ stop = "none"

HeartbeatStops ==
  /\ Heartbeating
  /\ Valid
  /\ \/ /\ current \in cancelling
        /\ stop' = "cancelled"
        /\ UNCHANGED <<planeVars, sessionVars>>
     \/ /\ current \notin cancelling
        /\ stop' = "timeout"
        /\ Expires(current)
  /\ UNCHANGED <<pc, activeRun, thread, claimVars, doing, lease, workerVars, executions>>

\* The control plane, or the broker, refuses or fails a minute of heartbeats.
HeartbeatFails ==
  /\ Heartbeating
  /\ thread' = "failed"
  /\ UNCHANGED <<planeVars, pc, activeRun, stop, claimVars, doing, lease, workerVars,
                 executions, sessionVars>>

-----------------------------------------------------------------------------
(* The environment *)

Crash ==
  /\ pc # "down"
  /\ Dies
  /\ UNCHANGED <<planeVars, executions, sessionVars>>

\* The controller resets the worker to its sealed image.
Reset ==
  /\ Step("down", "idle")
  /\ UNCHANGED <<planeVars, leaseVars, claimVars, doing, lease, workerVars,
                 executions, sessionVars>>

\* The end of the current guest shows as an exception of a step above.
GuestDies(r) ==
  /\ r \in guests \ {current}
  /\ guests' = guests \ {r}
  /\ left' = left \ {r}
  /\ unremoved' = unremoved \ {r}
  /\ UNCHANGED <<planeVars, pc, leaseVars, claimVars, doing, lease, executions, sessionVars>>

\* The broker restarts, or ends a lease that is over its ceiling.
BrokerDrops(r) ==
  /\ lease[r] # "none"
  /\ lease' = [lease EXCEPT ![r] = "none"]
  /\ UNCHANGED <<planeVars, pc, leaseVars, claimVars, doing, workerVars, executions, sessionVars>>

Analyst ==
  /\ AnalystNext
  /\ UNCHANGED <<planeVars, pc, leaseVars, claimVars, doing, lease, workerVars,
                 executions>>

Time ==
  /\ Tick
  /\ UNCHANGED <<planeVars, pc, leaseVars, claimVars, doing, lease, workerVars,
                 executions>>

-----------------------------------------------------------------------------

ProcessNext ==
  \/ \E r \in Runs : Claim(r)
  \/ Prepare \/ Static \/ Start \/ Acquire \/ Dynamic
  \/ Ready \/ Poll \/ Answer \/ SessionStops
  \/ Collect \/ Revoke \/ Stop \/ Deliver
  \/ Report \/ Acknowledge \/ Fail

HeartbeatNext == HeartbeatStops \/ HeartbeatFails

PlaneNext ==
  \/ \E r \in Runs : Cancel(r) \/ LeaseExpires(r) \/ DeadlinePasses(r)
  \/ \E n \in pending : Registers(n)

EnvironmentNext ==
  \/ Crash \/ Reset
  \/ \E r \in Runs : GuestDies(r)
  \/ \E r \in RealWorld : BrokerDrops(r)
  \/ Analyst \/ Time

Next == ProcessNext \/ SessionFails \/ HeartbeatNext \/ PlaneNext \/ EnvironmentNext

Spec == Init /\ [][Next]_vars

\* The process runs on while it lives, the scheduler ends a lease that nobody renews, and
\* time passes.  Nothing makes an analyst act, a request or a heartbeat fail, a registration
\* arrive, a process crash, or the controller reset a worker.
Fairness ==
  /\ WF_vars(ProcessNext)
  /\ WF_vars(LeaseExpires(Interactive))
  /\ WF_vars(Time)

FairSpec == Spec /\ Fairness

-----------------------------------------------------------------------------
(* Correctness *)

\* Every variable holds values of its type.
TypeOK ==
  /\ stage \in [Runs -> StageState]
  /\ \A r \in Runs : attempts[r] \in 0 .. MaxAttempts[r]
  /\ cancelling \subseteq Runs
  /\ pending \subseteq 1 .. MaxAttempts[Interactive]
  /\ pc \in InSession \cup {"idle", "prepare", "static", "start", "network", "dynamic",
       "collect", "revoke", "stop", "deliver", "report", "stopping", "failing", "down"}
  /\ current \in Runs \cup {None}
  /\ activeRun \in RealWorld \cup {None}
  /\ thread \in {"off", "on", "failed"}
  /\ stop \in {"none", "cancelled", "timeout"}
  /\ fate \in {"ok", "error", "unstarted", "stop"}
  /\ doing \in Commands \cup {None}
  /\ lease \in [RealWorld -> {"none", "held", "lost"}]
  /\ guests \subseteq Runs
  /\ left \subseteq guests
  /\ unremoved \subseteq guests
  /\ executions \in [Commands -> Nat]
  /\ SessionTypeOK

\* A command of the analyst is executed at most once: not again when the answer of
\* a poll or of a completion is lost, when the executor crashes between the two,
\* when a later attempt registers the session anew.
CommandsExecutedOnce == \A c \in Commands : executions[c] <= 1

\* A run is reported complete only when its clean-up went through: no egress lease that the
\* process holds for it, and no guest, unless Docker failed to remove it, of which the code
\* takes no notice.  A cancellation is acknowledged with a guest only if Docker failed, or
\* if an earlier attempt left it; its lease may be left in the same way, as may one that the
\* process forgot for another run's, or that the broker opened without an answer in time.
ReportedRunIsQuiet ==
  \A r \in Runs :
    /\ stage[r] = "completed" => r \notin guests \ unremoved
    /\ stage[r] = "completed" /\ r \in RealWorld => lease[r] # "held"
    /\ stage[r] = "acknowledged" => r \notin guests \ (left \cup unremoved)

\* A session of an attempt at work ends: the analyst may extend it, but not for ever, and an
\* attempt that crashes, loses its lease or the network leaves no session open.
SessionEnds == session = "ready" /\ stage[Interactive] = "active" ~> session # "ready"

-----------------------------------------------------------------------------
(* Said of the code by its documents or comments, and not kept (README) *)

\* The guest that the executor retains is given up when its stage ends.  A revocation
\* that raises skips its stop.
GuestsEnd == \A r \in Runs : stage[r] \in Terminal ~> r \notin guests

\* "expiry also forces cleanup" of a session.  A registration that was found to hold a lease
\* opens the session after its last attempt has expired, and nothing closes it again.
EverySessionEnds == session = "ready" ~> session # "ready"

\* An extension is available "up to a hard 30-minute session limit".  A registration by
\* a later attempt grants a full window to a session of any age.
SessionWithinLimit == session = "ready" => age + remaining <= Limit

=============================================================================
