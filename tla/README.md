# Verification of UMAT, the control plane of E-Rakshak

UMAT coordinates malware analysis: users submit samples, executors on other hosts poll for
work, run the sample in a guest, and hand back signed bundles, which workers normalise,
aggregate and turn into a report.  This directory holds TLA+ models of the parts of UMAT
whose correctness depends on the order of events, the TLC runs that check them on small
instances, and proofs, checked by TLAPS, that hold for every value of the constants.
`PROJECT.json` lists the runs, the source lines of every definition, the hazards that
guided the choice of properties, the disagreements found, and the theorems.

Paths below are relative to the repository root.

## The system

UMAT is a FastAPI application over PostgreSQL (READ COMMITTED), with separate processes that
poll the same database or the API.

| Component | State | Operations | Hard behaviour |
|---|---|---|---|
| Run and stage pipeline (`api/executor_routes.py`, `api/case_routes.py`, `scheduler/worker.py`, `adapters/worker.py`, `reporting/worker.py`, `db/models.py`) | status and result of a run, six stages, attempts, leases, report snapshot | confirm, cancel, claim, heartbeat, complete, fail, cancellation-ack, sweep, adapt, aggregate, report | expiry against late answers, retries, cancellation while an executor works, two processes creating the same stage, worker errors and crashes between commits |
| Signed requests (`executors/security.py`, `executor_routes.py`) | nonce, idempotency key, stored response | verify, replay | duplicated and reordered calls, a replay without a stored response |
| Egress broker (`egress/`, `capture.py`) | leases, captures, kernel sets with time-outs | acquire, heartbeat, revoke, close | partial failure between external calls, dying captures, crash with kernel state left behind, shared guest addresses |
| Executor processes (`windows/executor.py`, `android/executor.py`, `c2/executor.py`, `executors/fake.py`) | claimed stage, native task, active egress run, sandbox | poll loop, heartbeat thread, clean-up | exceptions in clean-up, recovery of a native task |
| Interactive sessions (`android/workflow_routes.py`, `windows/workflow_routes.py`, executor routes) | session state, command queue | ready, poll, command, finish | commands delivered once, sessions closed when the stage ends |
| Windows profiles (`windows/profile_routes.py`, executor routes) and CAPE gateway (`cape_gateway/`) | profile, operation and its lease, guest machine | create, delete, claim, complete, rollback | retries of half-done external steps, default profile moved without a lock |
| Android profiles (`android/profile_routes.py`) | profile state | create, update, qualify, retire | a default that is retired |
| Audit chain (`audit/chain.py`) | events with sequence and hash | append, verify | concurrent appends |
| Backup (`operations/backup.py`) | live and paired data sets | create, verify, restore, rollback | failure between two replacements |
| Artifact store and intake (`storage/local.py`, `intake/routing.py`, `case_routes.py`) | quarantined and promoted objects | quarantine, promote, verify | a crash between file and row |
| Aggregation (`reporting/aggregator.py`, `c2/runtime.py`, `c2/bundle.py`) | none beyond the snapshot | corroboration, coalescing, verdict and confidence rules | several steps rewrite what others rely on; stages that ended early |
| Authentication and administration (`auth/`, `api/auth_routes.py`, `api/admin_routes.py`) | sessions, throttle, users | login, logout, enable, delete | the last administrator removed by two requests at once |
| Run retry and console (`api/operations_routes.py`) | runs | retry | two retries of one run |
| Deployment, native runtimes, exports, bundle formats, web console, migrations | external or none | | not modelled, see the end |

How they interact: users reach `case_routes`; executors reach `executor_routes` over signed
requests that carry a lease token; the scheduler, the adapter worker and the report worker
share only the database with the API; executors ask the egress broker for network access
with the run's identifier; each state change appends to the audit chain in the same
transaction.

What makes each part correct, in a sentence: a stage has at most one holder and one outcome,
and its attempts are bounded; a run moves through its stages in order, ends, and stays ended;
a request is applied once; a guest reaches the network only while a lease and a capture cover
it; a session ends, and a run that is reported done has left nothing running; a machine, a
backup, a restore is whole or as it was; a verdict says no more and no less than the evidence;
somebody is left to administer.

## The modules

| Module | Models | Run |
|---|---|---|
| `RunPipeline`, refining `RetryJob` | a run, its stages, attempts and leases; one committed transaction is one action | `deployed`, `slice`, `cancellation_ends` |
| `StageRequests` | the same handlers on one stage with the read, the write and the commit of a transaction apart; signed requests; the audit chain | `requests` |
| `EgressBroker` | the broker, its captures and the kernel's sets | `egress` |
| `AndroidExecutor`, extending `AndroidSession` | the Android executor in its disposable worker, composed with the stages, the interactive session and the egress leases | `android` |
| `WindowsExecutor` | the Windows executor composed with its stage, its CAPE tasks, the console session and the egress lease | `windows` |
| `WindowsProfiles`, refining `ProfileMachine` | profile operations through control plane, executor and CAPE gateway | `profiles` |
| `CaseVerdict` | the way of the evidence from detected event to verdict | `verdict` |
| `EvidenceStore` | artifact store, intake, exports, backup, restore, rollback | `evidence`, `restore_id` |
| `Administration` | users and default profile under concurrent requests | `administration` |

`<Module>_MC` gives each its small instance, and `<Module>_proofs` its theorems; `Windows_proofs` has
those of `WindowsExecutor` and of `WindowsProfiles`, two occupations of one process.  The modules
overlap on purpose: `RunPipeline` takes a handler as atomic, `StageRequests` takes it apart for one
stage; the executors' modules keep of a stage only what its executor can see and of the broker only
whether it holds a lease, `EgressBroker` has the broker's own steps.

### What is left of the plan

1. The C2 executor as a process, and two stages of one run in `StageRequests` (the race of two
   completed adaptations, which the report worker's sweep makes up for as deployed).
2. Login throttle and sessions; qualification of Android profiles.

## RunPipeline

One run.  Every action is one committed transaction of the code, with everything the handler
does in it.

| Variable | Code |
|---|---|
| `status`, `result`, `cancelAsked`, `c2Enabled` | columns of `AnalysisRun` |
| `stage` | `AnalysisStage.state` by stage type; `"absent"` if there is no row (type and run are unique together) |
| `backoff` | `next_attempt_at` lies in the future |
| `attempts` | the `AnalysisAttempt` rows of a stage in the order of `attempt_number`, each with its `ExecutorLease` (one to one) |
| `failing` | the stages whose worker raised and rolled back but has not recorded the failure: the time between two commits of one poll |
| `snapshot` | the verdict of the run's `CaseReportSnapshot` |

| Action | Code |
|---|---|
| `ConfirmRun`, `CancelRun` | `confirm_run`, `cancel_run` |
| `ClaimStage` | `claim_stage`, including the sweep it begins with; it sets the run `running` whatever it was |
| `Heartbeat`, `CompleteStage`, `FailStage`, `CancellationAck` | the handlers of that name, behind `LeaseValid` (`validate_lease`) |
| `SweepLeases` | a poll of the scheduler, or a claim that finds nothing to lease |
| `AdaptBundle`, `AdaptRaises`, `MarkAdaptationFailed`, `SettleOrphanedRun` | the adapter worker: success, rollback, the except path's own commit, the sweep for orphans |
| `EnsureAggregation`, `AggregateCase`, `GenerateReport`, `ReportRaises`, `MarkReportFailed` | the report worker |
| `WorkerCrash` | a worker dies between its rollback and the commit that records the failure |
| `LeaseLapses`, `DeadlinePasses`, `BackoffElapses` | time, as far as the code compares it |

Abstractions.  Time is three Booleans per row: only the comparisons of `now` with
`expires_at`, the deadline and `next_attempt_at` matter.  A heartbeat renews a lease, so it
leaves a fresh lease fresh; one that finds the run cancelling changes nothing else and is no
action.  The clocks of a released lease are never read again and are set to FALSE.  A sweep is
given in closed form: all due attempts end in one step.  Their order, which the code takes
from `expires_at`, only decides which of two failures of different kinds gives the run its
result, and the model admits both.  The limit of 1000 leases per sweep is left out.  Executor
identity, tokens and capabilities restrict who may act, not what an action does; any enrolled
executor with the lease may act.  Other runs appear only where they matter: a worker's poll
may be spent on another run, which is why `EnsureAggregation` can commit on its own.  Artifacts,
sessions and audit events are written in the same transactions and read by none of these
guards.  After its rollback the report worker reads `stage.id`, an expired attribute, which
can raise before the failure is recorded; the model has both outcomes (`MarkReportFailed`,
`WorkerCrash`).  One adapter and one report worker run, as deployed.

`ServedAssumption` states what the deployment provides and the code does not enforce: the
executors claim only the two analyses, or, in the vertical slice of the fake executor, all six
stages with no workers running.

### Properties

* `TypeOK`.
* `LeaseDiscipline`: a stage is leased or running exactly while one unreleased lease exists,
  that of its newest attempt, in the same state.
* `OneCompletion`: an outcome is owed to the newest attempt; no other ever completes.
* `RetryBudget`: attempts never exceed the policy.
* `JobsConsistent`: the inductive invariant behind the three (see the proofs).
* `RunFollowsStages`: stages exist only after those they build on (`StageOrder`), and a result is
  not contradicted by the stages (`CancelledRunIsQuiet`, `CompletedRunIsDone`).
* `SettledStaysSettled`, `TerminalStays`: what ended stays ended.
* `StagesAreJobs`: each stage implements `RetryJob`, the job that is offered once, held by one
  taker at a time, taken at most `Budget` times, and ends for good.  The refinement mapping is
  `JobPhase` and the number of attempts.
* `RunsProgress`: under fairness, no stage is held for ever (`LeasesEnd`) and every run ends
  (`RunEnds`), except for the states `Stranded` names: the report worker failed, or a cancelling
  run has no active stage left.

### Runs

| Run | Instance | Shows |
|---|---|---|
| `deployed` | executors for the analyses with three attempts each (the default policy), workers for the rest; C2 on and off, confirmed or not | the safety properties, the refinement, and `RunsProgress` under `FairSpec`; 107 110 states |
| `slice` | executors for all six stages; two attempts for the adaptations, one elsewhere | the same for the API's own workflow, where two stages may be leased at once; 117 000 states |
| `cancellation_ends` | as `deployed`, two attempts | a claim of the documentation that the code does not keep, see "Known divergences" |

The bounds: the only unbounded thing in the model is the number of attempts, which the policy
bounds.  Three attempts have a first, a middle and a last; two leased stages in one run are
the most the workflow can reach.  `TerminalStays` is checked in `deployed` only: in the slice
a stage that fails for good ends the run while its sibling is queued, and a claim of the
sibling reopens it.  The deployed split has no such sibling.  Deadlock is not checked because
a run that ended has no step left.

### Fairness

The scheduler and both workers loop for ever with a bounded sleep, so their polls are weakly
fair; a worker's poll on a queued stage either finishes it or raises, and the model does not
choose which.  `MarkAdaptationFailed` is strongly fair: a worker that crashes between rollback
and commit every time would be needed to prevent it.  Some executor keeps claiming
(`ClaimStage`), and clocks advance (`DeadlinePasses`, `BackoffElapses`).  No executor is
assumed to complete, fail, acknowledge or even crash, no lease to lapse, no user to act.

## EgressBroker

The broker serves one request at a time under a lock, but every call to nft or tcpdump is a
step of its own: `todo` is the list of steps that the request in progress has left.  An
exception replaces the list by what its handler still does.  Between two steps guests send,
kernel elements time out, captures die, and the broker crashes.

| Variable | Code |
|---|---|
| `mode` | the service: up, in `close`, after it, down |
| `leases`, `bytes` | `EgressManager._leases`, `ActiveLease.bytes_transferred` |
| `capture`, `packets` | the tcpdump process of a run and whether its file holds a complete packet |
| `gate`, `counter` | elements of the source sets with their byte counters |
| `scope` | the destination-scoped tuples of Android guests |
| `left` | history: open gates that a failed deletion or a dead broker left to their time-out |

`Acquire`, `Heartbeat`, `Revoke`, `Close` start a request; `Revoking`, `Opening`, `Refreshing`
and `Undoing` are the lists of steps of `_revoke_unlocked`, `acquire`, `heartbeat` and their
exception paths.  Requests that are refused without effect are no actions: readiness checks,
a heartbeat without lease, live capture or element.  Callers are unconstrained.  Adding an
element that exists changes neither its time-out nor its counter, which is how the code's own
comment explains why a refresh deletes first.  Deleting may fail, and the code ignores it.
The unit of traffic is a fraction of the ceiling; a counter is followed to one unit above it.

Run `egress`: two runs on one guest address, as in the deployment, where each platform has one
fixed address, so that the lease of a crashed executor's run and of the next run meet.
`NothingUnattended` says that partial failures leave nothing behind, neither an open gate
(`GatesKept`) nor a capture or a lease without the other (`LeasesCaptured`),
`CeilingEnforced` that no lease outlives the heartbeat that finds it over the ceiling, and
`UncapturedLosesNetwork` that heartbeats, retries and restarts cannot keep a guest connected
once nothing captures it.  The fairness is that a request in progress runs on and that the
kernel times out an element that is not renewed.

## StageRequests

`RunPipeline` takes each handler as one step.  Here a handler arrives and reads its rows, decides,
writes the columns it changed, waits for the audit chain's advisory lock, and commits (`Read`,
`Decide`, `Write`, `Commit`), with other handlers in between, at READ COMMITTED: reads lock
nothing, a written row is locked until the end, only the sweep's leases and a claim's stage are
locked when read (`FOR UPDATE SKIP LOCKED`), and a flush writes only the columns that the handler
changed (`Changes`), over whatever was committed since it read.  A signed request may arrive any number
of times; `recorded` are the stored responses, and a copy in flight waits on the unique key of the
first (`InFlight`).  `audit` lists the predecessor that each event names.

A claim does not look at `max_attempts`; the attempts there are have a bound of their own
(`MaxClaims`).

Run `requests`: two sessions, two attempts, of which the first may reach its deadline.  Two
transactions are what every race of this code needs: one reads, the other commits.  A third attempt of
a stage that may have two (`AttemptBudget`, below) is beyond the instance and within the theorems.
`EffectOnce`: a signed request is applied once; that a copy is answered after its lease ended is not
claimed.  `AuditLinear`: the chain does not fork.  `SweepEndsOverdue`: what the
sweep ends was still overdue, although heartbeats renew leases without a lock.

Abstractions: one stage of one run; rows are written and the audit lock taken in one step; a handler
reads in two moments at most; back-off, the next stage's rows, heartbeat records and credentials are
left out.  Executors draw a fresh key for every call, so copies are those of the network.

## AndroidExecutor and AndroidSession

`AndroidSession` is the session's row with its commands: `Register`, `PollFinalize`, `PollNothing`,
`PollCommand`, `CompleteCommand`, `Extend`, `Request`, `CloseSession`, and the clock as
`remaining` and `age`.  Each request locks the row when it changes it.

`AndroidExecutor` is `process_stage` with a program counter `pc`: claim, static analysis, guest,
egress lease, dynamic analysis or session, collection, and the clean-up of the `finally` blocks in the
code's order (`Revoke`, then `Stop`), then the report, the acknowledgement or the failure.  Beside it
run the heartbeat thread (`HeartbeatStops`, `HeartbeatFails`), cancellation, lease expiry and deadline on
the control plane, the broker's own end of a lease, the death of a guest, a crash of the process, which
powers the disposable worker off (`Dies`), and the controller's reset.  Each step may raise, and the
answer of a poll, a completion or an acquisition may be lost after it took effect.

A registration is two steps.  `_verify_stage_mutation` reads stage, attempt and lease without a lock
(`executor_routes.py:145-164`) before the handler locks the session (1183), and `expire_attempt` reads the
session without one (415).  So `Ready` finds the lease valid and leaves the attempt in `pending`, and
`Registers` changes the session at any later time, when the lease may be over and the process gone.  The
other requests that change the session find it `ready` or have no effect, and stay one step.

Two things go wrong in the worker without an exception.  `docker rm -f` runs with `check=False`
(`android/redroid.py:710`), so a guest may stay that Docker failed to remove (`unremoved`).  A start that
raises may have created a container of which the process has no name, since `container_name` is set only
when `docker run` returned (106); that guest, like one whose stop an exception skipped, is one that no
process will stop (`left`).

Run `android`: an interactive run in the open network with two attempts and an isolated run with one, a
command and the finalizing one, a session of one unit of time.  The isolated run is there because what a
clean-up of the first leaves in the process (`activeRun`, a guest) meets the second.

* `ReportedRunIsQuiet`: a run is complete only when the process holds no egress lease for it and its guest
  is gone, unless Docker failed to remove it; it is acknowledged only when its guest is gone, unless Docker
  failed or an earlier attempt left it.  Nothing is claimed of the lease of an acknowledged run: one that an
  earlier attempt left, that the process forgot for another run's, or whose answer was lost, is the
  broker's to end.
* `CommandsExecutedOnce`: no command is executed twice, through lost answers, crashes, second and late
  registrations.
* `SessionEnds`: no session stays ready while an attempt of its run is at work.  Fairness: the process, the
  scheduler on the lease of the interactive run, and time; nobody need reset a worker.  After the last
  attempt a late registration may leave a session ready for ever (`EverySessionEnds`, below).

With a limit of one unit an extension is granted no time, but may come at any moment, again and again: the
mutant of `Extended` shows that it is the session's age that stops it.  The three properties also hold of the
interactive run alone with a limit of two, where an extension does give time (113 907 states).

## WindowsExecutor

`process_stage` of the Windows executor for one interactive run with controlled egress: `Acquire`,
`Submit`, `RecordTask`, the waiting loop (`Heartbeat`, `Renew`, `Status`, `Ready`, `Poll`), the two ways out
(`FinishTask`, `StopTask`), the handoff, collection, and the clean-up as `try` and its handlers order it.
`tasks` are CAPE's; a later attempt recovers the recorded one.  `Raises` is a request that fails,
`LosesNetwork` an egress heartbeat that fails, `IsRefused` a lease the control plane no longer admits.

As on Android, the registration of the console is two steps, `Ready` and `RegisterSession`: the lease is
checked from unlocked rows before the session is locked (`executor_routes.py:1069`), and `expire_attempt`
reads the session without a lock (424).

Run `windows`: three attempts, the deployed budget, a task for each, a window of one unit.
`SettledRunIsQuiet`: a run that is complete or acknowledged has no active recorded task and the process
holds no egress lease.  `WindowFixed`: registrations after lost answers and restarts grant no new window.
`SessionEnds`: a console that is ready while an attempt is at work does not stay so.  Fairness: the process,
its restart by systemd, the scheduler on the lease of a process that is gone, CAPE's own time-out, time;
`HandoffEnds` is strongly fair since its loop has a deadline.

## WindowsProfiles

An operation from `create_profile` or `delete_profile` through `claim_windows_profile_operation` and the
executor to the gateway, whose steps (`Steps`: domain, address reservation, customization, CAPE's entry,
state file, and back) are one action each, with the undoing of a creation that fails.  The gateway
ignores the exit codes of `virsh destroy`, `undefine` and `net-update` when it undoes or deletes
(`cape_gateway/manager.py:212-232`, 257-285), so that each such removal may fail without being noticed;
the last steps of a deletion may also raise.  `strayDomains` and `strayAddresses` remember the parts that
were left in this way, or by a crash before the state file was written.  The client may
give up while the gateway goes on (`TimesOut`, `Abandons`), a lease may lapse and the operation be leased
again, and both processes may crash.  At most `MaxWaiting` requests wait for the gateway's lock; `Serve`
gives it to any of them, since flock(2), which `_locked` takes, promises no order.  `overtaken` remembers
whether one ever got it before another that came earlier.

Run `profiles`: two profiles, two addresses, two waiting requests, up to symmetry of profiles;
3.35 million states.  `MachinesWhole`: a profile that analysts may select has its whole machine
(`ActiveMachineExists`); so has one whose state file would answer a repeated creation
(`RecordedMachineExists`); and what the gateway leaves between requests has a state file, by which a
deletion finds it, unless it is such a stray (`MachinesRecorded`).  `VMTypeOK` includes that the executor awaits the one request
that it asks, and no other (`AwaitsOne`).  Both hold in whatever order the lock is given.

`ProfilesAreMachines`: for each profile the three parts implement `ProfileMachine`, the machine that is
built until it is whole, then named, untouched while its profile may be selected, taken apart after
that, and gone when its profile is deleted.  The mapping is the profile's state, its label, and
`MachineOf`, which sums up domain, address, CAPE's entry and state file.  Not even a request whose client
is long gone makes a step that this machine does not have, and a profile becomes DELETED only when nothing
of its machine is left but a domain or a reservation that virsh failed to remove: those the gateway does
not see, and reports a success.  This needs the lock to be given in the order of arrival (`~overtaken'`), which
the code does not enforce: without the condition TLC finds a creation that was given up and that a
deletion overtakes, so that it builds the machine of a deleted profile again.

The names that start with `VM` are so called because one module extends this one and `WindowsExecutor`;
`doing` is the program counter of the same process in this occupation.  The default flag and presets are
left out.

## CaseVerdict

One run as data: events with kind, tier, destination, packet and caveat (`native`), what the telemetry
tells of them (`captured`), what the platform reports (a score, the tiers of its other findings, its static
IOC rows), and the stages' outcomes.  The steps are the code's: `Corroborate` on Windows (unclassified
egress, attribution to the sample's processes, DNS, coalescing), `AndroidEvents` on Android (correlation with
access in time), `Normalized` and `Accepted` (bundle and contract), the two adaptations, `Aggregate`
(`CoalescedFindings`, `Caveats`, `VerdictOf`, `Indicators`, access), and the report.  Tiers are ranked as in
`CONFIDENCE_RANK`.

Equal observations are merged twice.  The runtime keeps the first (`Coalesce`), the aggregator whichever row
the database returns first (`CoalescedFindings`), and each keeps that row's tier: the tiers of the others are
lost.  Indicators are the static rows of every adapter and of the C2 bundle, of each source the strongest
about a destination (`Indicators`).  Where the network rates the destination weak or above, its effective
tier counts for all; elsewhere, and for URLs, an indicator keeps its source's tier, which may be above that of
any finding.

Run `verdict`: up to two events of six kinds in every tier that the code tells apart, one packet or two, two
destinations of which one may be an indicator, every telemetry that the code can tell apart, seven platform
reports, some with indicators of CAPE, the static prior or MobSF, stages complete, partial or failed.  Two
events are what merging needs.

`VerdictEarned`: "no malicious activity observed" hides no credible detection of tier weak or above and needs
complete mandatory stages (`NegativeVerdictEarned`), and "malicious" rests on CAPE's confirmation or on
confirmed exfiltration of the sample's own processes (`MaliciousVerdictProved`).  The first has one exception,
which the merging makes necessary: a detection that is neutral, or made so, may be hidden where a fainter
one of the same packet and destination is neutral too (`Overshadowed`).  `ClaimsSupported`: Android
reports name data items only in weak temporal associations (`AndroidClaimsAreTemporal`), and an indicator of a
destination that the network rates is above weak only by a detection of its tier that the binary names or no
other process sent (`RatedIndicatorsProved`).

On Android, telemetry adds its events in any order, and any of the events may be the nearest to an
access (`AndroidEvents`).  Coalesced events keep the positions they had, since only their order matters
afterwards.

Assumed (`NativeAssumption`): a detector names a kind of its own, never the neutral `network_observation`
(`c2/runtime.py:258-262`), and only the catch-all for exfiltration marks its traffic as residual.  The detectors
are external: their tiers are not bounded.  The object with which a correlation names its item is not a
part of an event, so that observations which differ in it alone are merged in the model.  Wording, timeline,
geolocation, provenance and one snapshot per run are left out.  The branches for a verdict "failed", and for
missing evidence, are not reachable from the stages as they are.

## EvidenceStore

Rows name content-addressed objects.  A handler of intake, artifact upload or export goes through
receiving, inserting, storing and committing; readers verify; a backup dumps the database and copies
the tree beside them; the disk damages objects; the API crashes and cleans up at its start.  An operator
stops the API and restores or rolls back: every step of `restore_backup` and `rollback_restore` is an
action that may raise (`MayFail`) or be the last one before the process is killed, and the `except` paths
are steps too.  A step that raises has had no effect, but for `pg_restore`: with `"committed"` in `MayFail` it
may raise after its commit (`RaisedAt`), at its time-out or when the connection is lost.  A return of the
database that commits and raises, and a kill after a commit, leave what a kill one step later leaves.
`era` tells the data before a restore from the data after it; `owed` are the eras an operator may still
ask for.

Run `evidence`: two digests, two handlers, one backup, one restore with its rollback, damage of one
digest.  One object that is damaged and one that is not are all that a tree's steps tell apart.
`RowsHaveObjects`: no committed row without its object, in the live tree and in every published backup.
`NoFalseAlarm`: integrity alarms name only what the disk damaged.  `DataKept`: whatever is killed or fails,
the data before a restore exist, live or in a directory the operator is told of.  `MayFail` leaves two failures
out, each of which loses data in the code: that of the step that writes `restore-id`, which run `restore_id`
puts in, and `"committed"`, for which TLC finds `DataKept` violated too when it is put in instead.

Assumed: the API is stopped for restore and rollback (`docs/phase6-operations.md:5`), a published backup
is not damaged, the API is one process.

## Administration

Requests of administrators as transactions.  Changes of users take an advisory lock
(`_lock_user_changes`), but the role of who asks is read on arrival, before it.  Changes of Android
profiles lock the profile's row, then reset the others' flag row by row, so that they may meet and
deadlock (`Abort`).

Run `administration`: two users, three profiles, two requests at a time.  `AdministratorRemains`: however
requests overlap, an enabled administrator is left.  `DefaultRemains`: an active default, once there, is
lost only to an administrator who clears the flag.  The commands of `umat admin` take no lock and do not
ask for the last administrator; they are assumed not to run meanwhile.

## Proofs

Every safety property that a run checks is also a theorem, for every value of the constants that the
modules' assumptions admit.  Each module's proof has one inductive
invariant; TLC checked it on the module's instance before it was proved.

| Module | Theorem | States |
|---|---|---|
| `RunPipeline_proofs` | `TypeCorrect` | `Spec => []TypeOK` |
| | `AlwaysConsistent` | `Spec => []JobsConsistent` |
| | `LeasesDisciplined` | `Spec => []LeaseDiscipline` |
| | `BudgetKept` | `Spec => []RetryBudget` |
| | `CompletesOnce` | `Spec => []OneCompletion` |
| | `OutcomesStay` | `Spec => SettledStaysSettled` |
| | `StagesImplementJobs` | `Spec => StagesAreJobs` |
| | `OrderKept` | `Spec => []RunFollowsStages` |
| | `TerminalKept` | `Spec => TerminalStays`, if `ExecutorTypes \subseteq Analyses` |
| `StageRequests_proofs` | `TypeCorrect` | `Spec => []TypeOK` |
| | `RequestsTakeEffectOnce` | `Spec => []EffectOnce` |
| | `ChainIsLinear` | `Spec => []AuditLinear` |
| | `SweepIsRight` | `Spec => SweepEndsOverdue` |
| `EgressBroker_proofs` | `TypeCorrect` | `Spec => []TypeOK` |
| | `NothingIsUnattended` | `Spec => []NothingUnattended` |
| | `CeilingIsEnforced` | `Spec => []CeilingEnforced` |
| `AndroidExecutor_proofs` | `TypeCorrect` | `Spec => []TypeOK` |
| | `EachCommandOnce` | `Spec => []CommandsExecutedOnce` |
| | `ReportsAreQuiet` | `Spec => []ReportedRunIsQuiet` |
| `Windows_proofs` | `TypeCorrect` | `Spec => []TypeOK` |
| | `SettledIsQuiet` | `Spec => []SettledRunIsQuiet` |
| | `WindowStaysFixed` | `Spec => []WindowFixed` |
| | `ProfilesTypeCorrect` | `VMSpec => []VMTypeOK` |
| | `MachinesAreWhole` | `VMSpec => []MachinesWhole` |
| | `ProfilesAreSuchMachines` | `VMSpec => ProfilesAreMachines` |
| `CaseVerdict_proofs` | `TypeCorrect` | `Spec => []TypeOK` |
| | `VerdictsAreEarned` | `Spec => []VerdictEarned` |
| | `ClaimsAreSupported` | `Spec => []ClaimsSupported` |
| `EvidenceStore_proofs` | `TypeCorrect` | `Spec => []TypeOK` |
| | `EvidenceIsComplete` | `Spec => []RowsHaveObjects`, if `SafeFailures` |
| | `AlarmsAreTrue` | `Spec => []NoFalseAlarm`, if `SafeFailures` |
| | `OwedDataIsKept` | `Spec => []DataKept`, if `SafeFailures` |
| `Administration_proofs` | `TypeCorrect` | `Spec => []TypeOK` |
| | `AdministratorAlwaysRemains` | `Spec => []AdministratorRemains` |
| | `DefaultStays` | `Spec => DefaultRemains` |

Two hypotheses go beyond the modules' assumptions.  `TerminalKept` is about the deployed split, where
executors claim only the two analyses: the slice reopens a run (see the runs of `RunPipeline`).  The three
theorems about the data of `EvidenceStore` assume `SafeFailures`: they leave out a failure while `restore-id`
is written and a `pg_restore` that raises after its commit, which do lose data (below).  Every other step may fail, and any may be the last before a kill.

The arguments:

* `RunPipeline`.  No invariant is inductive alone: that an attempt which ends leaves its stage free needs
  that no other attempt is held, and that a queued stage has an attempt left needs the decision taken
  when the last one ended.  `JobsConsistent` collects this per stage (`JobConsistent`), and adds what a
  worker that raised may still overwrite.  The proof shows (`StepMoves`) that each step makes every stage
  do one of a few moves: it stays, is created, withdrawn, leased, leased again straight after its expiry,
  goes on being held, ends an attempt, completes, or is served or failed by a worker.  Each move preserves
  `JobConsistent`, keeps outcomes, and is a step of `RetryJob`.  The order of the stages (`OrderInv`) is
  then two questions to each step: what must hold when it creates a stage, and when it gives the run a
  result.  As deployed, `TerminalStays` needs `AnalysesOver`: a terminal run has no analysis queued or held,
  which rests on at most one analysis being under way.
* `StageRequests`.  A transaction decides from rows that may be stale when it writes, so `IInv` says of each
  transaction what protects it: disjoint locks (`LockInv`), the reservation of its key (`OnceInv`), being
  alone with the last event of the chain (`ChainInv`), and what of its reading stays true (`RowsInv`: what a
  sweep holds locked is still overdue).  The sweep is a fold over a set of leases; induction over it is
  replaced by a least counterexample, which the library's well-foundedness of the naturals provides.
* `EgressBroker`.  A gate without a capture is in order while a step of the request in progress will close
  it.  `IInv` relates gates, captures, leases and bytes to the steps that are left; lemmas about the lists
  (`Orderly`) say that no step comes twice and which may follow which, so that the rest of the proof
  reasons about sets of steps.
* `AndroidExecutor`.  `IInv` says for each `pc` which guest and which lease the process is responsible for
  (`GuestInv`, `LeaseInv`; a guest that is not the current run's is `left` or `unremoved`), and where a command is on its way (`CommandInv`): queued once, and executed only
  if it left the queue.
* `WindowsExecutor`.  What the process learned some requests ago stays true meanwhile: a task it saw end
  has ended (`TaskOver`), the task recorded is the one it submitted (`TaskKnown`), the window is the first
  one granted (`WindowKept`).
* `WindowsProfiles`.  What the executor reports of a machine is an answer to one request, while others that
  it gave up wait or are served, before it or after it.  In any order, the executor awaits one request and
  that is the one it needs (`AwaitedKept`), and each request, awaited or not, is possible for its profile
  (`RequestsPossible`): only a profile that is to be deleted, or was, has requests to delete it.  Hence a
  creation's answer stays true (`CreatedIsWhole`), since nothing takes parts from a profile that is
  provisioning or active; and a state file of such a profile is that of a whole machine (`FilesWhole`), which
  is what makes a repeated creation right when it finds the file and answers at once.  `CreationKnows` and
  `DeletionKnows` say what each step may rely on, `PartsKnown` accounts for every part of a machine that is
  not a stray.  This is enough for the types and for `MachinesWhole`.  The refinement needs the order of
  arrival too (`OrderInv`): then the awaited request is the last of all (`AwaitedLast`), so that a deletion's
  answer stays true (`AnswersStay`) and a label changes only when no request is left, which is why the label
  tells creations from deletions (`RequestsFit`).  Each step of a request changes one machine, which had no
  file if it is a creation, and had one if it is a deletion (`MachineChanges`).
* `CaseVerdict`.  A report is made in one step from rows written earlier, so the invariant (`Grounded`) says
  what a bundle keeps of the detections: one that counts is in it, or is overshadowed (`NothingHidden`), an
  observation of it that is faint is of a faint detection (`FaintWasFaint`), none that condemns is made up
  (`NothingMadeUp`), items are temporal (`ItemsAreTemporal`).  `FaintWasFaint` is what the aggregator's merging
  needs: what it drops for a fainter row was overshadowed.  The lemmas on `Derived` say what attribution may do
  to one event.
* `EvidenceStore`.  `TypeInv` says that no step of an operator's job reads what is not there, `DataInv` which
  rows each tree covers at every step and where the owed eras lie.
* `Administration`.  `UserInv`: what a request decided under the lock is true when it writes; `ProfileInv`: no
  two transactions lock one row, and the default in the making is held.

A proof found an error of the model: in `AndroidExecutor`, the invariant that a lease which the process
holds is that of `activeRun` was not inductive with more than one run on the open network.  A revocation
that raises leaves `activeRun` set, and the acquisition of the next run overwrites it (`_egress_active_run`,
`android/executor.py:383`): no later step of the process revokes the first lease, which only the broker ends.
The model now calls such a lease `"lost"` (`Acquired`), as it does the leases of a process that died; the
instance of the run has one run on the open network, the theorem any number.

Another proof showed what the gateway's lock was taken to promise: the refinement of `ProfileMachine`
rested on the order of arrival.  The model now serves the requests in any order, `MachinesWhole` has a proof
without the order, and `ProfilesAreMachines` names it as its condition.

Only model-checked: all liveness (`RunsProgress`, `UncapturedLosesNetwork`, `SessionEnds` of both
executors), which is out of the prover's reach, as is ENABLED.

## Known divergences

Two of the disagreements between code and documentation have a run that exhibits them
(`PROJECT.json` quotes both sides):

* `cancellation_ends` (`CancellationEnds`): a completion, or a failure with a retry, during
  `cancelling` queues a stage and releases the lease; nothing finalizes the cancellation any more.
* `restore_id` (`DataKept`): a restore that fails while it writes `restore-id` returns the old
  database, leaves the backup's artifacts in place and deletes the old ones.

The other failure that `evidence` leaves out violates `DataKept` in the same way, with `"committed"` in `MayFail`
instead of `"restore_id"`: `_run` raises after `pg_restore` committed, at its time-out or because the connection
is lost, before `database_replaced` is set (`operations/backup.py:62`, 226).  The old database is not returned
(236), the old artifacts are put back beside the new rows, and the only dump of the old ones is deleted (256;
`docs/phase6-operations.md:16-17`, 26).

The following have no run.  Each is a definition of its module, in a section of its own, that TLC finds
violated when it is added to the module's instance.

| Definition | What happens |
|---|---|
| `RunPipeline!ReportingEnds` | an error of the report worker fails its stage and leaves the run open for ever (`reporting/worker.py:162`; `docs/phase4-unified-ui.md:22`) |
| `RunPipeline!CancellationSticks` | a stage queued during `cancelling` may be claimed, which sets the run `running` (`executor_routes.py:636`) |
| `StageRequests!CancelledRunStops` | `cancel_run` decides from stages read without a lock; a claim that commits before it leaves an executor at work for a cancelled run (`case_routes.py:564`) |
| `StageRequests!StageHeld` | a first heartbeat validated before a sweep released its lease sets the stage `running` afterwards, with no lease left to end (`executor_routes.py:970`) |
| `StageRequests!AttemptBudget` | a failure that decided to retry and commits after a sweep and the claim of the next attempt queues the stage once more; a claim does not look at `max_attempts` (`executor_routes.py:587`) |
| `EgressBroker!ShutdownRevokes` | the first capture without a packet raises in `close` and leaves the later leases unrevoked (`egress/manager.py:199`) |
| `AndroidExecutor!GuestsEnd` | a revocation that raises skips `avd.stop()`; the guest runs on in a worker that claims the next run (`android/executor.py:509`) |
| `AndroidExecutor!SessionWithinLimit` | a registration by a later attempt grants a full window to a session of any age (`executor_routes.py:1205`; `docs/CONTROL-PLANE.md:275`) |
| `AndroidExecutor!EverySessionEnds` | a registration whose lease was valid when it was read opens the session after its last attempt expired, and nothing closes it (`executor_routes.py:145-164`, 415, 1183; `docs/CONTROL-PLANE.md:275`, "expiry also forces cleanup") |
| `WindowsExecutor!EverySessionEnds` | the same for the console (`executor_routes.py:424`, 1069) |
| `WindowsExecutor!OneSubmission` | a crash or a lost answer between submission and registration of the task submits the sample again (`windows/executor.py:196`; `docs/phase3-windows.md:10`) |
| `WindowsExecutor!FinishHonoured` | a registration of the console overwrites a finish request (`executor_routes.py:1097`) |
| `CaseVerdict!ConfiguredFindingsKept` | the aggregator neutralises, because of its caveat, what the runtime exempted (`aggregator.py:109`; `c2/runtime.py:424`) |
| `CaseVerdict!MergingKeepsEvidence` | merging equal observations keeps the first one's tier, so that a weak one is lost behind an unconfirmed one ("Collapse duplicate neutral observations without discarding their evidence", `c2/runtime.py:571`) |
| `CaseVerdict!AllowlistedIsNoEvidence` | allowlisted traffic of another process gets the tier weak and makes a run suspicious (`c2/runtime.py:494`; `docs/phase55-hardening.md:22`) |

Observations made while modelling, outside what the models state:

* Profiles: requests that wait at the gateway are served in the order in which the kernel grants flock
  (`cape_gateway/manager.py:100`); a deletion that overtakes a creation which was given up is undone by it.
* Profiles: a deletion reports success although `virsh` failed to remove the domain or the reservation
  (`cape_gateway/manager.py:257-285`); a reservation that was left blocks later creations, which try its
  address.
* Profiles: a creation whose client gave up and whose operation ended leaves a machine without a label,
  and the deletion of its profile fails; a creation repeated after each lapsed lease has no bound; a
  gateway that crashed may keep a reservation that blocks later creations.
* Two concurrent creations of a default profile leave two defaults, on either platform; on Windows an
  update read without a lock may leave none.
* Evidence: an upload that is refused leaves its `.part` file until the API starts; `store_file` does not
  verify an object that is there; duplicates are read before the sample's row is locked, so that two
  uploads of one new sample may both queue without confirmation; a failure outside `restore_backup`'s
  `try` leaves its staging directory, which refuses the next restore of that backup.
* Android: a guest that `docker rm -f` failed to remove runs on unnoticed (`android/redroid.py:710`).
* Verdict: an indicator of a destination that the network does not rate, and one of a URL, keeps the tier
  that CAPE, the static prior or MobSF gave it (`reporting/aggregator.py:177-208`, 409-446).
* Android: a command left `running` by a lost poll blocks the later ones until the session ends.
* Windows: the egress heartbeat precedes the check for a stop, so that its failure hides a cancellation;
  a revocation that raises in a handler ends the process.
* Requests: a failure and a completion of one attempt may both be applied; a rejected upload stores no
  response, so its copy is executed again.

## Not modelled

* Authentication: login and its throttle, sessions, passwords; qualification of Android profiles; the
  Windows default flag and presets.  They are single-row updates of one request each.
* The C2 executor and the fake executor as processes: the first has no guest, no session and no egress
  lease, and its results enter `CaseVerdict`; the second is the `slice`.
* Two stages of one run in `StageRequests`: two adaptations completed through the API at the same time
  each read the other as unfinished; the report worker's sweep creates the aggregation.
* The programs that the native runtimes call (containers, emulators, CAPE, the C2 analyser), deployment
  scripts, which are sequences of external commands, parsing of bundles and schemas, rendering of
  exports, the web console, and database migrations: they keep no state of UMAT's own.
* Run retry creates a new run under the lock of its source, which is `RunPipeline`'s initial state; the
  rest of the console reads.
