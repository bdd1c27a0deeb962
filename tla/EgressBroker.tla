---------------------------- MODULE EgressBroker ----------------------------
(***************************************************************************)
(* The broker that lets a guest reach the network: a lease per run, opened *)
(* by adding the guest's address to kernel sets whose elements time out,   *)
(* and covered by a packet capture of its own.  The broker serves one      *)
(* request at a time (a lock), but each of its calls to nft and tcpdump is *)
(* a step of its own: guests send, elements time out, captures die and the *)
(* broker crashes between any two of them.                                 *)
(***************************************************************************)
EXTENDS Naturals, Sequences

CONSTANTS
  Runs,
  Guests,
  GuestOf,      \* the guest address on which a run executes
  Scoped,       \* guests that also need a destination-scoped tuple (Android)
  MaxBytes      \* the ceiling, in units of traffic

ASSUME GuestOfAssumption == GuestOf \in [Runs -> Guests]
ASSUME ScopedAssumption == Scoped \subseteq Guests
ASSUME MaxBytesAssumption == MaxBytes \in Nat \ {0}

\* One unit above the ceiling tells all that the broker can see of a counter.
CounterBound == MaxBytes + 1

VARIABLES
  mode,     \* "up", "closing" and then "exiting" in a shutdown, or "down"
  leases,   \* runs in EgressManager._leases
  bytes,    \* ActiveLease.bytes_transferred
  capture,  \* the tcpdump process of a run
  packets,  \* runs whose capture file holds a complete packet
  gate,     \* guests in the kernel's set of authorised sources
  counter,  \* byte counter of a guest's element of that set
  scope,    \* guests with a destination-scoped tuple
  todo,     \* steps left of the request that holds the lock, <<step, run>>
  left      \* history: open gates that a failed deletion or a dead broker left

brokerVars == <<mode, leases, bytes, todo>>
sourceVars == <<gate, counter, left>>
kernelVars == <<sourceVars, scope>>
captureVars == <<capture, packets>>
vars == <<brokerVars, kernelVars, captureVars>>

Idle == mode = "up" /\ todo = <<>>

Steps(names, r) == [i \in DOMAIN names |-> <<names[i], r>>]

\* _revoke_unlocked of a lease the broker holds.
Revoking(r) == Steps(<<"forget", "shut", "unscope", "stop", "finalize">>, r)

Opening(r) == Steps(<<"spawn", "await", "scope", "open", "record">>, r)

\* nft has no refresh: the source is removed first and restored last.
Refreshing(r) == Steps(<<"shut", "unscope", "scope", "open">>, r)

\* Mutant: a failed authorization only stops the capture.
UndoingCaptureOnly(r) == Steps(<<"stop">>, r)

\* What acquire and heartbeat do when an authorization fails.
Undoing(r) == Steps(<<"shut", "unscope", "stop", "forget">>, r)

-----------------------------------------------------------------------------
(* Requests *)

Init ==
  /\ mode = "up"
  /\ leases = {}
  /\ bytes = [r \in Runs |-> 0]
  /\ capture = [r \in Runs |-> "none"]
  /\ packets = {}
  /\ gate = {}
  /\ counter = [g \in Guests |-> 0]
  /\ scope = {}
  /\ todo = <<>>
  /\ left = {}

\* A lease the run already has is revoked first.
Acquire(r) ==
  /\ Idle
  /\ todo' = (IF r \in leases THEN Revoking(r) ELSE <<>>) \o Opening(r)
  /\ UNCHANGED <<mode, leases, bytes, kernelVars, captureVars>>

\* Mutant: the capture is not polled.
AliveUnpolled(r) == r \in leases /\ GuestOf[r] \in gate

\* A heartbeat is rejected, and changes nothing, unless the capture runs and the
\* element whose counter it reads is still there.
Alive(r) == r \in leases /\ capture[r] = "ready" /\ GuestOf[r] \in gate

\* Mutants: the ceiling is checked before this heartbeat's bytes are added, or
\* off by one.
OverCeilingLate(r, total) == bytes[r] > MaxBytes

OverCeilingByOne(r, total) == total > MaxBytes + 1

OverCeiling(r, total) == total > MaxBytes

Heartbeat(r) ==
  /\ Idle
  /\ Alive(r)
  /\ LET total == bytes[r] + counter[GuestOf[r]]
     IN  /\ bytes' = [bytes EXCEPT ![r] = total]
         /\ todo' = IF OverCeiling(r, total) THEN Revoking(r) ELSE Refreshing(r)
  /\ UNCHANGED <<mode, leases, kernelVars, captureVars>>

Revoke(r) ==
  /\ Idle
  /\ r \in leases
  /\ todo' = Revoking(r)
  /\ UNCHANGED <<mode, leases, bytes, kernelVars, captureVars>>

\* The service stops once its requests are served; close then revokes the leases
\* one after the other, under one lock.
Close ==
  /\ Idle
  /\ mode' = "closing"
  /\ UNCHANGED <<leases, bytes, todo, kernelVars, captureVars>>

CloseLease(r) ==
  /\ mode = "closing"
  /\ todo = <<>>
  /\ r \in leases
  /\ todo' = Revoking(r)
  /\ UNCHANGED <<mode, leases, bytes, kernelVars, captureVars>>

Closed ==
  /\ mode = "closing"
  /\ todo = <<>>
  /\ leases = {}
  /\ mode' = "exiting"
  /\ UNCHANGED <<leases, bytes, todo, kernelVars, captureVars>>

-----------------------------------------------------------------------------
(* The steps of a request: s is the name of the next step and r its run.   *)

Doing(s, r) == todo # <<>> /\ Head(todo) = <<s, r>>

\* An exception ends the request, after the rest that its handler still does.
Goes == todo' = Tail(todo)
Raises(handler) == todo' = handler

Forget(r) ==
  /\ Doing("forget", r)
  /\ leases' = leases \ {r}
  /\ bytes' = [bytes EXCEPT ![r] = 0]
  /\ Goes
  /\ UNCHANGED <<mode, kernelVars, captureVars>>

\* A deletion that fails is ignored.
Shut(r) ==
  /\ Doing("shut", r)
  /\ \/ /\ gate' = gate \ {GuestOf[r]}
        /\ counter' = [counter EXCEPT ![GuestOf[r]] = 0]
        /\ left' = left \ {GuestOf[r]}
     \/ /\ left' = left \cup ({GuestOf[r]} \cap gate)
        /\ UNCHANGED <<gate, counter>>
  /\ Goes
  /\ UNCHANGED <<mode, leases, bytes, scope, captureVars>>

Unscope(r) ==
  /\ Doing("unscope", r)
  /\ scope' \in {scope, scope \ {GuestOf[r]}}
  /\ Goes
  /\ UNCHANGED <<mode, leases, bytes, sourceVars, captureVars>>

Stop(r) ==
  /\ Doing("stop", r)
  /\ capture' = [capture EXCEPT ![r] = "none"]
  /\ Goes
  /\ UNCHANGED <<mode, leases, bytes, kernelVars, packets>>

\* A capture without a complete packet raises, whoever called for the revocation:
\* it also ends an acquisition, or close with the leases it has not come to yet.
Finalize(r) ==
  /\ Doing("finalize", r)
  /\ \/ /\ r \in packets
        /\ Goes
        /\ UNCHANGED mode
     \/ /\ r \notin packets
        /\ Raises(<<>>)
        /\ mode' = IF mode = "closing" THEN "exiting" ELSE mode
  /\ UNCHANGED <<leases, bytes, kernelVars, captureVars>>

Spawn(r) ==
  /\ Doing("spawn", r)
  /\ capture' = [capture EXCEPT ![r] = "starting"]
  /\ packets' = packets \ {r}
  /\ Goes
  /\ UNCHANGED <<mode, leases, bytes, kernelVars>>

\* wait_for_pcap_writer: the process exits, or writes no header in time.
Await(r) ==
  /\ Doing("await", r)
  /\ \/ /\ capture[r] = "starting"
        /\ capture' = [capture EXCEPT ![r] = "ready"]
        /\ Goes
     \/ /\ Raises(Steps(<<"stop">>, r))
        /\ UNCHANGED capture
  /\ UNCHANGED <<mode, leases, bytes, kernelVars, packets>>

Scope(r) ==
  /\ Doing("scope", r)
  /\ \/ /\ scope' = scope \cup ({GuestOf[r]} \cap Scoped)
        /\ Goes
     \/ /\ GuestOf[r] \in Scoped
        /\ Raises(Undoing(r))
        /\ UNCHANGED scope
  /\ UNCHANGED <<mode, leases, bytes, sourceVars, captureVars>>

\* Adding an element that exists changes neither its timeout nor its counter.
Open(r) ==
  /\ Doing("open", r)
  /\ \/ gate' = gate \cup {GuestOf[r]} /\ Goes
     \/ Raises(Undoing(r)) /\ UNCHANGED gate
  /\ UNCHANGED <<mode, leases, bytes, counter, left, scope, captureVars>>

Record(r) ==
  /\ Doing("record", r)
  /\ leases' = leases \cup {r}
  /\ bytes' = [bytes EXCEPT ![r] = 0]
  /\ Goes
  /\ UNCHANGED <<mode, kernelVars, captureVars>>

-----------------------------------------------------------------------------
(* The process *)

\* The service manager kills the captures along with the broker; the kernel's
\* sets outlive both.
Dies ==
  /\ mode' = "down"
  /\ leases' = {}
  /\ bytes' = [r \in Runs |-> 0]
  /\ capture' = [r \in Runs |-> "none"]
  /\ todo' = <<>>
  /\ left' = gate
  /\ UNCHANGED <<gate, counter, scope, packets>>

Crash == mode \notin {"exiting", "down"} /\ Dies

Exit == mode = "exiting" /\ Dies

Restart ==
  /\ mode = "down"
  /\ mode' = "up"
  /\ UNCHANGED <<leases, bytes, todo, kernelVars, captureVars>>

-----------------------------------------------------------------------------
(* The guests, the kernel and the captures *)

\* A guest's packet is captured on its bridge whether or not it may pass.
GuestSends(g) ==
  /\ packets' = packets \cup {r \in Runs : GuestOf[r] = g /\ capture[r] = "ready"}
  /\ IF g \in gate /\ counter[g] < CounterBound
     THEN counter' = [counter EXCEPT ![g] = @ + 1]
     ELSE UNCHANGED counter
  /\ UNCHANGED <<brokerVars, gate, left, scope, capture>>

SourceExpires(g) ==
  /\ g \in gate
  /\ gate' = gate \ {g}
  /\ counter' = [counter EXCEPT ![g] = 0]
  /\ left' = left \ {g}
  /\ UNCHANGED <<brokerVars, scope, captureVars>>

ScopeExpires(g) ==
  /\ g \in scope
  /\ scope' = scope \ {g}
  /\ UNCHANGED <<brokerVars, sourceVars, captureVars>>

CaptureDies(r) ==
  /\ capture[r] \in {"starting", "ready"}
  /\ capture' = [capture EXCEPT ![r] = "dead"]
  /\ UNCHANGED <<brokerVars, kernelVars, packets>>

-----------------------------------------------------------------------------

RequestNext ==
  \/ Close \/ Closed
  \/ \E r \in Runs : Acquire(r) \/ Heartbeat(r) \/ Revoke(r) \/ CloseLease(r)

Step(r) ==
  \/ Forget(r) \/ Shut(r) \/ Unscope(r) \/ Stop(r) \/ Finalize(r)
  \/ Spawn(r) \/ Await(r) \/ Scope(r) \/ Open(r) \/ Record(r)

EnvironmentNext ==
  \/ \E g \in Guests : GuestSends(g) \/ SourceExpires(g) \/ ScopeExpires(g)
  \/ \E r \in Runs : CaptureDies(r)

Next ==
  \/ RequestNext
  \/ \E r \in Runs : Step(r)
  \/ Crash \/ Exit \/ Restart
  \/ EnvironmentNext

Spec == Init /\ [][Next]_vars

\* A request in progress runs on, a stopping service exits, and the kernel times
\* elements out.  Nothing makes a caller call, a guest send or a process die.
Fairness ==
  /\ \A r \in Runs : WF_vars(Step(r))
  /\ WF_vars(Closed) /\ WF_vars(Exit)
  /\ \A r \in Runs : WF_vars(CloseLease(r))
  /\ \A g \in Guests : WF_vars(SourceExpires(g)) /\ WF_vars(ScopeExpires(g))

FairSpec == Spec /\ Fairness

-----------------------------------------------------------------------------
(* Correctness *)

StepNames == {"forget", "shut", "unscope", "stop", "finalize",
              "spawn", "await", "scope", "open", "record"}

\* Every variable holds values of its type.
TypeOK ==
  /\ mode \in {"up", "closing", "exiting", "down"}
  /\ leases \subseteq Runs
  /\ bytes \in [Runs -> 0 .. MaxBytes + CounterBound]
  /\ capture \in [Runs -> {"none", "starting", "ready", "dead"}]
  /\ packets \subseteq Runs
  /\ gate \subseteq Guests
  /\ counter \in [Guests -> 0 .. CounterBound]
  /\ scope \subseteq Scoped
  /\ todo \in Seq(StepNames \X Runs)
  /\ left \subseteq gate

Ahead(s, r) == \E i \in DOMAIN todo : todo[i] = <<s, r>>

\* Every open gate has a keeper: a lease, or the request in progress, which is
\* about to close the gate or to record its lease.  An authorization that fails
\* half-way, an exception while a lease ends, and runs that share a guest leave
\* no gate open; a failed deletion or a dead broker may, until the kernel times
\* the element out.
GatesKept ==
  \A g \in gate \ left : \E r \in Runs :
    GuestOf[r] = g /\ (r \in leases \/ Ahead("shut", r) \/ Ahead("record", r))

\* A lease always has the capture it was opened with, be it a dead one, and no
\* capture process outlives its lease or the request that started it.
LeasesCaptured ==
  \A r \in Runs :
    /\ r \in leases => capture[r] \in {"ready", "dead"} \/ Ahead("forget", r)
    /\ capture[r] # "none" =>
         r \in leases \/ Ahead("stop", r) \/ Ahead("await", r) \/ Ahead("record", r)

\* Whatever fails half-way, nothing is left that nobody attends to: neither an open
\* gate nor a capture process nor a lease without its capture.
NothingUnattended == GatesKept /\ LeasesCaptured

\* No lease outlives the heartbeat that finds it over the ceiling.
CeilingEnforced ==
  todo = <<>> => \A r \in leases : bytes[r] <= MaxBytes

\* A guest whose traffic nobody captures any more loses the network for good,
\* even if deletions fail, heartbeats go on, or the broker dies and comes back:
\* once no capture runs, nothing renews the kernel's element.
UncapturedLosesNetwork ==
  \A g \in Guests :
    <>[](\A r \in Runs : GuestOf[r] = g => capture[r] # "ready") => <>[](g \notin gate)

-----------------------------------------------------------------------------
(* Said of the code by its documents or comments, and not kept (README) *)

\* The shutdown of the broker, says its documentation, "revokes active leases".  The
\* first capture without a packet ends the loop.
ShutdownRevokes == mode = "exiting" => leases = {}

=============================================================================
