---------------------------- MODULE WindowsProfiles ----------------------------
(***************************************************************************)
(* Windows machine profiles: the control plane queues an operation to      *)
(* create or delete the machine of a profile, the Windows executor claims  *)
(* it and asks the CAPE gateway, which builds or removes the machine in    *)
(* several steps under a lock, and completes the operation if its lease is *)
(* still valid.  A gateway request goes on when its client is gone, and    *)
(* the lock promises its waiters no order.                                 *)
(*                                                                         *)
(* The executor is the process of WindowsExecutor in its other occupation. *)
(* Names that both modules need start with VM here, or name the operation, *)
(* so that a module can extend both.                                       *)
(***************************************************************************)
EXTENDS Naturals, Sequences, FiniteSetsExt

CONSTANTS
  Profiles,
  Addresses,  \* the pool of guest addresses, tried in order
  MaxWaiting, \* bound: requests that wait for the gateway's lock
  NoProfile

ASSUME AddressesAssumption == Addresses \subseteq Nat \ {0}
ASSUME WaitingAssumption == MaxWaiting \in Nat \ {0}
ASSUME NoProfileAssumption == NoProfile \notin Profiles

VARIABLES
  \* the control plane
  profile,    \* WindowsVMProfile.state, "none" before it exists
  labelled,   \* profiles with a cape_machine_label
  op,         \* state of the outstanding operation of a profile: "queued", "leased",
              \* "lapsed" when its lease is over, "none" when there is none
  \* the executor
  doing,      \* what process_profile_operation does next, "down" without a process
  current,    \* the profile of its operation
  result,     \* what it learned of it
  \* the gateway
  waiting,    \* requests that wait for the lock, in the order of arrival
  job,        \* the request that holds it, with its next step
  domains,    \* machines defined in libvirt
  address,    \* their address reservations, 0 for none
  entries,    \* machines that CAPE knows
  files,      \* state files
  strayDomains,   \* history: domains that virsh failed to remove, or a crash left, unnoticed
  strayAddresses, \* history: owners of address reservations that were left likewise
  overtaken       \* history: a request got the lock before one that came earlier

profileVars == <<profile, labelled, op>>
executorVars == <<doing, current, result>>
strayVars == <<strayDomains, strayAddresses>>
machineVars == <<domains, address, entries, files, strayVars>>
gatewayVars == <<waiting, job, machineVars, overtaken>>
vmVars == <<profileVars, executorVars, gatewayVars>>

Kind == {"create", "delete"}
Request == [kind : Kind, profile : Profiles, awaited : BOOLEAN]
Steps == {"check", "define", "reserve", "customize", "enter", "record", "leave", "undefine",
          "release"}
Job == [step : Steps, kind : Kind, profile : Profiles, awaited : BOOLEAN]
NoJob == [step |-> "none"]

VMInit ==
  /\ profile = [p \in Profiles |-> "none"]
  /\ labelled = {}
  /\ op = [p \in Profiles |-> "none"]
  /\ doing = "idle"
  /\ current = NoProfile
  /\ result = "none"
  /\ waiting = <<>>
  /\ job = NoJob
  /\ domains = {}
  /\ address = [p \in Profiles |-> 0]
  /\ entries = {}
  /\ files = {}
  /\ strayDomains = {}
  /\ strayAddresses = {}
  /\ overtaken = FALSE

-----------------------------------------------------------------------------
(* The control plane *)

CreateProfile(p) ==
  /\ profile[p] = "none"
  /\ profile' = [profile EXCEPT ![p] = "provisioning"]
  /\ op' = [op EXCEPT ![p] = "queued"]
  /\ UNCHANGED <<labelled, executorVars, gatewayVars>>

DeleteProfile(p) ==
  /\ profile[p] \in {"active", "error"}
  /\ profile' = [profile EXCEPT ![p] = "deleting"]
  /\ op' = [op EXCEPT ![p] = "queued"]
  /\ UNCHANGED <<labelled, executorVars, gatewayVars>>

LeaseLapses(p) ==
  /\ op[p] = "leased"
  /\ op' = [op EXCEPT ![p] = "lapsed"]
  /\ UNCHANGED <<profile, labelled, executorVars, gatewayVars>>

\* The operation of a profile, which has one at a time.
KindOf(p) == IF profile[p] = "provisioning" THEN "create" ELSE "delete"

\* What the completion of its operation makes of a profile.
ProfileAfter(p) ==
  IF result = "failed" THEN "error"
  ELSE IF KindOf(p) = "create" THEN "active" ELSE "deleted"

LabelledAfter(p) ==
  IF result = "failed" THEN labelled
  ELSE IF KindOf(p) = "create" THEN labelled \cup {p} ELSE labelled \ {p}

-----------------------------------------------------------------------------
(* The executor *)

Learns(r) == doing' = "complete" /\ result' = r

\* A claim queues the operations whose lease is over and takes the oldest of all.
ClaimOperation(p) ==
  /\ doing = "idle"
  /\ op[p] \in {"queued", "lapsed"}
  /\ op' = [q \in Profiles |-> IF q = p THEN "leased"
                               ELSE IF op[q] = "lapsed" THEN "queued" ELSE op[q]]
  /\ current' = p
  /\ IF KindOf(p) = "delete" /\ p \notin labelled
     THEN Learns("failed") /\ UNCHANGED waiting
     ELSE /\ doing' = "asking"
          /\ Len(waiting) < MaxWaiting
          /\ waiting' = Append(waiting, [kind |-> KindOf(p), profile |-> p, awaited |-> TRUE])
          /\ UNCHANGED result
  /\ UNCHANGED <<profile, labelled, job, machineVars, overtaken>>

\* Mutant: an answer to a request of before a crash counts for the next one.
AbandonsNothing == UNCHANGED <<waiting, job>>

\* The gateway does not see that its client is gone.
Abandons ==
  /\ waiting' = [i \in DOMAIN waiting |-> [waiting[i] EXCEPT !.awaited = FALSE]]
  /\ job' = IF job = NoJob THEN NoJob ELSE [job EXCEPT !.awaited = FALSE]

TimesOut ==
  /\ doing = "asking"
  /\ Learns("failed")
  /\ Abandons
  /\ UNCHANGED <<profileVars, current, machineVars, overtaken>>

ForgetsOperation(state) == doing' = state /\ current' = NoProfile /\ result' = "none"

\* A completion without a valid lease is refused, and the exception ends the process;
\* so does an answer that does not come.
CompleteOperation ==
  /\ doing = "complete"
  /\ \/ /\ op[current] = "leased"
        /\ profile' = [profile EXCEPT ![current] = ProfileAfter(current)]
        /\ labelled' = LabelledAfter(current)
        /\ op' = [op EXCEPT ![current] = "none"]
        /\ ForgetsOperation("idle") \/ ForgetsOperation("down")
     \/ /\ ForgetsOperation("down")
        /\ UNCHANGED profileVars
  /\ UNCHANGED gatewayVars

ExecutorCrash ==
  /\ doing # "down"
  /\ ForgetsOperation("down")
  /\ Abandons
  /\ UNCHANGED <<profileVars, machineVars, overtaken>>

ExecutorRestart ==
  /\ doing = "down"
  /\ doing' = "idle"
  /\ UNCHANGED <<profileVars, current, result, gatewayVars>>

-----------------------------------------------------------------------------
(* The gateway *)

Without(requests, i) ==
  [k \in 1 .. Len(requests) - 1 |-> IF k < i THEN requests[k] ELSE requests[k + 1]]

\* flock(2) gives the lock to any of those that wait.
Serve ==
  /\ job = NoJob
  /\ \E i \in DOMAIN waiting :
       /\ waiting' = Without(waiting, i)
       /\ job' = [step |-> "check", kind |-> waiting[i].kind, profile |-> waiting[i].profile,
                  awaited |-> waiting[i].awaited]
       /\ overtaken' = (overtaken \/ i # 1)
  /\ UNCHANGED <<profileVars, executorVars, machineVars>>

At(kind, step) == job # NoJob /\ job.kind = kind /\ job.step = step
Goes(step) == job' = [job EXCEPT !.step = step] /\ UNCHANGED executorVars

\* The request is answered, and the lock released.
Answers(r) ==
  /\ job' = NoJob
  /\ IF job.awaited THEN Learns(r) /\ UNCHANGED current ELSE UNCHANGED executorVars

\* The gateway does not look at what becomes of the virsh commands that remove something.
RemovesDomain ==
  \/ /\ domains' = domains \ {job.profile}
     /\ strayDomains' = strayDomains \ {job.profile}
  \/ /\ strayDomains' = strayDomains \cup (domains \cap {job.profile})
     /\ UNCHANGED domains

RemovesAddress ==
  \/ /\ address' = [address EXCEPT ![job.profile] = 0]
     /\ strayAddresses' = strayAddresses \ {job.profile}
  \/ /\ address[job.profile] # 0
     /\ strayAddresses' = strayAddresses \cup {job.profile}
     /\ UNCHANGED address

\* Mutant: the reservation is not undone.
UndoesDomain == RemovesDomain /\ UNCHANGED <<address, strayAddresses>>

\* The except path of a creation; CAPE's entry is not among what it undoes.
Undoes == RemovesDomain /\ RemovesAddress

Free == Addresses \ {address[p] : p \in files}

CheckCreate ==
  /\ At("create", "check")
  /\ \/ job.profile \in files /\ Answers("done")
     \/ job.profile \notin files /\ Free # {} /\ Goes("define")
     \/ job.profile \notin files /\ Answers("failed")
  /\ UNCHANGED machineVars

\* A domain that a crash left has the machine's name, and is not undone.
Define ==
  /\ At("create", "define")
  /\ \/ /\ job.profile \notin domains
        /\ domains' = domains \cup {job.profile}
        /\ Goes("reserve")
     \/ Answers("failed") /\ UNCHANGED domains
  /\ UNCHANGED <<address, entries, files, strayVars>>

\* The first address without a state file: a reservation that was left may have it, and
\* libvirt refuses a second one for an address as it does for a machine.
Reserve ==
  /\ At("create", "reserve")
  /\ \/ /\ address[job.profile] = 0
        /\ \A p \in Profiles : address[p] # Min(Free)
        /\ address' = [address EXCEPT ![job.profile] = Min(Free)]
        /\ Goes("customize")
        /\ UNCHANGED <<domains, strayVars>>
     \/ /\ Answers("failed")
        /\ RemovesDomain
        /\ UNCHANGED <<address, strayAddresses>>
  /\ UNCHANGED <<entries, files>>

\* The guest is started, customized, captured in a snapshot and switched off.
Customize ==
  /\ At("create", "customize")
  /\ \/ Goes("enter") /\ UNCHANGED <<domains, address, strayVars>>
     \/ Answers("failed") /\ Undoes
  /\ UNCHANGED <<entries, files>>

\* An entry whose configuration cannot be written is taken back, which may fail as well.
Enter ==
  /\ At("create", "enter")
  /\ \/ /\ entries' = entries \cup {job.profile}
        /\ Goes("record")
        /\ UNCHANGED <<domains, address, strayVars>>
     \/ /\ Answers("failed")
        /\ Undoes
        /\ entries' \in {entries, entries \cup {job.profile}}
  /\ UNCHANGED files

Record ==
  /\ At("create", "record")
  /\ \/ /\ files' = files \cup {job.profile}
        /\ Answers("done")
        /\ UNCHANGED <<domains, address, strayVars>>
     \/ /\ Answers("failed")
        /\ Undoes
        /\ UNCHANGED files
  /\ UNCHANGED entries

\* A machine that runs, or that CAPE has assigned, is not deleted.
CheckDelete ==
  /\ At("delete", "check")
  /\ \/ job.profile \in files /\ Goes("leave")
     \/ Answers("failed")
  /\ UNCHANGED machineVars

\* Mutant: a deletion goes on when CAPE does not forget the machine.
LeavesAnyway == entries' \in {entries, entries \ {job.profile}} /\ Goes("undefine")

Leaves == entries' = entries \ {job.profile} /\ Goes("undefine")

Leave ==
  /\ At("delete", "leave")
  /\ \/ Leaves
     \/ entries' \in {entries, entries \ {job.profile}} /\ Answers("failed")
  /\ UNCHANGED <<domains, address, files, strayVars>>

Undefine ==
  /\ At("delete", "undefine")
  /\ RemovesDomain
  /\ Goes("release")
  /\ UNCHANGED <<address, entries, files, strayAddresses>>

\* The disks go before the state file, and one that cannot be removed ends the deletion.
Release ==
  /\ At("delete", "release")
  /\ RemovesAddress
  /\ \/ files' = files \ {job.profile} /\ Answers("done")
     \/ Answers("failed") /\ UNCHANGED files
  /\ UNCHANGED <<domains, entries, strayDomains>>

JobNext ==
  /\ \/ CheckCreate \/ Define \/ Reserve \/ Customize \/ Enter \/ Record
     \/ CheckDelete \/ Leave \/ Undefine \/ Release
  /\ UNCHANGED <<profileVars, waiting, overtaken>>

\* The clients lose their connections; the machines stay as they are, the unfinished one too.
GatewayCrash ==
  /\ job # NoJob
  /\ waiting' = <<>>
  /\ job' = NoJob
  /\ strayDomains' = strayDomains \cup ((domains \ files) \cap {job.profile})
  /\ strayAddresses' = strayAddresses \cup {p \in {job.profile} \ files : address[p] # 0}
  /\ IF doing = "asking" THEN Learns("failed") /\ UNCHANGED current
                      ELSE UNCHANGED executorVars
  /\ UNCHANGED <<profileVars, domains, address, entries, files, overtaken>>

-----------------------------------------------------------------------------

VMNext ==
  \/ \E p \in Profiles :
       CreateProfile(p) \/ DeleteProfile(p) \/ LeaseLapses(p) \/ ClaimOperation(p)
  \/ TimesOut \/ CompleteOperation \/ ExecutorCrash \/ ExecutorRestart
  \/ Serve \/ JobNext
  \/ GatewayCrash

VMSpec == VMInit /\ [][VMNext]_vmVars

-----------------------------------------------------------------------------
(* Correctness *)

\* Where a request is awaited: its place in the queue, 0 for the one that holds the lock.
Awaited ==
  {i \in DOMAIN waiting : waiting[i].awaited}
    \cup (IF job # NoJob /\ job.awaited THEN {0} ELSE {})

AwaitsOne == IF doing = "asking" THEN \E i \in Awaited : Awaited = {i} ELSE Awaited = {}

Typed ==
  /\ profile \in [Profiles -> {"none", "provisioning", "active", "deleting", "deleted", "error"}]
  /\ labelled \subseteq Profiles
  /\ op \in [Profiles -> {"none", "queued", "leased", "lapsed"}]
  /\ doing \in {"idle", "asking", "complete", "down"}
  /\ current \in Profiles \cup {NoProfile}
  /\ result \in {"none", "done", "failed"}
  /\ waiting \in Seq(Request)
  /\ job \in Job \cup {NoJob}
  /\ domains \subseteq Profiles
  /\ address \in [Profiles -> Addresses \cup {0}]
  /\ entries \subseteq Profiles
  /\ files \subseteq Profiles
  /\ strayDomains \subseteq Profiles
  /\ strayAddresses \subseteq Profiles
  /\ overtaken \in BOOLEAN

\* Every variable holds values of its type; the executor awaits the one request that it
\* asks, and no other.
VMTypeOK == Typed /\ AwaitsOne

\* A profile that analysts may select has its whole machine, although its creation may
\* have been repeated after a lost answer, a lapsed lease or a crash of either side.
ActiveMachineExists ==
  \A p \in Profiles : profile[p] = "active" =>
    p \in domains \cap entries \cap files /\ address[p] # 0

\* A state file, which answers a repeated creation, stands for a whole machine until its
\* profile fails or is to be deleted.
RecordedMachineExists ==
  \A p \in files : profile[p] \in {"provisioning", "active"} =>
    p \in domains \cap entries /\ address[p] # 0

\* Each domain and each reservation that the gateway leaves between requests has a state
\* file, by which a deletion finds it, or is one that virsh failed to remove or that the
\* gateway made just before it died.
MachinesRecorded ==
  job = NoJob =>
    /\ domains \ strayDomains \subseteq files
    /\ {p \in Profiles : address[p] # 0} \ strayAddresses \subseteq files

\* No part of a machine is missing or left over where somebody relies on it.
MachinesWhole ==
  /\ ActiveMachineExists
  /\ RecordedMachineExists
  /\ MachinesRecorded

\* What was left unnoticed is nobody's machine: neither CAPE nor the gateway knows it.
MachineOf(p) ==
  CASE p \in domains \cap entries \cap files /\ address[p] # 0 -> "whole"
    [] /\ p \notin (domains \ strayDomains) \cup entries \cup files
       /\ address[p] = 0 \/ p \in strayAddresses -> "absent"
    [] OTHER -> "partial"

Machine(p) == INSTANCE ProfileMachine
                WITH state <- profile[p], named <- p \in labelled, machine <- MachineOf(p)

\* The control plane, the executor and the gateway keep the promise for each profile through
\* answers that come too late or twice, lapsed leases and crashes of either side: no request
\* that was given up builds or takes apart the machine of a profile that is active or
\* deleted, and a profile becomes DELETED only when nothing of its machine is left but what
\* virsh failed to remove, which the gateway does not see: "deletion removes the CAPE machine
\* while retaining the profile record".  They do so as long as the lock is given in the order
\* of arrival: a creation that was given up and that a deletion overtakes builds the machine
\* again.
ProfilesAreMachines ==
  /\ \A p \in Profiles : Machine(p)!Init
  /\ [][~overtaken' => \A p \in Profiles :
           Machine(p)!Next \/ UNCHANGED Machine(p)!machineVars]_vmVars

=============================================================================
