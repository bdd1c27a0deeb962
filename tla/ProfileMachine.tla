---------------------------- MODULE ProfileMachine ----------------------------
(***************************************************************************)
(* What the control plane, the Windows executor and the CAPE gateway       *)
(* promise together of the machine of one profile: it is built until it is *)
(* whole, and a whole one is not touched until it gets its name and its    *)
(* profile may be selected; a named one is only taken apart, and only      *)
(* after its profile may not be selected; the profile is deleted when the  *)
(* machine is absent: CAPE and the gateway know nothing of it, and nothing *)
(* is left of it but what could not be removed.                            *)
(***************************************************************************)

VARIABLES
  state,    \* of the profile
  named,    \* CAPE's machine has been made known to the control plane
  machine   \* "absent", "partial" or "whole"

machineVars == <<state, named, machine>>

Init ==
  /\ state = "none"
  /\ named = FALSE
  /\ machine = "absent"

Create ==
  /\ state = "none"
  /\ state' = "provisioning"
  /\ UNCHANGED <<named, machine>>

\* Also after a creation was given up: what was asked for may still be at work.
Build ==
  /\ state \in {"provisioning", "error", "deleting"}
  /\ ~named
  /\ machine # "whole"
  /\ machine' \in {"absent", "partial", "whole"}
  /\ UNCHANGED <<state, named>>

Activate ==
  /\ state = "provisioning"
  /\ machine = "whole"
  /\ state' = "active"
  /\ named' = TRUE
  /\ UNCHANGED machine

Delete ==
  /\ state \in {"active", "error"}
  /\ state' = "deleting"
  /\ UNCHANGED <<named, machine>>

TakeApart ==
  /\ state \in {"deleting", "error"}
  /\ named
  /\ machine # "absent"
  /\ machine' \in {"absent", "partial"}
  /\ UNCHANGED <<state, named>>

Retire ==
  /\ state = "deleting"
  /\ machine = "absent"
  /\ state' = "deleted"
  /\ named' = FALSE
  /\ UNCHANGED machine

GiveUp ==
  /\ state \in {"provisioning", "deleting"}
  /\ state' = "error"
  /\ UNCHANGED <<named, machine>>

Next == Create \/ Build \/ Activate \/ Delete \/ TakeApart \/ Retire \/ GiveUp

Spec == Init /\ [][Next]_machineVars

=============================================================================
