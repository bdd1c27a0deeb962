------------------------------ MODULE RetryJob ------------------------------
(***************************************************************************)
(* What the control plane promises of one stage of a run: a job that is    *)
(* offered at most once, is held by one taker at a time and taken at most  *)
(* Budget times, and then is done or abandoned for good.                   *)
(***************************************************************************)
EXTENDS Naturals

CONSTANT Budget

VARIABLES
  phase,  \* where the job stands
  tries   \* how often it was taken

jobVars == <<phase, tries>>

Phase == {"idle", "waiting", "held", "done", "abandoned"}

Init ==
  /\ phase \in {"idle", "waiting"}
  /\ tries = 0

Offer ==
  /\ phase = "idle"
  /\ phase' = "waiting"
  /\ UNCHANGED tries

\* The job is taken, perhaps straight from a holder whose time is up.
Take ==
  /\ phase \in {"waiting", "held"}
  /\ tries < Budget
  /\ phase' = "held"
  /\ tries' = tries + 1

\* A holder gives the job up, or loses it, and it may be taken again.
Return ==
  /\ phase = "held"
  /\ tries < Budget
  /\ phase' = "waiting"
  /\ UNCHANGED tries

Finish ==
  /\ phase = "held"
  /\ phase' = "done"
  /\ UNCHANGED tries

\* A job nobody ever took may be done by the house.
Serve ==
  /\ phase \in {"idle", "waiting"}
  /\ tries = 0
  /\ phase' = "done"
  /\ UNCHANGED tries

Abandon ==
  /\ phase \in {"waiting", "held"}
  /\ phase' = "abandoned"
  /\ UNCHANGED tries

Next == Offer \/ Take \/ Return \/ Finish \/ Serve \/ Abandon

Spec == Init /\ [][Next]_jobVars

=============================================================================
