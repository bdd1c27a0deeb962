-------------------------- MODULE AndroidExecutor_MC --------------------------
(***************************************************************************)
(* A small instance of AndroidExecutor: an interactive run with controlled *)
(* egress, which may be retried once, beside an isolated run.              *)
(***************************************************************************)
EXTENDS AndroidExecutor

CONSTANTS interactive, isolated, swipe, finalize

Attempts == [r \in Runs |-> IF r = Interactive THEN 2 ELSE 1]

=============================================================================
