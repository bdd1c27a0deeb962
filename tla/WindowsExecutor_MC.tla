-------------------------- MODULE WindowsExecutor_MC --------------------------
(***************************************************************************)
(* A small instance of WindowsExecutor: the deployed budget of three       *)
(* attempts, each with a task of its own, and a window of one time unit.   *)
(***************************************************************************)
EXTENDS WindowsExecutor

CONSTANTS t1, t2, t3

=============================================================================
