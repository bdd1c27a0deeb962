---------------------------- MODULE StageRequests_MC ----------------------------
(* A small instance of StageRequests: two concurrent sessions and two attempts. *)
EXTENDS StageRequests, TLC

CONSTANTS w1, w2

Symmetry == Permutations(Workers)

=============================================================================
