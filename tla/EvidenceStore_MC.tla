---------------------------- MODULE EvidenceStore_MC ----------------------------
(* A small instance of EvidenceStore: two digests and two concurrent requests. *)
EXTENDS EvidenceStore, TLC

CONSTANTS h1, h2, d1, d2, b1

Symmetry == Permutations(Handlers)

=============================================================================
