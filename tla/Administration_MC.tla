---------------------------- MODULE Administration_MC ----------------------------
(* A small instance of Administration: two users, three profiles, two requests at once. *)
EXTENDS Administration, TLC

CONSTANTS u1, u2, p1, p2, p3, w1, w2

Symmetry == Permutations(Users) \cup Permutations(Profiles) \cup Permutations(Workers)

=============================================================================
