-------------------------- MODULE WindowsProfiles_MC --------------------------
(***************************************************************************)
(* A small instance of WindowsProfiles: two profiles, as many addresses.   *)
(* Nothing tells the profiles apart, and no property is one of liveness.   *)
(***************************************************************************)
EXTENDS WindowsProfiles, TLC

CONSTANTS office, bare

Symmetry == Permutations(Profiles)

=============================================================================
