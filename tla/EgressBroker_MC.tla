-------------------------- MODULE EgressBroker_MC --------------------------
(***************************************************************************)
(* A small instance of EgressBroker.  Guest addresses are fixed in the     *)
(* deployment, so that successive runs of a platform share one.            *)
(***************************************************************************)
EXTENDS EgressBroker

CONSTANTS first, second, android

\* Two Android runs share the guest's address.
SharedAddress == [r \in {first, second} |-> android]

=============================================================================
