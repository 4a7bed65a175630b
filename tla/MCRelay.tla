------------------------------ MODULE MCRelay ------------------------------
(***************************************************************************)
(* Relay on small instances.                                               *)
(***************************************************************************)
EXTENDS Relay, TLC

Ids == Permutations(Connections) \cup Permutations(Requests)

=============================================================================
