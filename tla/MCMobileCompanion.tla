------------------------- MODULE MCMobileCompanion --------------------------
(* MobileCompanion for TLC: handlers and sockets are interchangeable.       *)
EXTENDS MobileCompanion, TLC

Symmetric == Permutations(Calls) \cup Permutations(Sockets)

=============================================================================
