---------------------------- MODULE MCBridgeAuthPg ----------------------------
(***************************************************************************)
(* BridgeAuthPg on small instances: two clients of the pool, and the       *)
(* requests of one story at a time.  Ids run out before the stories do.    *)
(***************************************************************************)
EXTENDS BridgeAuthPg, TLC

Ids == Permutations(Sessions) \cup Permutations(Bootstraps)
         \cup Permutations(Devices) \cup Permutations(Tokens)
         \cup Permutations(Tickets) \cup Permutations(Txs)

=============================================================================
