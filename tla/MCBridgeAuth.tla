---------------------------- MODULE MCBridgeAuth ----------------------------
(***************************************************************************)
(* BridgeAuth on small instances: lifetimes of one to three clock ticks,   *)
(* so that every expiry happens within the bound on the clock, and fewer   *)
(* ids than the clients could use up, so that ids run out last.            *)
(***************************************************************************)
EXTENDS BridgeAuth, TLC

\* Refresh lifetimes in ticks; the absolute one ends inside the bound and is
\* shorter than two sliding ones, so that the cap matters.
MCSliding  == [c \in ClientTypes |-> 2]
MCAbsolute == [c \in ClientTypes |-> 3]

\* The two client types of the code, with lifetimes that differ.
TwoSliding  == "mobile" :> 1 @@ "even_hub" :> 2
TwoAbsolute == "mobile" :> 2 @@ "even_hub" :> 3

Ids == Permutations(Sessions) \cup Permutations(Bootstraps)
         \cup Permutations(Devices) \cup Permutations(Tokens)
         \cup Permutations(Tickets)

=============================================================================
