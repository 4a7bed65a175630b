------------------------------ MODULE EventLog ------------------------------
(***************************************************************************)
(* What the delivery of hardware events promises, without queues, batches, *)
(* requests or timers.  Events are numbered in the order in which they     *)
(* happen.  An event waits from the moment it happens until it is settled; *)
(* it is settled only once the log has it, or never will because the log   *)
(* refuses it.  The one way to be lost is to be pushed out by newer ones,  *)
(* and the log takes an event only when it has every earlier one that is   *)
(* not lost.                                                               *)
(***************************************************************************)
EXTENDS Naturals

CONSTANTS
    Refused       \* the events that the log does not take

VARIABLES
    happened,     \* how many events there were
    waiting,      \* the events the sender still holds
    lost,         \* the events that newer ones pushed out
    log           \* the events that were recorded

vars == <<happened, waiting, lost, log>>

Init ==
    /\ happened = 0
    /\ waiting = {}
    /\ lost = {}
    /\ log = {}

New == (happened + 1)..happened'

\* Some events happen; the sender pushes out some of those it holds.
Happen ==
    /\ happened' \in Nat
    /\ happened' >= happened
    /\ waiting' \subseteq waiting \cup New
    /\ lost' = lost \cup ((waiting \cup New) \ waiting')
    /\ log' = log

\* The log takes events that happened, and leaves no gap before them.
Record ==
    /\ log \subseteq log'
    /\ log' \subseteq (1..happened) \ Refused
    /\ \A e \in log' \ log : \A f \in 1..e : f \in log' \cup lost \cup Refused
    /\ UNCHANGED <<happened, waiting, lost>>

\* The sender lets go of events that are recorded or refused.
Settle ==
    /\ waiting' \subseteq waiting
    /\ waiting \ waiting' \subseteq log \cup Refused
    /\ UNCHANGED <<happened, lost, log>>

Next == Happen \/ Record \/ Settle

Spec == Init /\ [][Next]_vars

=============================================================================
