--------------------------- MODULE DeviceLifecycle ---------------------------
(***************************************************************************)
(* What the authentication service promises about devices, without codes,  *)
(* tokens, clocks or calls that wait.  A pairing session makes at most one *)
(* device, and none once too many wrong codes were tried.  A device is     *)
(* active until it is revoked or has to be repaired, and never again.      *)
(* Only an active device opens a connection; a device that has to be       *)
(* repaired may keep the one it has, a revoked one may not.                *)
(***************************************************************************)
CONSTANTS
    Sessions,    \* pairing sessions
    Devices,
    Tickets,     \* what a connection is opened with
    None         \* no connection

VARIABLES
    locked,      \* the sessions on which too many wrong codes were tried
    paired,      \* by session: the devices it made
    stage,       \* by device: "none", "active", "repair_required", "revoked"
    connection   \* by device: the ticket its connection was opened with

vars == <<locked, paired, stage, connection>>

Init ==
    /\ locked = {}
    /\ paired = [s \in Sessions |-> {}]
    /\ stage = [d \in Devices |-> "none"]
    /\ connection = [d \in Devices |-> None]

Lock(s) ==
    /\ paired[s] = {}
    /\ locked' = locked \cup {s}
    /\ UNCHANGED <<paired, stage, connection>>

Pair(s, d) ==
    /\ s \notin locked
    /\ paired[s] = {}
    /\ stage[d] = "none"
    /\ paired' = [paired EXCEPT ![s] = {d}]
    /\ stage' = [stage EXCEPT ![d] = "active"]
    /\ UNCHANGED <<locked, connection>>

Connect(d, k) ==
    /\ stage[d] = "active"
    /\ connection' = [connection EXCEPT ![d] = k]
    /\ UNCHANGED <<locked, paired, stage>>

Disconnect(d) ==
    /\ connection' = [connection EXCEPT ![d] = None]
    /\ UNCHANGED <<locked, paired, stage>>

Compromise(d) ==
    /\ stage[d] = "active"
    /\ stage' = [stage EXCEPT ![d] = "repair_required"]
    /\ UNCHANGED <<locked, paired, connection>>

Revoke(d) ==
    /\ stage[d] # "none"
    /\ stage' = [stage EXCEPT ![d] = "revoked"]
    /\ connection' = [connection EXCEPT ![d] = None]
    /\ UNCHANGED <<locked, paired>>

Next ==
    \/ \E s \in Sessions : Lock(s)
    \/ \E s \in Sessions, d \in Devices : Pair(s, d)
    \/ \E d \in Devices, k \in Tickets : Connect(d, k)
    \/ \E d \in Devices : Disconnect(d) \/ Compromise(d) \/ Revoke(d)

Spec == Init /\ [][Next]_vars

=============================================================================
