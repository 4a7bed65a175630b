--------------------------- MODULE MCLaptopBridge ---------------------------
(***************************************************************************)
(* LaptopBridge on small instances.                                        *)
(***************************************************************************)
EXTENDS LaptopBridge, TLC

\* The mock adapter's own connect takes three events.
EventsOf == [m \in Modes |-> IF m = "ble" THEN 2 ELSE 5]

=============================================================================
