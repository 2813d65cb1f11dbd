----------------------------- MODULE MCOutbound -----------------------------
(* Instances of Outbound for TLC: two members and two partitions, with a     *)
(* record the filter drops and one that cannot be rendered.                  *)
EXTENDS Outbound, TLC

CONSTANTS p1, p2

Logs == (p1 :> 3) @@ (p2 :> 1)
Dropping == (p1 :> {1}) @@ (p2 :> {})
Failing == (p1 :> {}) @@ (p2 :> {0})
=============================================================================
