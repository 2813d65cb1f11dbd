---------------------------- MODULE MCSubscribe ----------------------------
(* The instance of Subscribe for TLC: offset 1 does not exist (a transaction  *)
(* marker, say) and offset 2 is dropped by the filter.                     *)
EXTENDS Subscribe, TLC

CONSTANTS p1, p2

TwoLogs == (p1 :> {0, 2, 3}) @@ (p2 :> {0})
TwoFilters == (p1 :> {2}) @@ (p2 :> {})
=============================================================================
