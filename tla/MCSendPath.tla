----------------------------- MODULE MCSendPath -----------------------------
(* A batch that mixes plain, denied and keyed records at one gateway, and  *)
(* a call with the same key at another.                                    *)
EXTENDS SendPath

CONSTANTS r1, r2, k

MCBatch == [c1 |-> <<"a", "d", "x", "b">>, c2 |-> <<"y">>]
MCOrigin == [c1 |-> r1, c2 |-> r2]
MCKeys == [a |-> None, b |-> None, d |-> None, x |-> k, y |-> k]
MCDenied == [r \in Replicas |-> IF r = r1 THEN {"d", "y"} ELSE {}]

=============================================================================
