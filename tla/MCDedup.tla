------------------------------ MODULE MCDedup ------------------------------
(* Instances of DedupEngine for TLC: two replicas, and faults in small numbers. *)
EXTENDS DedupRefinement, DedupInvariant, TLC

CONSTANTS r1, r2, p1, k1, q1, q2

OnePartition == [k \in Keys |-> p1]

Bound(failures, cancels, rebalances, evictions, stops, crashes) ==
  ("failure" :> failures) @@ ("cancel" :> cancels) @@ ("rebalance" :> rebalances)
  @@ ("evict" :> evictions) @@ ("stop" :> stops) @@ ("crash" :> crashes)

\* Two broker failures (a send and the initialization after the abort, say), a
\* dropped call, partitions that move between live members, the eviction of a
\* replica that does not know it yet, a shutdown and a crash.
EveryFault == Bound(2, 1, 1, 1, 1, 1)
Pairs == {mix \in SUBSET Faults : Cardinality(mix) = 2}
\* Partitions that move between live members, together with a broker failure, a
\* dropped call or a shutdown, while calls hold the locks or wait for them.
RecoveryFaults == Bound(1, 1, 1, 0, 1, 0)
WithRebalance == {{"rebalance", f} : f \in {"failure", "cancel", "stop"}}

Symmetry == Permutations(Replicas) \cup Permutations(Requests)
=============================================================================
