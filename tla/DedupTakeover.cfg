SPECIFICATION Spec
CONSTANTS
  r1 = r1  r2 = r2
  p1 = p1
  k1 = k1
  q1 = q1  q2 = q2
  None = None
  Replicas = {r1, r2}
  Partitions = {p1}
  Keys = {k1}
  Requests = {q1, q2}
  partition_for <- OnePartition
  warmup_empty_polls = 1
  MaxFaults <- EveryFault
  Mixes <- Pairs
SYMMETRY Symmetry
INVARIANT AtMostOnceUnlessExcused
INVARIANT WarmMapComplete
INVARIANT IInv
PROPERTY ImplementsExactlyOnce
