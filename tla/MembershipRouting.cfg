SPECIFICATION FairSpec
CONSTANTS
  None = None
  Replicas = {r1, r2}
  Partitions = {p1, p2}
  Readers = {r1}
  MaxFaults <- MCMaxFaults
  MaxKinds = 2
CHECK_DEADLOCK FALSE
INVARIANT RoutingInv
PROPERTY EventuallyRouted
