SPECIFICATION FairSpec
CONSTANTS
  p1 = p1  p2 = p2
  None = None
  Members = {m1, m2}
  Partitions = {p1, p2}
  End <- Logs
  Filtered <- Dropping
  Invalid <- Failing
  max_attempts = 2
  dead_letter_topic = TRUE
  MaxFaults = 1
INVARIANT CommitsSettledUnlessLost
INVARIANT DeliveredInOrder
PROPERTY EventuallySettled
