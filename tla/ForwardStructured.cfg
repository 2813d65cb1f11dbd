SPECIFICATION Spec
CONSTANTS
  r1 = r1
  r2 = r2
  k = k
  None = None
  Replicas = {r1, r2}
  Calls = {"c1", "c2"}
  Records = {"a", "b", "d", "x", "y"}
  batch <- MCBatch
  origin <- MCOrigin
  idempotency_key <- MCKeys
  Structured = {"x"}
  Denied <- MCDenied
  SEND_WINDOW_CAPACITY = 2
  MaxFaults = 0
  MaxResends = 0
INVARIANT
  StoredAsSent
CHECK_DEADLOCK FALSE
