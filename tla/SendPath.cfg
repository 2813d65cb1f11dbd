SPECIFICATION FairSpec
CONSTANTS
  r1 = r1
  r2 = r2
  k = k
  None = None
  Replicas = {r1, r2}
  Calls = {"c1", "c2"}
  Records = {"a", "b", "d", "x", "y"}
  batch <- MCBatch
  origin <- MCOrigin
  idempotency_key <- MCKeys
  Structured = {"x"}
  Denied <- MCDenied
  SEND_WINDOW_CAPACITY = 2
  MaxFaults = 2
  MaxResends = 1
CHECK_DEADLOCK FALSE
INVARIANT ResultsMatchRecords
INVARIANT StoredInInputOrder
INVARIANT AnswersStand
INVARIANT RetryStoresOnce
PROPERTY SendsFinish
