SPECIFICATION FairSpec
CONSTANTS
  None = None  Done = Done
  Sessions = {s1, s2}
  Requests = {q1, q2, q3}
  Records = {r1, r2}
  MAX_SESSIONS = 1
  max_messages = 1
  MaxFaults = 1
\* The clients may fall silent.
CHECK_DEADLOCK FALSE
INVARIANT LockedIsTracked
INVARIANT SessionsBounded
PROPERTY CapacityReturns
