SPECIFICATION Spec
CONSTANTS
  Profiles <- MCProfiles
  Conns = {1, 2}
  AclStates <- MCAcls
  Brokers = 1
  I32_MAX = 4
  FIRST_AMBIGUOUS_F64_MILLIS = 8
INVARIANT StartsAsConfigured
INVARIANT GrantsAreJustified
PROPERTY StopsAndCatchesUp
