SPECIFICATION Spec
CONSTANTS
  Cases <- MCCases
  Bodies <- MCBodies
  AllowedTargets <- MCTargets
  ProduceMaxBody = 4
  Attempts = {1, 2}
  MaxClock = 2
  MaxFaults = 1
INVARIANT AnswersHold
INVARIANT SignatureBinds
 
PROPERTY AnsweredByDeadline
