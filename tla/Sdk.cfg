SPECIFICATION Spec
CONSTANTS
  Frames <- MCFrames
  ConnectFailures <- MCConnectFailures
  Channel = 1
  Outcomes <- MCOutcomes
  MaxFrames = 3
  MaxCalls = 1
  Vectors <- MCVectors
  Setups <- MCSetups
  MaxFaults = 1
CHECK_DEADLOCK FALSE
INVARIANT StreamFaithful
INVARIANT VerdictSurvives
INVARIANT HarnessJudges
PROPERTY SdkProgress
