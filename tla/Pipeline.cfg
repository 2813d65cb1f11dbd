SPECIFICATION PipelineSpec
CONSTANTS
  Alphabet <- MCAlphabet
  IntegerOf <- MCIntegerOf
  IntegerTypes <- MCIntegerTypes
  FirstAmbiguous = 4
  Subscriptions <- MCSubscriptions
  Scenarios <- MCScenarios
  JsonNames <- MCJsonNames
  Tasks = {"p1", "p2"}
  PREPARED_SCHEMA_CAPACITY = 1
  latest_cache_ttl = 1
  MaxFlight = 1
  MaxPoll = 3
CHECK_DEADLOCK FALSE
INVARIANT FilterAsMeant
INVARIANT RecordsReadable
PROPERTY LatestIsRecent
PROPERTY PipelineProgress
