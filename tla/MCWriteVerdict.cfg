SPECIFICATION FairSpec
CONSTANTS
  Writes = {w1, w2}
  NoWrite = NoWrite
  DialogTime = 3
  Grace = 1
  TtdTime = 1
  DriverTimeout = 5
  MaxInFlight = 2
  MaxStarts = 2
CHECK_DEADLOCK FALSE
INVARIANTS
  RecordsMatchOutcomes
PROPERTIES
  StopWaitsForDecision
  TimersOutlastEachOther
  StopCompletes
