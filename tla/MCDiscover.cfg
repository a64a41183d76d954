SPECIFICATION FairSpec
CONSTANTS
  Agents = {a1, a2}
  Scanning = {a1}
  Scans = {s1}
  NoAgent = NoAgent
  Configured = Configured
  MaxTriggers = 2
  Filtered = {1}
  MaxFaults = 1
CHECK_DEADLOCK FALSE
INVARIANTS
  DeliveredOnce
  UndisturbedScanIsExact
PROPERTIES
  BroadcastsAreRun
