SPECIFICATION FairSpec
CONSTANTS
  Order <- AllKinds
  Monitors = {"clipboard"}
  Ports = {"driver"}
  Clients = {"client"}
  Scanners = {"scanner"}
  RelockOutcomes = {"reenter", "hang"}
  Launches = {"console", "service"}
  MaxFaults = 3
CHECK_DEADLOCK FALSE
INVARIANTS
  FlagsTellTheThreads
PROPERTIES
  StopEnds
  UnhealthyIsRestarted
