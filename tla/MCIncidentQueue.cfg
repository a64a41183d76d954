SPECIFICATION QueueSpec
CONSTANTS
  Keys = {k1, k2, k3}
  Times = {1, 2}
  MaxSize = 2
  Limits = {1, 2}
  NoIncident = NoIncident
  MaxId = 4
  MaxRetry = 1
  MaxFaults = 1
SYMMETRY KeySymmetry
INVARIANTS
  SnapshotNamesSameIncident
  NothingVanishes
PROPERTIES
  ImplementsDurableQueue
