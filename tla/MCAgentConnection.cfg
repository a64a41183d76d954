CONSTANTS
  a1 = a1
  a2 = a2
  h1 = h1
  Agents = {a1, a2}
  Hosts = {h1}
  Host <- MCHost
  MaxRows = 4
  MaxDeletes = 2
  MaxFaults = 2
SPECIFICATION Spec
CHECK_DEADLOCK FALSE
INVARIANT RegistryIsSound
PROPERTY AgentsComeBack
