SPECIFICATION FairSpec
CONSTANTS
  Agents = {a1}
  Scanning = {a1}
  Scans = {s1}
  NoAgent = NoAgent
  Configured = Configured
  MaxTriggers = 2
  Filtered = {1}
  MaxFaults = 0
CHECK_DEADLOCK FALSE
PROPERTY CommandsAreDelivered
