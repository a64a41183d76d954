SPECIFICATION FairSpec
CONSTANTS
  Servers = {s1, s2}
  Agents = {a1}
  RelockOutcomes = {"reenter", "hang"}
  MaxChanges = 2
  MaxFaults = 2
CHECK_DEADLOCK FALSE
INVARIANTS
  PullCoversAnnouncement
  NextEventHealsGap
PROPERTIES
  AgentsSettle
