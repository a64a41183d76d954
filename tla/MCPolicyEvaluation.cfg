SPECIFICATION EvaluationSpec
CONSTANTS
  Blank = ""
  FileType = "file_type"
  Policies <- AllPolicies
  Detections <- SomeDetections
CHECK_DEADLOCK FALSE
INVARIANTS
  RulesAreAlternatives
  ExceptionsOnlyRemove
  AgentIsNoLaxer
  SeverityFollowsMatches
