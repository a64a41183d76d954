CONSTANTS
  Trees <- MCTrees
  BadNames = {"bad"}
  MaxDepth = 2
  MaxBytes = 4
  MaxFiles = 2
  MaxRatio = 2
  Files <- MCFiles
  Nesting <- MCNesting
  MaxText = 2
  Passes = 2
  Within <- MCWithin
  MimeDB <- MCMimeDB
  ExtDB <- MCExtDB
  Threshold = 40
  Bits = 3
  Ids = {1, 2}
  Document <- Documents
  MaxChanges = 4
  Scenarios <- MCScenarios
  Workers = 1
  GatewayEngine <- MCEngine
  Allowlist = {"ours"}
  BlockAt = 3
  ModifyAt = 2
SPECIFICATION MCSpec
CHECK_DEADLOCK FALSE
INVARIANTS
  VerdictFollowsContent
  EnforcedAsRecorded
  AnalyzersAreRight
  FingerprintsStay
  InspectionIsSound
PROPERTIES
  EveryCallIsAnswered
