SPECIFICATION Spec
CONSTANTS
  Ids = {i}
  Entries = {e}
  Slots = {s, t}
  Reports <- ReportsUsed
  Updates <- UpdatesUsed
  Wanted = {"new", "resolved"}
  None = None
  MaxRetries = 2
  MaxCommits = 4
SYMMETRY Symmetry
CONSTRAINT Apart
INVARIANTS
  TablesAreSound
  HistoryReplaysTheRow
  AuditTellsTheChanges
  EventsTellTheRow
  RetriesAreCounted
