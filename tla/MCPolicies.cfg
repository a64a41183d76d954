SPECIFICATION Spec
CONSTANTS
  Ids = {t, p, q}
  Template = t
  Clients = {c, d}
  NoPolicy = NoPolicy
  NoReq = NoReq
  MaxCommits = 3
SYMMETRY Symmetry
INVARIANTS
  TablesAreSound
  SettledStreamsAgree
PROPERTIES
  OnlyActivateActivates
