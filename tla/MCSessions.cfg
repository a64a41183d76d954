SPECIFICATION SessionsSpec
CONSTANTS
  Users = {a, b}
  Passwords = {p, q}
  Secrets = {s, t}
  Clients = {c, d}
  MaxAttempts = 1
  NoUser = NoUser
  NoSecret = NoSecret
  NoReq = NoReq
  RolesUsed = {"Admin", "Analyst"}
  MaxCommits = 3
SYMMETRY Symmetry
INVARIANTS
  SessionsFollowLogins
  GuessesAreBounded
  CredentialsAreCurrent
PROPERTIES
  LoginsAreProven
