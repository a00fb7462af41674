SPECIFICATION Spec
CONSTANTS
  c1 = c1
  c2 = c2
  w1 = w1
  w2 = w2
  Users = {u1, u2}
  Channels = {c1, c2}
  Workspaces = {w1, w2}
  WorkspaceOf <- MCWorkspaceOf
  TTL = 2
  MaxLive = 2
  MaxOps = 3
  Failures = TRUE
INVARIANTS
  TypeOK
PROPERTIES
  ImplementsStore
  StaleFades
CHECK_DEADLOCK FALSE
