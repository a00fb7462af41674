SPECIFICATION Spec
CONSTANTS
  u1 = u1
  u2 = u2
  u3 = u3
  bob = bob
  Bob = Bob
  ann = ann
  Users = {u1, u2, u3}
  FirstUsers = {u1, u2}
  Bootstrap = {u3}
  Names = {bob, Bob, ann}
  Fold <- MCFold
  FirstName <- MCFirstName
  FirstTokens <- MCFirstTokens
  Requests = {r1, r2}
  Inputs <- MCAllInputs
  Second = 2
  TTL = 6
  Grace = 2
  MaxTime = 4
  MaxTokens = 5
  MaxBegun = 3
  Failures = TRUE
  NoUser = NoUser
  NoName = NoName
SYMMETRY Symmetry
INVARIANTS
  TypeOK
  SuspensionEndsSessions
  AdminRemains
  RefreshContinues
CHECK_DEADLOCK FALSE
