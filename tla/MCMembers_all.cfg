SPECIFICATION Spec
CONSTANTS
  u1 = u1
  u2 = u2
  u3 = u3
  s1 = s1
  s2 = s2
  n1 = n1
  n2 = n2
  Users = {u1, u2, u3}
  Owner = u1
  FirstRoles <- MCFirstRoles
  FirstChannel = u2
  Slugs = {s1, s2}
  FirstSlug = s1
  Names = {n1, n2}
  FirstName = n1
  Requests = {r1, r2}
  Inputs <- MCInputs
  MaxWorkspaces = 2
  MaxChannels = 2
  MaxBegun = 5
  Failures = TRUE
  NoUser = NoUser
  NoName = NoName
SYMMETRY Symmetry
INVARIANTS
  TypeOK
  OwnersStay
  MatrixKept
  ToldTrue
CHECK_DEADLOCK FALSE
