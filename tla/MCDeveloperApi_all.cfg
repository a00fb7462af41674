SPECIFICATION Spec
CONSTANTS
  i1 = i1
  kl = kl
  ks = ks
  x1 = x1
  x2 = x2
  x3 = x3
  n1 = n1
  n2 = n2
  Requests = {r1, r2}
  Keys = {kl, ks}
  Lane <- MCLane
  FirstKeys = {kl}
  IdemKeys = {i1}
  NoIdem = NoIdem
  Externals = {x1, x2, x3}
  Names = {n1, n2}
  Default <- MCDefault
  Inputs <- MCInputs
  MaxUsers = 2
  MaxChannels = 2
  MaxMessages = 1
  MaxBegun = 3
  MaxTicks = 2
  Failures = TRUE
SYMMETRY Symmetry
INVARIANTS
  TypeOK
  OneUserPerExternal
  RacesBounded
  LanesDoNotMix
CHECK_DEADLOCK FALSE
