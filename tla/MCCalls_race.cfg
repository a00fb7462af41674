SPECIFICATION Spec
CONSTANTS
  Users = {u1, u2, u3, u4}
  Channels = {ch}
  Modes = {"voice", "video"}
  maxParticipants = 2
  planLimit = 1
  Requests = {r1, r2}
  MaxCalls = 1
  MaxRows = 5
  MaxRecordings = 2
  Failures = TRUE
  NoUser = NoUser
  NoChannel = NoChannel
SYMMETRY Symmetry
INVARIANTS
  TypeOK
  CapacityOvershoot
  OneActiveRecording
  ActiveWasShared
  ChargedWasBillable
CHECK_DEADLOCK FALSE
