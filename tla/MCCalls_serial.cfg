SPECIFICATION Spec
CONSTANTS
  Users = {u1, u2, u3}
  Channels = {ch}
  Modes = {"voice", "video"}
  maxParticipants = 2
  planLimit = 0
  Requests = {r1}
  MaxCalls = 2
  MaxRows = 4
  MaxRecordings = 2
  Failures = FALSE
  NoUser = NoUser
  NoChannel = NoChannel
INVARIANTS
  SerialCalls
CHECK_DEADLOCK FALSE
