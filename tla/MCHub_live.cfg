SPECIFICATION FairSpec
CONSTANTS
  c1 = c1
  c2 = c2
  c3 = c3
  u1 = u1
  u2 = u2
  i1 = i1
  chA = chA
  Clients = {c1, c2}
  Users = {u1}
  IPs = {i1}
  Channels = {chA}
  UserOf <- MCUserOfPair
  IPOf <- MCIPOfPair
  ChannelOf <- MCChannelOfPair
  MaxConnectionsPerUser = 1
  MaxConnectionsPerIP = 2
  clientSendBuffer = 1
  broadcastBufferSize = 1
  Faults = FALSE
  Signal = TRUE
  Handshakes = 1
  MaxEvents = 2
  NoClient = NoClient
INVARIANTS
  TypeOK
  PresenceTracksClients
  RunLoopDoesNotPanic
PROPERTIES
  ClosedIsFinal
  ClientsLeave
  ShutdownStopsRun
CHECK_DEADLOCK FALSE
