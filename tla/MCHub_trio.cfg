SPECIFICATION Spec
CONSTANTS
  c1 = c1
  c2 = c2
  c3 = c3
  u1 = u1
  u2 = u2
  i1 = i1
  chA = chA
  Clients = {c1, c2, c3}
  Users = {u1, u2}
  IPs = {i1}
  Channels = {chA}
  UserOf <- MCUserOf
  IPOf <- MCIPOf
  ChannelOf <- MCChannelOf
  MaxConnectionsPerUser = 2
  MaxConnectionsPerIP = 1
  clientSendBuffer = 1
  broadcastBufferSize = 1
  Faults = TRUE
  Signal = FALSE
  Handshakes = 2
  MaxEvents = 2
  NoClient = NoClient
SYMMETRY Symmetry
INVARIANTS
  ConnectionCounts
  LimitOvershoot
  SubscriptionsTrackClients
CHECK_DEADLOCK FALSE
