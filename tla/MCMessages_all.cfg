SPECIFICATION Spec
CONSTANTS
  ann = ann
  bob = bob
  c1 = c1
  c2 = c2
  k1 = k1
  k2 = k2
  k3 = k3
  Users = {ann, bob}
  Roles0 <- MCRoles
  Names = {"bob", "Bob", "ann", "zoe"}
  NameOf <- MCNameOf
  Channels = {c1, c2}
  ReadOnly = {c2}
  ChannelRole <- MCChannelRole
  FirstMessages <- MCFirstMessages
  Keys = {k1, k2, k3}
  Object <- MCObject
  MaxBytes = 2
  Requests = {r1, r2}
  Inputs <- MCInputs
  MaxBegun = 3
  MaxMessages = 4
  MaxChanges = 1
  Failures = TRUE
  NoUser = NoUser
SYMMETRY Symmetry
INVARIANTS
  TypeOK
  PostingAllowed
  NotificationsRight
  StoredAsTold
CHECK_DEADLOCK FALSE
