SPECIFICATION Spec
CONSTANTS
  Users = {u1}
  Requests = {r1, r2}
  Slugs = {1, 2}
  Catalog <- MCCatalog
  StripeStatuses = {"active", "unpaid"}
  MaxSubscriptions = 1
  MaxEvents = 3
  MaxCustomers = 1
  MaxAdmin = 2
  Failures = TRUE
  NoUser = NoUser
SYMMETRY Symmetry
INVARIANTS
  TypeOK
  CatalogKept
  AccessFollowsPayment
CHECK_DEADLOCK FALSE
