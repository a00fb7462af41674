SPECIFICATION Spec
CONSTANTS
  u1 = u1
  a1 = a1
  a2 = a2
  a3 = a3
  a4 = a4
  a5 = a5
  Users = {u1}
  Requests = {r1, r2}
  Apps = {a1, a2, a3, a4, a5}
  FirstApps <- MCFirstApps
  Slug <- MCSlug
  Plans <- MCPlans
  FirstPlan <- starter
  MaxMinutes = 1
  MaxMonths = 2
  MaxBegun = 3
  MaxChanges = 1
  Failures = TRUE
  NoUser = NoUser
  NoApp = NoApp
SYMMETRY Symmetry
INVARIANTS
  TypeOK
  UsageBounded
  AppsWhole
CHECK_DEADLOCK FALSE
