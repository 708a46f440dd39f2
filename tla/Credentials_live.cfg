SPECIFICATION FairSpec
CONSTANTS
  u1 = u1
  a1 = a1
  a2 = a2
  c1 = c1
  c2 = c2
  c3 = c3
  c4 = c4
  r1 = r1
  r2 = r2
  User <- OneUser
  App <- OneApp
  Cid <- ThreeIds
  Request <- TwoRequests
  None = None
  MaxPasswords = 1
  MaxRestarts = 1
CHECK_DEADLOCK FALSE
PROPERTY SignOutHappens
