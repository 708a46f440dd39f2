SPECIFICATION Spec
CONSTANTS
  u1 = u1
  a1 = a1
  a2 = a2
  c1 = c1
  c2 = c2
  c3 = c3
  c4 = c4
  r1 = r1
  r2 = r2
  User <- OneUser
  App <- TwoApps
  Cid <- FourIds
  Request <- TwoRequests
  None = None
  MaxPasswords = 2
  MaxRestarts = 0
SYMMETRY Symmetry
CHECK_DEADLOCK FALSE
INVARIANTS OneSessionPerLaunch SignOutComplete
