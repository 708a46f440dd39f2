SPECIFICATION Spec
CONSTANTS
  a1 = a1
  a2 = a2
  u1 = u1
  l1 = l1
  l2 = l2
  r1 = r1
  r2 = r2
  App <- OneApp
  User <- OneUser
  Link <- TwoLinks
  Request <- TwoRequests
  None = None
  Caps = {1}
  MaxPdfs = 1
  MaxServed = 1
  MaxRestarts = 1
SYMMETRY Symmetry
CHECK_DEADLOCK FALSE
INVARIANTS CapHolds QuotaHeld LiveHasFile
