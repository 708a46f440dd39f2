SPECIFICATION Spec
CONSTANTS
  u1 = u1
  p1 = p1
  p2 = p2
  k1 = k1
  k2 = k2
  t1 = t1
  t2 = t2
  t3 = t3
  r1 = r1
  r2 = r2
  User <- OneUser
  Client <- TwoClients
  Code <- TwoCodes
  Token <- ThreeTokens
  Request <- TwoRequests
  None = None
  MaxPendingPerClient = 1
  MaxLivePending = 1
  MaxAuthorizations = 2
  MaxRestarts = 1
CHECK_DEADLOCK FALSE
SYMMETRY Symmetry
INVARIANTS TypeOK OnePairPerGrant DeadGrants
PROPERTY KeepsGrants
