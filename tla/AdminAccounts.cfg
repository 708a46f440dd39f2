SPECIFICATION Spec
CONSTANTS
  u1 = u1
  u2 = u2
  u3 = u3
  r1 = r1
  r2 = r2
  UserId <- ThreeUsers
  Request <- TwoRequests
  NoUser = NoUser
  NoRequest = NoRequest
  MaxRestarts = 1
SYMMETRY Symmetry
INVARIANTS TypeOK AdminRemains SetupOnce TokensFollowRole
PROPERTY NoResurrection
