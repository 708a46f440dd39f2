SPECIFICATION Spec
CONSTANTS
  u1 = u1
  u2 = u2
  s1 = s1
  s2 = s2
  j1 = j1
  j2 = j2
  r1 = r1
  User <- TwoUsers
  Slug <- TwoSlugs
  Job <- TwoJobs
  Request <- OneRequest
  Portal = Portal
  None = None
  FirstUser = u1
  FirstApp = s1
  MaxChanges = 3
  MaxSessions = 1
CONSTRAINT ThirdChangeAlone
SYMMETRY Symmetry
CHECK_DEADLOCK FALSE
INVARIANTS TypeOK ServedHadAccess Confined DefaultGrants
PROPERTY WithdrawnClosed
