SPECIFICATION Spec
CONSTANTS
  o1 = o1
  s1 = s1
  r1 = r1
  r2 = r2
  Origin <- OneOrigin
  Service <- OneService
  Manifest <- Everything
  Request <- TwoRequests
  None = None
  MaxId = 2
  MaxRestarts = 1
CONSTRAINT OneAtATime
SYMMETRY Symmetry
INVARIANTS TypeOK RowAndFiles RevocationStands HandAddedKept ServicesDeclared
