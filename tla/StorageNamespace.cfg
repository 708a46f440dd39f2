SPECIFICATION Spec
CONSTANTS
  a1 = a1
  k1 = k1
  k2 = k2
  r1 = r1
  r2 = r2
  r3 = r3
  App <- OneApp
  Object <- TwoObjects
  Request <- ThreeRequests
  None = None
  Sizes = {1, 2}
  MaxBytes = 2
  MaxObjects = 1
  MaxDrops = 1
  MaxRestarts = 1
SYMMETRY Symmetry
CHECK_DEADLOCK FALSE
INVARIANT TypeOK
PROPERTY WithinQuota
