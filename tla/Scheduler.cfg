SPECIFICATION Spec
CONSTANTS
  r1 = r1
  Request <- OneRequest
  NextRun <- Cadence
  MaxId = 2
  MaxCreated = 2
  MaxClock = 2
  MaxRestarts = 1
INVARIANTS NothingSkipped NeverTwice
PROPERTIES NoBackfill DueFires
