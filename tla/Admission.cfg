SPECIFICATION Limits
CONSTANTS
  n1 = n1
  n2 = n2
  n3 = n3
  e1 = e1
  e2 = e2
  Net <- ThreeNets
  Email <- TwoEmails
  MaxAttempts = 4
  Nobody = Nobody
  Window = 2
  PruneEvery = 1
  LoginLimit = 1
  NetLimit = 2
  MaxKeys = 2
  FormLimit = 2
  FormMaxKeys = 1
  AnonLimit = 1
  HourLimit <- TwoAnHour
  Slots = 1
  MaxClock = 3
CONSTRAINTS OneGroup LoginsEnd E1First
SYMMETRY Symmetry
CHECK_DEADLOCK FALSE
INVARIANTS LimitsTypeOK GuessesHeld AnonymousHeld AllowanceHeld SlotsReturned
