SPECIFICATION Chain
CONSTANTS
  Day <- Days
  Month <- Months
  MonthOf <- MCMonthOf
  FirstDay <- MCFirstDay
  TimeOfDay <- Times
  Cadence <- Cadences
  Start <- Starts
  MaxLate = 1
INVARIANTS ChainTypeOK NextIsFirst
CHECK_DEADLOCK FALSE
