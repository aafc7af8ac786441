SPECIFICATION Spec
CONSTANTS
  NULL = NULL
  Payments = {"rent"}
  Recurring = {"rent"}
  Executors = {"e1"}
  MaxAttempts = 3
  FirstPayAt <- MCFirstPayAt
  RecurringUntil <- MCRecurringUntil
  CycleLength = 3
  DAY = 1
  ValidForDays = 1
  MinMonthDays = 3
  RetryBackoffs <- MCBackoffs
  FetchLimit = 1
  MaxJobTime = 1
  MaxTime = 5
  MaxFaults = 1
INVARIANTS SuccessMovesPayAt
