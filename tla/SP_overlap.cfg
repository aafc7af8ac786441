SPECIFICATION Spec
CONSTANTS
  NULL = NULL
  Payments = {"bill"}
  Recurring = {}
  Executors = {"e1", "e2"}
  MaxAttempts = 3
  FirstPayAt <- MCFirstPayAt
  RecurringUntil <- MCRecurringUntil
  CycleLength = 3
  DAY = 1
  ValidForDays = 1
  MinMonthDays = 3
  RetryBackoffs <- MCBackoffs
  FetchLimit = 1
  MaxJobTime = 1
  MaxTime = 5
  MaxFaults = 0
INVARIANTS OneInProgress
