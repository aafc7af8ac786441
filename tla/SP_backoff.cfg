SPECIFICATION Spec
CONSTANTS
  NULL = NULL
  Payments = {"bill"}
  Recurring = {}
  Executors = {"e1"}
  MaxAttempts = 3
  FirstPayAt <- MCFirstPayAt
  RecurringUntil <- MCRecurringUntil
  CycleLength = 3
  DAY = 1
  ValidForDays = 2
  MinMonthDays = 3
  RetryBackoffs <- MCSlowBackoffs
  FetchLimit = 1
  MaxJobTime = 1
  MaxTime = 5
  MaxFaults = 0
PROPERTIES BackoffRespected
