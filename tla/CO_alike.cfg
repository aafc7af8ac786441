SPECIFICATION ConcurrentSpec
CONSTANTS
  NULL = NULL
  Payments = {"rent"}
  Recurring = {"rent"}
  Executors = {p1, p2}
  MaxAttempts = 3
  FirstPayAt <- MCDueAtOnce
  RecurringUntil <- MCRecurringUntil
  CycleLength = 3
  DAY = 1
  ValidForDays = 1
  MinMonthDays = 3
  RetryBackoffs <- MCSlowBackoffs
  FetchLimit = 1
  MaxJobTime = 1
  MaxTime = 1
  MaxFaults = 1
  Bots = {p1, p2}
  MaxMessages = 2
  Unattended = {2}
  Nobody = Nobody
  RecurringDays = {1, 15, 29, 30, 31}
  CreatedAts <- MCCreatedAts
  Untils <- MCUntils
  Delays = {0, 1, 6, 7, 26}
  Validities = {3, 13}
  LeapMonths = {13}
  LastMonth = 16
  TicksInDay = 2
SYMMETRY ConcurrentSymmetry
INVARIANTS OnePerRun
INVARIANTS OneListenerUnlessOverlap RunOncePerListener
INVARIANTS CalendarTypeOK OnRecurringDay EveryMonthOnce GuardLeavesTime
PROPERTIES NotPaidTwice
CHECK_DEADLOCK FALSE
