SPECIFICATION ProgressSpec
CONSTANTS
  NULL = NULL
  Payments = {"bill"}
  Recurring = {}
  Executors = {"e1"}
  MaxAttempts = 2
  FirstPayAt <- MCDueAtOnce
  RecurringUntil <- MCRecurringUntil
  CycleLength = 3
  DAY = 1
  ValidForDays = 1
  MinMonthDays = 3
  RetryBackoffs <- MCBackoffs
  FetchLimit = 1
  MaxJobTime = 1
  MaxTime = 4
  MaxFaults = 0
  Orders = {o1}
  Users = {u1}
  OrderUser <- MCOrderUser
  Reservations = {r1}
  Handlers = {h1, h2}
  MaxPosts = 2
  MaxCallbacks = 2
  MaxTransfers = 1
  MaxTroubles = 0
  NoOne = NoOne
  Bots = {b1, b2}
  MaxMessages = 2
  Unattended = {2}
  Nobody = Nobody
PROPERTIES EveryAttemptEnds ProvisioningEnds NothingForgotten
CHECK_DEADLOCK FALSE
