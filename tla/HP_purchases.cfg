SPECIFICATION BuyingSpec
CONSTANTS
  Orders = {o1}
  Users = {u1}
  OrderUser <- MCOrderUser
  Reservations = {r1, r2}
  Handlers = {h1, h2}
  MaxPosts = 2
  MaxCallbacks = 2
  MaxTransfers = 2
  MaxTroubles = 1
  NoOne = NoOne
  Owners = {r1, r2}
  Emails = {s1, s2}
  DropHandlers = {h1, h2}
  Supply = 2
  RateLimitCount = 1
  MaxDrops = 2
  Nothing = Nothing
  Requests = {h1, h2, q3}
  Buyers = {r1, r2}
  Slugs = {s1, s2}
  MaxLosses = 1
  NoBuyer = NoBuyer
  NoSlug = NoSlug
  NoTicket = NoTicket
  Events = {1, 2, 3}
  EventBlock <- MCEventBlock
  Contract <- MCContract
  LastBlock = 3
  Historic = 2
  Week = 2
  HasSendBy = {2}
  MaxJobs = 2
  MaxFaults = 1
  NoEvent = NoEvent
  NULL = NULL
  ValidForDays = {1, 2, 3}
  PayAts <- MCPayAts
  FailureDelays <- MCFailureDelays
  Outages <- MCOutages
  MaxOutages = 2
SYMMETRY BuyingSymmetry
INVARIANTS CardIsPaidFor OneRequestSpare OneCardUnlessRaced TransferredOnce ReservationKept
INVARIANTS OneDropUnlessStale PromisesCovered
INVARIANTS OneProfilePerReceipt
INVARIANTS ScheduleFillsValidity RetriesLeftIsTrue
PROPERTIES FollowsDiagram TellsOnce RetryAfterWait
CHECK_DEADLOCK FALSE
