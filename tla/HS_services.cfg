SPECIFICATION ServicesSpec
CONSTANTS
  NULL = NULL
  Callers = {p1, p2}
  StartCounts = {0, 1}
  TTL = 2
  TxTimeout = 1
  MaxNonce = 3
  MaxTime = 4
  MaxFaults = 1
  Cancelers = {p1, p2}
  NoTx = NoTx
  MaxMishaps = 1
  Cycles <- MCCycles
  Block <- MCBlock
  IndexLimit = 2
  Checks = {p1, p2}
  OtherWrites = {w1}
  MaxFailures = 1
  MaxChecks = 3
  NoCycle = NoCycle
SYMMETRY MCSymmetry
INVARIANTS TypeOK NoHole
INVARIANTS ScheduledIsKnown CancelErrorIsTrue NoSilentGiveUp
INVARIANTS RootSkippedOnlyAfterFailure
PROPERTIES PatientReplacement CommitsInSequence
