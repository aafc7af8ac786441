SPECIFICATION Spec
CONSTANTS
  NULL = NULL
  Callers = {c1, c2}
  StartCounts = {3}
  TTL = 3
  TxTimeout = 1
  MaxNonce = 5
  MaxTime = 4
  MaxFaults = 1
INVARIANTS RolledBackUnsent
