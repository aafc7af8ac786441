SPECIFICATION RootsSpec
CONSTANTS
  Cycles <- MCCycles
  Block <- MCBlock
  IndexLimit = 2
  Checks = {k1}
  OtherWrites = {w1}
  MaxFailures = 0
  MaxChecks = 3
  NoCycle = NoCycle
INVARIANTS RedundantJobsAreFine
CHECK_DEADLOCK FALSE
