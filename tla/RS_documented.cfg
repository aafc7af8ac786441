SPECIFICATION Spec
CONSTANTS
  NULL = NULL
  ValidForDays = {1, 2, 3}
  PayAts <- MCPayAts
  FailureDelays <- MCFailureDelays
  Outages <- MCOutages
  MaxOutages = 0
PROPERTIES RetriesAsDocumented
CHECK_DEADLOCK FALSE
