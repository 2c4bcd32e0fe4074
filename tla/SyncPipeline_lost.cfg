SPECIFICATION Spec
CONSTANTS
  MaxLen = 3
  MaxReplid = 1
  RdbSizes = {1}
  MaxRuns = 1
  MaxFaults = 1
  KeepAlive = FALSE
INVARIANTS
  NothingLost
CHECK_DEADLOCK FALSE
