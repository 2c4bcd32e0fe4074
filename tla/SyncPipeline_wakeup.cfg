SPECIFICATION Spec
CONSTANTS
  MaxLen = 2
  MaxReplid = 1
  RdbSizes = {1, 2}
  MaxRuns = 1
  MaxFaults = 0
  KeepAlive = FALSE
INVARIANTS
  NoLostWakeup
CHECK_DEADLOCK FALSE
