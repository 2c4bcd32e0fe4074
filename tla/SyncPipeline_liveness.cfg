SPECIFICATION FairSpec
CONSTANTS
  MaxLen = 2
  MaxReplid = 2
  RdbSizes = {1}
  MaxRuns = 2
  MaxFaults = 1
  KeepAlive = TRUE
PROPERTIES
  FailureEndsProcess
  Drains
CHECK_DEADLOCK FALSE
