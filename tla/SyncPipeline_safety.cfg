SPECIFICATION Spec
CONSTANTS
  MaxLen = 3
  MaxReplid = 2
  RdbSizes = {1, 2}
  MaxRuns = 2
  MaxFaults = 1
  KeepAlive = FALSE
INVARIANTS
  TypeOK
  CheckpointNotInFuture
  NoGapSinceBegin
  SavedIdIsContinued
PROPERTIES
  CheckpointIsForwarded
  CheckpointNeverFallsBack
  IsLogCursor
CHECK_DEADLOCK FALSE
