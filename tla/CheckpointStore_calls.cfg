SPECIFICATION Spec
CONSTANTS
  Managers = {1, 2}
  Writers = {1}
  Replids = {1, 2}
  Ops <- AllOps
  Deleted = {2}
  MaxOffset = 2
  MaxCalls = 4
  MaxFaults = 1
INVARIANTS
  TypeOK
  MappedIsComplete
  SavedIsRead
PROPERTIES
  IsCheckpointMap
CHECK_DEADLOCK FALSE
