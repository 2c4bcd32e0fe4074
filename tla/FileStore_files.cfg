SPECIFICATION Spec
CONSTANTS
  MaxRuns = 2
  MaxLabel = 2
  RdbSizes = {1}
  LogSize = 1
  MaxSize = 1
  Ops = {"rdb", "rotate", "scan", "gc"}
INVARIANTS
  TypeOK
  NamesTellContents
  SegmentsTile
  AofReaderIsFaithful
  AvailableIsReadable
  RegisteredIsAvailable
PROPERTIES
  GcOldestFirst
CHECK_DEADLOCK FALSE
