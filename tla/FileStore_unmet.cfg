\* What documents of the code promise and the code does not keep (README, section 4).
\* TLC stops at the first property it refutes: leave one in the list to see its trace.
SPECIFICATION Spec
CONSTANTS
  MaxRuns = 2
  MaxLabel = 3
  RdbSizes = {1, 2}
  LogSize = 1
  MaxSize = 1
  Ops = {"rdb", "rotate", "scan", "gc"}
INVARIANTS
  ScannedIsReadable
  FlushedIsAvailable
  RdbReaderIsFaithful
  GcCanRunAgain
PROPERTIES
  GcSparesNewest
  GcOnlyAboveLimit
CHECK_DEADLOCK FALSE
