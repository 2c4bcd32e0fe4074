\* What documents of the code promise and the code does not keep (README, section 4).
\* TLC stops at the first property it refutes: leave one in the list to see its trace.
SPECIFICATION FairSpec
CONSTANTS
  MaxLen = 2
  MaxReplid = 2
  RdbSizes = {1}
  MaxRuns = 2
  MaxFaults = 1
  KeepAlive = TRUE
INVARIANTS
  OneHistory
  BeginsWithStream
  NoLostWakeup
  NothingResent
PROPERTIES
  ReachesStream
CHECK_DEADLOCK FALSE
