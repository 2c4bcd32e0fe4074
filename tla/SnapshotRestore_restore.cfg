SPECIFICATION FairSpec
CONSTANTS
  k1 = k1 k2 = k2 v1 = v1 v2 = v2
  Key = {k1, k2, none}
  EmptyName = none
  Value = {v1, v2}
  NoRaw = noraw
  Garbage = garbage
  Old = old
  Db = {0, 1, 2}
  TargetDb = {0, 1}
  PerMs = 2
  MaxTime = 4
  MaxFailures = 2
  Leftovers <- MCLeftovers
  Time <- MCTime
  Files <- AllFiles
INVARIANTS
  TypeOK
  RestoredRight
  OkMeansRestored
PROPERTIES
  Completes
CHECK_DEADLOCK FALSE
