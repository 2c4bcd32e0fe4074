\* What documents of the code promise and the code does not keep (README, section 4).
\* TLC stops at the first property it refutes: leave one in the list to see its trace.
SPECIFICATION FairSpec
CONSTANTS
  k1 = k1 k2 = k2 v1 = v1 v2 = v2
  Key = {k1, k2, none}
  EmptyName = none
  Value = {v1, v2}
  NoRaw = noraw
  Garbage = garbage
  Old = old
  Db = {0, 1, 2}
  TargetDb = {0, 1}
  PerMs = 2
  MaxTime = 4
  MaxFailures = 0
  Leftovers <- MCLeftovers
  Time <- MCTime
  Files <- Unmet
INVARIANTS
  AllTypesRestored
  ExpiringKeysExpire
  KeysKeepTheirNames
  StaysInStep
  OnlySourceKeys
  OkMeansAllRestored
PROPERTIES
  CompletesAlways
CHECK_DEADLOCK FALSE
