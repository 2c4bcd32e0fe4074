\* What documents of the code promise and the code does not keep (README, section 4).
\* TLC stops at the first property it refutes: leave one in the list to see its trace.
SPECIFICATION Spec
CONSTANTS
  Managers = {1}
  Writers = {1}
  Replids = {1, 2}
  Ops <- AllOps
  Deleted = {1, 2}
  MaxOffset = 1
  MaxCalls = 4
  MaxFaults = 1
INVARIANTS
  GetAllSucceeds
  DeleteLeavesNothing
  PsyncInfoIsFound
PROPERTIES
  VersionGrows
CHECK_DEADLOCK FALSE
