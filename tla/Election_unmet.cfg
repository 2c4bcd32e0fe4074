\* What documents of the code promise and the code does not keep (README, section 4).
\* TLC stops at the first property it refutes: leave one in the list to see its trace.
SPECIFICATION Spec
CONSTANTS
  Nodes = {n1, n2}
  NoNode = nobody
  Pending = pending
  Ttl = 2
INVARIANTS
  OneLeader
  LeaderRenews
  OwnKeyOnly
  ResignReturns
CHECK_DEADLOCK FALSE
