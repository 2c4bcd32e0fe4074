SPECIFICATION FairSpec
CONSTANTS
  Nodes = {n1, n2}
  NoNode = nobody
  Pending = pending
  Ttl = 2
INVARIANTS
  TypeOK
  LeaseIsKept
  HungHasResigned
PROPERTIES
  HeldByRenewing
CHECK_DEADLOCK FALSE
