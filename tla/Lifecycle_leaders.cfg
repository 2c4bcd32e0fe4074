SPECIFICATION Spec
CONSTANTS
  Main = main
  Handlers = {h1, h2}
  MaxRequests = 3
INVARIANTS
  OneLeader
CHECK_DEADLOCK FALSE
