SPECIFICATION Spec
CONSTANTS
  Main = main
  Handlers = {h1, h2}
  MaxRequests = 3
INVARIANTS
  TypeOK
  OneSaver
PROPERTIES
  StopEndsProcess
CHECK_DEADLOCK FALSE
