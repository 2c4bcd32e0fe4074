\* What documents of the code promise and the code does not keep (README, section 4).
\* TLC stops at the first property it refutes: leave one in the list to see its trace.
SPECIFICATION Spec
CONSTANTS
  Main = main
  Handlers = {h1, h2}
  MaxRequests = 3
INVARIANTS
  OneLeader
  FailureIsToldSystemd
  RestartRuns
  ReadyIsNotRunning
PROPERTIES
  PausedIsQuiet
  StreamIsIncremental
  StopKeepsServing
CHECK_DEADLOCK FALSE
