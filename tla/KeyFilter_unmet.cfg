\* What documents of the code promise and the code does not keep (README, section 4).
\* TLC stops at the first property it refutes: leave one in the list to see its trace.
SPECIFICATION Spec
CONSTANTS
  Configs <- MCConfigs
  NoRoute <- MCNoRoute
  Requests <- MCRequests
  NoKey = NoKey
  Crc16 <- MCCrc16
  MaxU16 = 7
  Additions <- MCAdditions
  MaxAdds = 1
INVARIANTS
  RangesAreDisjoint
  CoverageIsSize
  SlotIsClusters
CHECK_DEADLOCK FALSE
