SPECIFICATION Spec
CONSTANTS
  Configs <- MCConfigs
  NoRoute <- MCNoRoute
  Requests <- MCRequests
  NoKey = NoKey
  Crc16 <- MCCrc16
  MaxU16 = 7
  Additions <- MCAdditions
  MaxAdds = 1
INVARIANTS
  TypeOK
  ContainsIsCovered
  AnswersAsConfigured
CHECK_DEADLOCK FALSE
