SPECIFICATION Spec
CONSTANTS
  Tokens <- MCTokens
  Values <- MCValues
  Batches <- MCBatches
  Others <- MCOthers
  Depth <- MCDepth
  Numeral <- MCNumeral
  ItemStarts <- MCItemStarts
  MaxBuffer = 30
INVARIANTS
  TypeOK
  InPlace
  ErrorMeansMalformed
  Drained
  RoundTrip
  NothingInvented
CHECK_DEADLOCK FALSE
