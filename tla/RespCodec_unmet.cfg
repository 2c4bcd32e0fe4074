\* What documents of the code promise and the code does not keep (README, section 4).
\* TLC stops at the first property it refutes: leave one in the list to see its trace.
SPECIFICATION Spec
CONSTANTS
  Tokens <- MCTokens
  Values <- MCValues
  Batches <- MCBatches
  Others <- MCOthers
  Depth <- MCDepth
  Numeral <- MCNumeral
  ItemStarts <- MCItemStarts
  MaxBuffer = 30
INVARIANTS
  Incremental
  OffsetIsPlace
CHECK_DEADLOCK FALSE
