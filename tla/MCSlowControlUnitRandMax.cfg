SPECIFICATION Spec
CONSTANTS
  b1 = b1
  b2 = b2
  NULL = NULL
  NoParm = NoParm
  EndCount = 1
  IntMin <- MCIntMin
  IntMax = 3
  UintModulus = 32
  Parms <- MCParms
  RandMaxes <- FractionalRandMaxes
  Timeouts <- MCTimeouts
  MaxPending = 1
  Block <- MCBlocks
INVARIANT
  AsksPositiveInterval
