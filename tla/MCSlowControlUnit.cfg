SPECIFICATION Spec
CONSTANTS
  b1 = b1
  b2 = b2
  NULL = NULL
  NoParm = NoParm
  EndCount = 1
  IntMin <- MCIntMin
  IntMax = 3
  UintModulus = 32
  Parms <- MCParms
  RandMaxes <- MCRandMaxes
  Timeouts <- MCTimeouts
  MaxPending = 1
  Block <- MCBlocks
INVARIANTS
  TypeOK
  NoNullDriver
  DriverTouchesLiveMemory
  OnlyOp2Leaks
PROPERTIES
  SampleIsDrawn
  HonoursContract
  FireLeaves
  SubmittedStarts
