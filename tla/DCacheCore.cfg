SPECIFICATION Spec
CONSTANTS
  NumSets = 1
  NumTags = 3
  LineWords = 3
  Value <- MCValue
  Zero <- MCZero
  InitialMemory <- MCInitialMemory
  PowerUpTags <- MCPowerUpTags
  PowerUpData <- MCPowerUpData
  Requests <- MCRequests
  BusErrors = FALSE
INVARIANTS
  ReadReturnsLastWrite
  IInv
PROPERTIES
  RefinesMemoryPort
