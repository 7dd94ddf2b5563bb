SPECIFICATION FairSpec
CONSTANTS
  NumSets = 2
  NumTags = 3
  LineWords = 3
  Value <- MCErrorValue
  Zero <- MCZero
  InitialMemory <- MCErrorMemory
  PowerUpTags <- MCPowerUpTags
  PowerUpData <- MCPowerUpData
  Requests <- MCErrorRequests
  BusErrors = TRUE
INVARIANTS
  ControlInv
  ErrorBelongsToRequest
PROPERTIES
  EveryRequestAnswered
