SPECIFICATION PortFairSpec
CONSTANTS
  ReqTag <- MCReqTag
  FifoDepth = 2
  MaxEvicts = 2
INVARIANTS
  AnswersTold
  PathsApart
PROPERTIES
  EveryRequestAnswered
