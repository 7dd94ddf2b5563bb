SPECIFICATION FairSpec
CONSTANTS
  Payload = {0, 1}
  Lengths <- MCLengths
  FifoDepth = 2
INVARIANTS
  NothingLost
PROPERTIES
  HeldUntilTaken
  EveryBurstAnswered
