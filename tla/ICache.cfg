SPECIFICATION FairSpec
CONSTANTS
  NumSets = 2
  NumTags = 2
  LineWords = 2
  Requests <- MCRequests
  Stored <- MCStored
  MaxVersion = 1
  Failing <- MCFailing
  Junk <- MCJunk
INVARIANTS
  FreshInstructions
  RefillsConsistent
PROPERTIES
  EveryLookupAnswered
