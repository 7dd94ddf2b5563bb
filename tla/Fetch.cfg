SPECIFICATION FetchFairSpec
CONSTANTS
  NumPcs = 3
  Priv <- MCPriv
  BootPc = 0
  ResetPriv = "machine"
INVARIANTS
  InOrder
  AnswersTracked
PROPERTIES
  Delivers
