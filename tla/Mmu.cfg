SPECIFICATION Spec
CONSTANTS
  Pages <- MCPages
  Root = 0
  FirstTables <- MCTables
  Updates <- MCUpdates
  Fetches <- MCFetches
  Modes <- MCModes
  NoMemory = {}
  BusErrors = TRUE
  FlushInWalk = FALSE
INVARIANTS
  TranslationsLegal
  AnswersBelong
  MissesResolved
