SPECIFICATION ExecuteSpec
CONSTANTS
  W = 4
  BitAnd <- MCAnd
  BitOr <- MCOr
  BitXor <- MCXor
  MulDiv = TRUE
  FenceRd = {0}
  Words <- MCWords
  Addresses = {0, 4, 12}
  Offsets = {4, 10}
  Memories <- MCMemories
  Stored <- MCStored
  Divisions <- MCDivisions
  Again <- MCAgain
  AbandonAtEnd = FALSE
INVARIANTS
  DecodersAgree
  DisassemblyTells
  OutcomesAgree
  AccessesAgree
  DivisionIsOwn
