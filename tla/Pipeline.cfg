SPECIFICATION Spec
CONSTANTS
  Reg <- MCReg
  Instructions <- MCInstructions
  Numbers = 5
  DivCycles = 4
  LoadBypass = TRUE
  MulBypass = TRUE
  FifoDepth = 2
  LateMaintenance = FALSE
  StrayCsr = FALSE
INVARIANTS
  OperandsCurrent
  PreciseExceptions
  NothingMissed
  NoSquashedAccess
  AnswersBelong
  NothingWaitsInVain
