SPECIFICATION Spec
CONSTANTS
  TimeWrap = 1
  Boots <- MCBoots
  Program <- MCProgram
  MaxCsr = 3
  MaxIrq = 2
  WholeViews = FALSE
  LateMachine = FALSE
  StrayMip = FALSE
  AdjacentMip = FALSE
  SatpRd = FALSE
  WideDelegation = FALSE
  Undelegated = FALSE
INVARIANTS
  SameState
  RetirementsAgree
