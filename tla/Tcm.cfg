SPECIFICATION Spec
CONSTANTS
  Words = 2
  Values = {0, 1}
  Commands <- MCCommands
  CpuRequests <- MCCpuRequests
  Depth = 2
  ZeroStrobes = FALSE
INVARIANTS
  BeatsServed
  AnswersMatch
  NothingWaitsInVain
