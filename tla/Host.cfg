SPECIFICATION HostSpec
CONSTANTS
  TimeWrap = 1
  Space = 128
  MaxRegions = 3
  BenchRegions = 3
  BenchLine = 8
  Code <- MCCode
  Files <- MCFiles
  Options <- MCOptions
  Attachments <- MCAttachments
  MaxSteps = 6
  SharedWords = FALSE
  CrossingSections = FALSE
  StopAtZero = FALSE
INVARIANTS
  MemoryIsProgram
  StopsWhenTold
  DivergenceReported
CHECK_DEADLOCK FALSE
