SPECIFICATION Spec
CONSTANTS
  Procs = {1, 2}
  NPages = 14
  NFrames = 4
  NPTEENTRY = 2
  NPDEENTRY = 2
  NPD = 1
  Programs <- SmallPrograms
  StackArea <- SmallStack
  StackPages = 1
  Builds = {FALSE, TRUE}
  MaxRef = 2
INVARIANT RefsRight
PROPERTY MemorySpec
CHECK_DEADLOCK FALSE
