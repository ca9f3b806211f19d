CONSTANTS
  Procs = {a, b, c}
  Threads = {}
  idleproc = idle
  Sems = {s}
  MAX_VALUE = 1
  MAX_SLEEP = 1
  MAX_TIME_SLICE = 1
SPECIFICATION FairSpec
PROPERTIES DownReturns SleepReturns NoStarvation
