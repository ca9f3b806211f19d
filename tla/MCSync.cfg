CONSTANTS
  Procs = {a, b, c}
  Threads = {a}
  idleproc = idle
  Sems = {s, t}
  MAX_VALUE = 1
  MAX_SLEEP = 2
  MAX_TIME_SLICE = 2
SPECIFICATION Spec
SYMMETRY Symmetry
INVARIANTS RunQueueOK AssertsHold WaitQueuesOK UnitsConserved TimersOK
PROPERTY AlarmSpec
