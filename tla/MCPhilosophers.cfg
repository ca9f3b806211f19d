CONSTANTS
  N = 4
  TIMES = 2
  SLEEP_TIME = 1
  Users = {u}
  mutex = mutex
  Procs = {0, 1, 2, 3, u}
  Sems = {0, 1, 2, 3, mutex}
  idleproc = idle
  MAX_TIME_SLICE = 1
SPECIFICATION Spec
INVARIANTS NeighboursApart ForksGranted NoForgottenPhilosopher
PROPERTIES DinnerEnds
