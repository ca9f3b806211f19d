SPECIFICATION Spec
CONSTANTS
  Procs = {3, 4}
  Keys = {1, 2}
  CONSBUFSIZE = 3
  STDIN_BUFSIZE = 2
  MaxBurst = 3
  MaxRead = 2
  MaxKeys = 4
INVARIANT NoReaderForgotten
PROPERTY QueueSpec
CHECK_DEADLOCK FALSE
