CONSTANTS
  Pids = {p2, p3, p4}
  idleproc = idle
  initproc = init
  NULL = NULL
  MAX_PROCESS = 5
  Watched = {p2}
SPECIFICATION FairSpec
INVARIANTS LinksOK ProcListOK NoLostWakeup WaitStateOK AssertsHold ResourcesOK
PROPERTIES ReapedByParent KilledEnds InitReaps NoStarvation
CHECK_DEADLOCK FALSE
