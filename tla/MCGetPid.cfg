CONSTANTS
  MAX_PID = 7
  MAX_PROCESS = 6
SPECIFICATION PidSpec
INVARIANT PidsUnique
PROPERTIES GetPidReturns PidSetSpec
