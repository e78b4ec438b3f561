SPECIFICATION Spec
CONSTANTS
  MaxProc = 2
  MaxCrash = 1
  AUCap = 1
  InCap = 1
  OutCap = 1
  SpawnMayFail = FALSE
  LateStart = TRUE
INVARIANTS StopIsFinal
CHECK_DEADLOCK FALSE
