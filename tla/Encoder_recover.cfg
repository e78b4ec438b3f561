SPECIFICATION FairSpec
CONSTANTS
  MaxProc = 2
  MaxCrash = 1
  AUCap = 1
  InCap = 1
  OutCap = 1
  SpawnMayFail = FALSE
  LateStart = FALSE
PROPERTIES CrashRecovers
CHECK_DEADLOCK FALSE
