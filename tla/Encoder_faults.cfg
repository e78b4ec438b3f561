SPECIFICATION FairSpec
CONSTANTS
  MaxProc = 2
  MaxCrash = 1
  AUCap = 1
  InCap = 1
  OutCap = 1
  SpawnMayFail = TRUE
  LateStart = FALSE
INVARIANTS TypeOK OneWatchedProcess NoPanic
PROPERTIES RestartsAfterCrash StopReleases
CHECK_DEADLOCK FALSE
