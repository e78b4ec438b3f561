SPECIFICATION FairSpec
CONSTANTS
  Sub = {s1, s2}
  None = None
  BufSize = 2
  GOP = 2
  AUCap = 1
  Lag = 1
  MaxFrame = 2
  MayFail = TRUE
  EarlyViewer = TRUE
INVARIANTS InOrder
PROPERTIES IdleEventuallyStops StoppedDrains SlowViewerNeverBlocks
