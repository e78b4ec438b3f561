SPECIFICATION Spec
CONSTANTS
  Sub = {s1, s2, s3}
  None = None
  BufSize = 1
  GOP = 1
  AUCap = 1
  Lag = 1
  MaxFrame = 2
  MayFail = TRUE
  EarlyViewer = TRUE
SYMMETRY SubSymmetry
INVARIANTS TypeOK IdleStops OneEncoder KeyframeNotBehind
