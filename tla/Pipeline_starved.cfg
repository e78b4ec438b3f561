SPECIFICATION Spec
CONSTANTS
  Sub = {s1, s2}
  None = None
  BufSize = 1
  GOP = 2
  AUCap = 1
  Lag = 1
  MaxFrame = 1
  MayFail = FALSE
  EarlyViewer = FALSE
INVARIANTS ViewersServed
