SPECIFICATION FairSpec
CONSTANTS
  Loop = {l1, l2}
  Pos = {p1, p2}
  NumWorkers = 3
  Height = 2
  OSDHeight = 1
  Torn = Torn
  None = None
INVARIANTS TypeOK PoolBalanced FrameWhole
PROPERTIES RenderReturns
