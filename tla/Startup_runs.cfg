SPECIFICATION FairSpec
CONSTANTS
  Conn = {c1, c2}
  QueueCap = 1
  None = None
  Output <- MCOutput
  MaxRuns = 2
  MaxDeaths = 1
  Absent = Absent
  Torn = Torn
INVARIANTS TypeOK CapturedWhole OneIdentity
PROPERTIES ComesUp HandedOver
CHECK_DEADLOCK FALSE
