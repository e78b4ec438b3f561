SPECIFICATION FairSpec
CONSTANTS
  Sub = {s1}
  Request = {r1, r2}
  None = None
  MaxEvents = 2
  Limits = {1, 2}
  Lifetimes = {0}
  Renewal = 1
  MaxEvent = 3
  MaxClock = 1
INVARIANTS TypeOK NothingTwice NoLostWakeup
PROPERTIES CleanupSparesLive Progress ImplementsFeed
