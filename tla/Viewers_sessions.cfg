SPECIFICATION FairSpec
CONSTANTS
  Sub = {1, 2}
  None = None
  BufSize = 2
  GOP = 2
  Session = {x1, x2}
  Web = {w1}
  Window = 1
  MaxFrame = 3
  MaxClock = 2
INVARIANTS TypeOK FeedFollowsPlaying
PROPERTIES OnlyReplayLeaks SilentWhenNobodyPlays RateLimited WebStepsBackOnce
