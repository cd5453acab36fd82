CONSTANTS
  Ranks     <- MCRanks
  Leader     = "r0"
  Meta       = "meta"
  Sentinel   = "complete"
  Losses    <- MCLosses
  MaxSteps   = 3
  Keep       = 1
  KeepSteps  = 2
  MaxRuns    = 3
SPECIFICATION FairSpec
INVARIANTS DiskHolds
PROPERTIES SentinelLast ImplementsStore SaveEnds
CHECK_DEADLOCK FALSE
