CONSTANTS
  Ranks     <- MCRanks
  Leader     = "r0"
  Meta       = "meta"
  Sentinel   = "complete"
  Losses    <- MCLosses
  MaxSteps   = 2
  Keep       = 2
  KeepSteps  = 3
  MaxRuns    = 2
SPECIFICATION Spec
PROPERTY ResumesAtLatest
CHECK_DEADLOCK FALSE
