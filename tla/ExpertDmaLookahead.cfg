CONSTANTS
  NumExperts  = 3
  Capacity    = 2
  NumLayers   = 2
  Mixtral     = {1, 2}
  TopK        = 2
  Lookahead   = TRUE
  Hooked      = TRUE
  Depth       = 4
  WarmupSlots = 0
  Columns     = FALSE
SPECIFICATION DmaSpec
INVARIANTS ArrivedBeforeUse EventsCoverTransfers
