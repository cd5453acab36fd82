CONSTANTS
  NumExperts  = 3
  Capacity    = 2
  NumLayers   = 2
  Mixtral     = {2}
  TopK        = 2
  Lookahead   = TRUE
  Hooked      = FALSE
  Depth       = 4
  WarmupSlots = 1
  Columns     = TRUE
SPECIFICATION DmaFairSpec
INVARIANTS TransfersLossless
PROPERTY PassesEnd
