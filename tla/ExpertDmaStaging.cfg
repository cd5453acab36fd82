CONSTANTS
  NumExperts  = 2
  Capacity    = 2
  NumLayers   = 1
  Mixtral     = {}
  TopK        = 2
  Lookahead   = FALSE
  Hooked      = FALSE
  Depth       = 4
  WarmupSlots = 0
  Columns     = FALSE
SPECIFICATION DmaSpec
INVARIANT Lossless
