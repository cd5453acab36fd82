CONSTANTS
  NumExperts  = 4
  Capacity    = 3
  NumLayers   = 2
  Mixtral     = {2}
  TopK        = 2
  Lookahead   = TRUE
  Hooked      = TRUE
  Depth       = 1
  WarmupSlots = 1
SPECIFICATION Spec
INVARIANTS TypeOK TablesConsistent RoutedResident LoopKeepsItsLoads
PROPERTY ImplementsLru
