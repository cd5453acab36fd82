CONSTANTS
  NumExperts   = 3
  NumLayers    = 2
  TopK         = 1
  MaxCapacity  = 2
  CpuCacheCap  = 2
  Rows         = {1, 2}
  PromptLen    = 3
  PrefillChunk = 2
  MaxNewTokens = 3
SPECIFICATION FairServeSpec
INVARIANTS TiersConsistent FittingStaysResident FittingRunsOwnWeights WeightsArrived RowsKeepStep
PROPERTIES ServeEnds
CHECK_DEADLOCK FALSE
