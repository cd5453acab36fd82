CONSTANTS
  Window       = 2
  MaxSeqLen    = 4
  Extra        = 1
  BatchSize    = 2
  Rows        <- MCRows
  Words       <- MCWords
  PromptLen    = 1
  DraftLen     = 2
  MaxNewTokens = 3
  NumLayers    = 2
  Batches     <- MCBatches
  Lengths     <- MCLengths
  Engines       <- MCEngines
  EngineConfigs <- MCEngineConfigs
  Installations <- MCInstallations
  ModelLayers   <- MCModelLayers
  Protected     = 1
  MaxSteps      = 2
  Vocabulary    <- MCVocabulary
  MaxTokens     = 4
SPECIFICATION MCEngineSpec
INVARIANT TargetReadsOutput
