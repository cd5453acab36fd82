SPECIFICATION MCSetupSpec
CONSTANTS
  Jobs <- MCJobs
  PeftDefaults <- MCPeftDefaults
  Files <- MCFiles
  CommandLines <- MCCommandLines
  Clusters <- MCClusters
  Sources <- MCSources
  Batches <- MCBatches
  Tokenizers <- MCTokenizers
  Scale <- MCScale
  Asked <- MCAsked
  Commands <- MCCommands
  Yamls <- MCYamls
  Machines <- MCMachines
  Models <- MCModels
  Process = {"p1", "p2"}
  Setting <- MCSetting
  Part = {"x", "y"}
  MayOverwrite = {TRUE, FALSE}
  MaxRuns = 3
  Node = {"n1", "n2"}
  Shell = {"s1", "s2"}
  Port = {1}
  MaxCommands = 4
INVARIANTS PreparedModel LaunchedAsConfigured RowsAreTheText RouterLossIsSound InferenceAsDecided FilesTellTruth
CHECK_DEADLOCK FALSE
