CONSTANTS
    Rank = {0, 1}
    Wrapper = {"fsdp2", "ddp", "static_graph"}
    GradAccum = 2
    MaxSteps = 3
    NumEpochs = 2
    ShardSizes = {1, 2, 3, 5}
    SaveInterval = 2
    ResumeAt = {0, 1}
    QueueMax = 2
    ArtifactsEvery = 2
    MaxStep = 4
    TrackerSettings <- MCTrackers
    Unavailable <- MCUnavailable
    SystemEvery = 2
    GpuEvery = 2
    SmoothWindow = 2
    WarmupSteps = 2
    MaxClock = 4
    MaxReports = 4
SPECIFICATION TrainingSpec
INVARIANTS StepsAreWindows StoreTellsAll MeasuresTell
PROPERTIES BothEnd
CHECK_DEADLOCK FALSE
