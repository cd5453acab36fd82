CONSTANTS
    Expert = {1, 2, 3, 4}
    Capacity = 2
    PrefetchTopK = 3
    Calibrated = {1, 2, 3}
    Indexed = {1, 2}
    Movement = {"whole", "columns", "ans", "hot"}
    Pinning = {FALSE}
    MaxForwards = 2
    Batch = {1, 2}
    PromptLength = 3
    Token = {"a", "b"}
    Eos = "b"
    MaxNew = 3
    Teacher <- MCTeacher
    ChunkSize = {0, 2}
    ProbeAt = {1, 2}
    ProbeK = 2
    LastLayer = 3
    Border = 2
    Computed = {1, 2, 3}
    Thread = {"main", "pool"}
    ViewCap = 1
    MaxFetches = 5
    DirExperts = {1, 2}
    DirColumns = {1, 2, 3}
    SlotsPerExpert = 2
    Preset <- MCPreset
    NumColExperts = 2
    TopCols = 3
    MaxCommits = 3
    MaxPredictions = 1
    Tensor = {"a", "b", "c"}
    LocalTensor = {"a", "d"}
    Hashed = {"a", "b"}
    ShardOf <- MCShardOf
    Size <- MCSize
    Cap = 5
    MaxCalls = 4
    Layer = {1, 2}
    Index = {1, 2}
    HotTopK = 1
    MaxRequests = 3
SPECIFICATION ServingSpec
INVARIANTS TablesBounded DecodeExact EveryRowServed WholeAnswers StrandedOnlyByFailures
PROPERTIES MissLeavesCap
CHECK_DEADLOCK FALSE
