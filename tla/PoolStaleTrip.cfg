SPECIFICATION FairSpec
CONSTANTS
    s1 = s1
    s2 = s2
    s3 = s3
    Slots = {s1, s2}
    Files = {1, 2, 3}
    Chunks <- TwoChunks
    SubBatchSize = 2
    BaseTimeout = 1
    BackoffFactor = 2
    MaxCumulative = 5
    MaxTimeoutRetries = 1
    MaxRespawns = 1
    FailureThreshold = 3
    MidDispatchTerminate = FALSE
CHECK_DEADLOCK FALSE
PROPERTY
    DispatchSettles
