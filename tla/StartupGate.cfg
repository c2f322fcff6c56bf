SPECIFICATION FairSpec
CONSTANTS
    Slots = {s1, s2, s3}
    Signatures = {binding, timeout}
    NoSignature = none
    RestartBudget = 2
    SlotThreshold = 2
    binding = binding
    timeout = timeout
    none = none
    s1 = s1
    s2 = s2
    s3 = s3
CHECK_DEADLOCK FALSE
INVARIANTS
    TypeOK
    GateLeavesWorkers
    NoWorkerAfterTerminate
PROPERTY
    GateSettles
