SPECIFICATION FSpec
CONSTANTS
    j1 = j1
    q1 = q1
    k1 = k1
    p1 = p1
    None = None
    Job = {j1}
    Queue = {q1}
    Key = {k1}
    Payload = {p1}
    Request <- FencingRequests
    MaxBatch = 1
    ReserveQueues <- OneQueueList
    MaxReserve = 1
    LeaseMs <- OneLease
    RetryDelayMs <- SomeDelays
    RetentionMs = 2
    SweepLimit = 1
    ScanCap = 1
    MaxDrain = 1
    PurgeChunk = 1
    CloseGraceMs = 1
    Time <- FencingTime
    MaxRequeues = 2
INVARIANTS
    FencedBetweenRequeues
