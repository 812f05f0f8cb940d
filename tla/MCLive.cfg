SPECIFICATION LiveSpec
CONSTANTS
    j1 = j1
    j2 = j2
    q1 = q1
    k1 = k1
    p1 = p1
    None = None
    Job = {j1, j2}
    Queue = {q1}
    Key = {k1}
    Payload = {p1}
    Request <- LiveRequests
    MaxBatch = 1
    ReserveQueues <- OneQueueList
    MaxReserve = 1
    LeaseMs <- One
    RetryDelayMs <- One
    RetentionMs = 1
    SweepLimit = 1
    ScanCap = 2
    MaxDrain = 1
    PurgeChunk = 1
    CloseGraceMs = 1
    Time <- LiveTime
    LastCall = 1
    Horizon = 2
CHECK_DEADLOCK FALSE
PROPERTIES
    JobsMoveOn
    RowsExpire
