SPECIFICATION CSpec
CONSTANTS
    j1 = j1
    c3 = c3
    q1 = q1
    k1 = k1
    p1 = p1
    c1 = c1
    c2 = c2
    None = None
    Job = {j1}
    Call = {c1, c2, c3}
    Queue = {q1}
    Key = {k1}
    Payload = {p1}
    Request <- CommitRequests
    MaxBatch = 1
    ReserveQueues <- OneList
    MaxReserve = 1
    LeaseMs <- OneLease
    RetryDelayMs <- NoDelay
    RetentionMs = 1
    SweepLimit = 2
    ScanCap = 2
    MaxDrain = 1
    PurgeChunk = 2
    CloseGraceMs = 1
    Time <- CommitTimes
SYMMETRY CommitSymmetry
INVARIANTS
    DiskConsistent
    RepliesDurable
    IdleMeansInSync
