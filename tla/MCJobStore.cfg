SPECIFICATION Spec
CONSTANTS
    j1 = j1
    j2 = j2
    q1 = q1
    k1 = k1
    p1 = p1
    None = None
    Job = {j1, j2}
    Queue = {q1}
    Key = {k1}
    Payload = {p1}
    Request <- MixedRequests
    MaxBatch = 2
    ReserveQueues <- OneList
    MaxReserve = 2
    LeaseMs <- OneLease
    RetryDelayMs <- Delays
    RetentionMs = 1
    SweepLimit = 1
    ScanCap = 2
    MaxDrain = 1
    PurgeChunk = 1
    CloseGraceMs = 1
    Time <- Times
SYMMETRY JobSymmetry
INVARIANTS
    NoJobStranded
    NoJobDuplicated
    CopiesAgree
    TimersExact
    DeadOrLive
    IndexesMirror
    RequestKept
PROPERTIES
    DedupWindowFixed
    ImplementsLifecycle
