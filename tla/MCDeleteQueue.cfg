SPECIFICATION DSpec
CONSTANTS
    j1 = j1
    j2 = j2
    q1 = q1
    q2 = q2
    k1 = k1
    p1 = p1
    None = None
    Job = {j1, j2}
    Queue = {q1, q2}
    Key = {k1}
    Payload = {p1}
    Request <- TwoQueues
    MaxBatch = 2
    ReserveQueues <- BothQueues
    MaxReserve = 1
    LeaseMs <- OneLease
    RetryDelayMs <- OneLease
    RetentionMs = 1
    SweepLimit = 1
    ScanCap = 2
    MaxDrain = 1
    PurgeChunk = 1
    CloseGraceMs = 1
    Time <- Times
    Doomed = {q1}
SYMMETRY JobSymmetry
INVARIANT TombstoneLifted
PROPERTIES
    CapKept
    PurgeStaysInQueue
    NoSilentPurge
    DeletedIsEmpty
