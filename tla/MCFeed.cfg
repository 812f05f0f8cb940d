SPECIFICATION FeedSpec
CONSTANTS
    q1 = q1
    q2 = q2
    t1 = t1
    t2 = t2
    t3 = t3
    QueueName = {q1}
    Declared = {}
    Counter = {"enqueued", "dead_lettered"}
    IdleEvict = 1
    HistoryCap = {1, 2}
    MaxBatch = 3
    Workload <- Loads
    Task = {t1, t2, t3}
    Shown = {t1, t2}
    HubCap = 1
    PageSize = 1
    ScanCap = 1
SYMMETRY TaskSymmetry
INVARIANTS
    TotalsExact
    ChartsHonest
    TrailGapless
    PageHasNoHoles
    FrameOnItsWay
