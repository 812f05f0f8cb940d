SPECIFICATION FairSpec
CONSTANTS
    w1 = w1
    w2 = w2
    q1 = q1
    n1 = n1
    n2 = n2
    None = None
    Worker = {w1, w2}
    Queue = {q1}
    Notify = {n1, n2}
    QueuesOf <- SameList
    PruneThreshold = 1
    MaxReady = 1
INVARIANTS
    HeldIsMapped
    NoLostWakeup
PROPERTIES
    ParkedAreServed
    ShutdownDrains
