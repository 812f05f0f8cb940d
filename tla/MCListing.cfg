SPECIFICATION Spec
CONSTANTS
    Job <- Jobs
    Time = {0, 1}
    State = {"ready", "scheduled", "inflight", "dead_letter"}
    Limit = {0, 2}
    LimitMax = 2
    ExamineCap = 2
    MaxMoves = 2
    None = None
INVARIANTS
    SettledShownOnce
    ListedInOrder
PROPERTIES
    ShownIsCommitted
