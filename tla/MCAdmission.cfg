SPECIFICATION ASpec
CONSTANTS
    q1 = q1
    q2 = q2
    None = None
    Queue = {q1, q2}
    UMax = 15
    Registry <- Registries
    Attempt = {0, 1, 2, 3, 4, 6}
    Duration = {0, 1, 3, 7, 15}
    Setting <- Settings
    Measured = {"max_payload", "horizon"}
    Jobs <- Batches
INVARIANTS
    AnswersMatchJobs
    LeaseWithinCeiling
    RetryDelayOfPolicy
