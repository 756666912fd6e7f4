\* Two sequential workers: one call and one job at a time each.
CONSTANTS
    Workers = {w1, w2}
    NoWorker = NoWorker
    Jobs = {j1}
    Owners = {o1}
    OwnerOf <- MCOwnerOf
    ProgressValues = {100}
    LeaseDuration = 2
    RetryDelay = 0
    RecoveryBatch = 1
    Retention = 4
    MaxAttempts = 2
    Sequential = TRUE
    MaxClock = 3
    MaxInFlight = 2
    MaxVersion = 5
    LastWorkerCall = 3
SYMMETRY WorkerSymmetry
SPECIFICATION Spec
INVARIANTS
    ExclusiveLease
PROPERTIES
    AttemptFenced
CHECK_DEADLOCK FALSE
