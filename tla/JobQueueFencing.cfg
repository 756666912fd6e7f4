\* A worker identity with two goroutines on one job.
CONSTANTS
    Workers = {w1}
    NoWorker = NoWorker
    Jobs = {j1}
    Owners = {o1}
    OwnerOf <- MCOwnerOf
    ProgressValues = {0, 100}
    LeaseDuration = 1
    RetryDelay = 0
    RecoveryBatch = 1
    Retention = 3
    MaxAttempts = 2
    Sequential = FALSE
    MaxClock = 2
    MaxInFlight = 2
    MaxVersion = 5
    LastWorkerCall = 2
SYMMETRY WorkerSymmetry
SPECIFICATION Spec
PROPERTIES
    AttemptFenced
CHECK_DEADLOCK FALSE
