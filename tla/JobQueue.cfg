\* One job, two workers with several statements in flight.
CONSTANTS
    Workers = {w1, w2}
    NoWorker = NoWorker
    Jobs = {j1}
    Owners = {o1}
    OwnerOf <- MCOwnerOf
    ProgressValues = {0, 100}
    LeaseDuration = 1
    RetryDelay = 0
    RecoveryBatch = 1
    Retention = 2
    MaxAttempts = 2
    Sequential = FALSE
    MaxClock = 2
    MaxInFlight = 2
    MaxVersion = 5
    LastWorkerCall = 2
SYMMETRY WorkerSymmetry
SPECIFICATION Spec
INVARIANTS
    TypeOK
    LeasesConsistent
    AttemptsBounded
    StopHonoured
    OutcomeRecorded
    RowsAccepted
PROPERTIES
    ProgressMonotonic
    VersionIdentifiesRow
    ImplementsLifecycle
CHECK_DEADLOCK FALSE
