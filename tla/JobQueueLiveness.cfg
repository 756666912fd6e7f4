\* Workers that send heartbeats for ever for a job asked to stop and are silent
\* otherwise, owners free to do anything, recovery that keeps running.
CONSTANTS
    Workers = {w1}
    NoWorker = NoWorker
    Jobs = {j1, j2}
    Owners = {o1}
    OwnerOf <- MCOwnerOf
    ProgressValues = {100}
    LeaseDuration = 2
    RetryDelay = 0
    RecoveryBatch = 1
    Retention = 3
    MaxAttempts = 2
    Sequential = FALSE
    MaxClock = 2
    MaxInFlight = 1
    MaxVersion = 3
    LastWorkerCall = 0
SPECIFICATION FairSpec
PROPERTIES
    StopEventuallyCancels
    NoJobStuckActive
CHECK_DEADLOCK FALSE
