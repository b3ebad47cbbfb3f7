SPECIFICATION Spec
CONSTANTS
    Program <- Caller
    Legacies <- CallerLegacies
    Nap = 1
    Deadline = 2
    WakeBuffer = 1
    OrphanTtl = 0
    BulkSize = 2
    MaxAttempts = 2
    Removal = TRUE
    MaxFaults = 2
    MaxClock = 3
INVARIANT ReplayStable
INVARIANT NoHole
INVARIANT RedoneOnlyByFault
PROPERTY CompletedStepsStay
PROPERTY SleepKeepsDeadline
CHECK_DEADLOCK FALSE
