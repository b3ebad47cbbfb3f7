SPECIFICATION FairSpec
CONSTANTS
    Program <- Joiner
    Legacies <- NoLegacies
    Nap = 1
    Deadline = 2
    WakeBuffer = 4
    OrphanTtl = 0
    BulkSize = 2
    MaxAttempts = 2
    Removal = FALSE
    MaxFaults = 2
    MaxClock = 3
PROPERTY ImplementsDurable
PROPERTY AlwaysSettles
CHECK_DEADLOCK FALSE
