SPECIFICATION FairSpec
CONSTANTS
    a = a
    b = b
    d = d
    g = g
    h = h
    NoTask = NoTask
    Stranger = Stranger
    Groups <- TwoGroups
    Tasks <- AllTasks
    GroupOf <- Grouping
    Asks <- AAsksB
    Batched <- WithBatch
    MinSize = 2
    Filters <- SomeFilters
    Calls <- ThreeCalls
    MaxFaults = 1
INVARIANTS TypeOK NoStrayWorker
PROPERTIES ShutdownStops TargetedStopSpares StartServes 
CHECK_DEADLOCK FALSE
