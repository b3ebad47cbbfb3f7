SPECIFICATION Spec
CONSTANTS
    a = a
    b = b
    d = d
    g = g
    h = h
    NoTask = NoTask
    Stranger = Stranger
    Groups <- TwoGroups
    Tasks <- AllTasks
    GroupOf <- Grouping
    Asks <- AAsksB
    Batched <- WithBatch
    MinSize = 2
    Filters <- SomeFilters
    Calls <- TwoCalls
    MaxFaults = 0
PROPERTIES ShutdownIsComplete
CHECK_DEADLOCK FALSE
