SPECIFICATION FairSpec
CONSTANTS
    e1 = e1
    e2 = e2
    p1 = p1
    p2 = p2
    w1 = w1
    w2 = w2
    NoSub = NoSub
    Triggers <- Three
    Events <- TwoEvents
    Payloads <- TwoPayloads
    Configs <- Shuffles
    Workers <- TwoWorkers
    MaxRequests = 3
    MaxFaults = 1
INVARIANT TypeOK
INVARIANT SyncDelivers
INVARIANT IndexNotStale
PROPERTY OnlyUnwantedRemoved
PROPERTY EventuallyRegistered
CHECK_DEADLOCK FALSE
