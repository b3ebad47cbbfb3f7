SPECIFICATION FairSpec
CONSTANTS
    e1 = e1
    t1 = t1
    t2 = t2
    p1 = p1
    s1 = s1
    s2 = s2
    Events <- OneEvent
    Tasks <- TwoTasks
    Procs <- OneProcess
    Sends <- TwoSends
    MaxAttempts = 2
    MaxChanges = 2
    MaxFaults = 1
INVARIANTS TypeOK HeardIsFresh
PROPERTIES DropJustified SubscriberServed
CHECK_DEADLOCK FALSE
