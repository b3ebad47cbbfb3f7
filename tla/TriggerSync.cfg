SPECIFICATION FairSpec
CONSTANTS
    nightly = nightly
    hourly = hourly
    daily = daily
    fast = fast
    paid = paid
    o1 = o1
    o2 = o2
    NoTrigger = NoTrigger
    NoScheduler = NoScheduler
    Undefined = Undefined
    Procs <- TwoProcs
    Calls <- TwoCalls
    Ids <- TwoIds
    Slugs <- TwoSlugs
    Repeats <- TwoRepeats
    Events <- OneEvent
    Lists <- TwoLists
    Options <- TwoOptions
    Deployed <- Releases
    Updates <- Changes
    MaxCalls = 3
    MaxFaults = 1
INVARIANT SyncBetween
PROPERTY CallAchieves
PROPERTY DeploymentTakesEffect
CHECK_DEADLOCK FALSE
