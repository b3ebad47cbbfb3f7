SPECIFICATION FairSpec
CONSTANTS
    j1 = j1
    j2 = j2
    j3 = j3
    Jobs <- ThreeJobs
    EarlyJobs <- TwoJobs
    BatchSize = 3
    MinSize = 2
    Concurrency = 3
INVARIANTS
    TypeOK
    OneBatchAtATime
    JobsRunOnce
    CompletedMeansHandled
PROPERTIES
    NoWorkAfterOutcome
    PendingBatchRuns
    RunningBatchAnswers
CHECK_DEADLOCK FALSE
