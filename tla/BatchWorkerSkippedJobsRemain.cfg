SPECIFICATION Spec
CONSTANTS
    j1 = j1
    j2 = j2
    j3 = j3
    Jobs <- ThreeJobs
    EarlyJobs <- NoJobs
    BatchSize = 2
    MinSize = 2
    Concurrency = 3
INVARIANT SkippedJobsRemain
CHECK_DEADLOCK FALSE
