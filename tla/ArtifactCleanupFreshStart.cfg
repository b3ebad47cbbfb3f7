SPECIFICATION Spec
CONSTANTS
    parent = parent
    child = child
    alone = alone
    NoJob = NoJob
    Jobs <- Single
    Parent <- SingleTree
    Large <- Single
    Legacy <- NoJobs
    Stepping <- Single
    Window = 1
    MaxAdds <- SingleAdds
    MaxFaults = 0
INVARIANT FreshStart
CHECK_DEADLOCK FALSE
