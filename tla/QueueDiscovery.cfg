SPECIFICATION Spec
CONSTANTS
    q1 = q1
    q2 = q2
    Queues <- TwoQueues
    Calls <- TwoCalls
    MaxStarts = 3
    MaxChanges = 2
    MaxFaults = 1
SYMMETRY QueueSymmetry
INVARIANTS ActiveListens KnownCurrent
PROPERTY SilentAfterStop
CHECK_DEADLOCK FALSE
