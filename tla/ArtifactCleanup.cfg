SPECIFICATION FairSpec
CONSTANTS
    parent = parent
    child = child
    alone = alone
    NoJob = NoJob
    Jobs <- Family
    Parent <- FamilyTree
    Large <- FamilyLarge
    Legacy <- FamilyLarge
    Stepping <- FamilyLarge
    Window = 1
    MaxAdds <- FamilyAdds
    MaxFaults = 1
INVARIANTS RefsResolve IndexCoversBlobs
PROPERTIES ResultKept SweepSpares Reclaimed
CHECK_DEADLOCK FALSE
