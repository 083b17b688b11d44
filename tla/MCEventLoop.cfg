CONSTANTS
    c1 = c1
    c2 = c2
    Client = {c1, c2}
    MaxValues = 2
    MaxTasks = 1
SPECIFICATION FairSpec
INVARIANTS
    TypeOK
    NoLostWakeup
    OriginOrder
    HandleMatchesRegistry
PROPERTIES
    SendsApplied
    MergeReturns
CHECK_DEADLOCK FALSE
