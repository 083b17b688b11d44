CONSTANTS
    p = p
    g1 = g1
    g2 = g2
    g3 = g3
    w = w
    d = d
    r = r
    Node = {w, d, g1}
    Builds <- MCBuilds
    Capacity = {0, 1, 2}
    Panics = {}
    MaxGroups = 1
    MaxTriggers = 2
SPECIFICATION FairSpec
INVARIANTS
    TypeOK
    WorkConserving
    NoSlotLeak
PROPERTIES
    LatestDelivers
    WorkSpec
CHECK_DEADLOCK FALSE
