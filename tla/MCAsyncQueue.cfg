CONSTANTS
    p = p
    g1 = g1
    g2 = g2
    g3 = g3
    w = w
    d = d
    r = r
    Node = {p, g1, r}
    Builds <- MCBuilds
    Capacity = {0, 1, 2}
    Panics = {p}
    MaxGroups = 1
    MaxTriggers = 3
SPECIFICATION FairSpec
INVARIANTS
    QueueInOrder
    QueueGroupLimit
PROPERTY QueueDelivers
CHECK_DEADLOCK FALSE
