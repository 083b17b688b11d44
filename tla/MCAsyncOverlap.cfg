CONSTANTS
    p = p
    g1 = g1
    g2 = g2
    g3 = g3
    w = w
    d = d
    r = r
    Node = {g1, g2, g3}
    Builds <- MCBuilds
    Capacity = {2}
    Panics = {}
    MaxGroups = 1
    MaxTriggers = 2
SPECIFICATION Spec
INVARIANT QueueSequential
CHECK_DEADLOCK FALSE
