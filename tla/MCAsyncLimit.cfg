CONSTANTS
    p = p
    g1 = g1
    g2 = g2
    g3 = g3
    w = w
    d = d
    r = r
    Node = {w, g1}
    Builds <- MCBuilds
    Capacity = {1}
    Panics = {}
    MaxGroups = 1
    MaxTriggers = 3
SPECIFICATION Spec
INVARIANT GroupLimit
CHECK_DEADLOCK FALSE
