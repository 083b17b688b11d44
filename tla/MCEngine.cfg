CONSTANTS
    s1 = s1
    s2 = s2
    mid = mid
    out = out
    a = a
    both = both
    k1 = k1
    k2 = k2
    k3 = k3
    k4 = k4
    NodeId <- MCNodeId
    Kind <- MCKind
    Guarded = {s1}
    Script <- MCScript
    Direct <- MCDirect
    Handle = {h1, h2}
    MaxDirect = 1
    Strategy <- MCStrategy
    MaxSends = 2
SYMMETRY Symmetry
SPECIFICATION SoundSpec
INVARIANTS
    EngineTypeOK
    Coherent
    SinkFresh
    SortComplete
    ExactLifetime
    Connected
    ReportsAgree
PROPERTY NodesComputed
