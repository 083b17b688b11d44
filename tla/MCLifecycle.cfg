CONSTANTS
    src = src
    mid = mid
    k1 = k1
    k2 = k2
    NodeId <- MCNodeId
    Kind <- MCKind
    Guarded <- MCGuarded
    Script <- MCScript
    Direct <- MCDirect
    Handle = {h1, h2}
    MaxDirect = 1
SPECIFICATION FairSpec
INVARIANTS
    TypeOK
    WiringSound
    GuardsMatch
    RefsClaimed
    NoLeak
PROPERTY CallsReturn
