CONSTANTS
    src = src
    mid = mid
    k1 = k1
    k2 = k2
    NodeId <- MCNodeId
    Kind <- MCKind
    Guarded <- MCGuarded
    Script <- MCTrades
    Direct = {}
    Handle = {h1, h2}
    MaxDirect = 0
SPECIFICATION Spec
INVARIANT SharedStayAlive
