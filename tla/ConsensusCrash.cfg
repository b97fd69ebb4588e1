CONSTANTS
    g = g
    a1 = a1
    a2 = a2
    a3 = a3
    b1 = b1
    b2 = b2
    b3 = b3
    c2 = c2
    x1 = x1
    x2 = x2
    None = None
    Hashes = {g, a1, a2, a3, b1, b2, b3, x1}
    Genesis = g
    Prev <- MCPrev
    Uncles <- MCUncles
    Height <- MCHeight
    Chain <- MCChain
    Work <- MCWork
    UncleWork <- MCUncleWork
    ChainWork <- MCChainWork
    HeaderValid = {a1, a2, a3, b1, b2, b3}
    DifficultyValid = {a1, a2, a3, b1, b2, b3}
    TxsValid = {a1, a2, a3, b1, b2, b3}
    NoTxs = {}
    LastGhostBlock = 1
    MaxUncleHeightDelta = 2
    RecentHeaderTrackingRange = 0
SPECIFICATION Spec
INVARIANTS
    TypeOK
    MainChainIsTipChain
    UncleFlagsFollowMainChain
    HeightIndexFollowsMainChain
PROPERTIES
    VerdictsAreFinal
    ImplementsForkChoice
