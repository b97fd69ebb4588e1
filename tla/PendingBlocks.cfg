SPECIFICATION FairSpec
CONSTANTS
    g = g
    p1 = p1
    p2 = p2
    p3 = p3
    q1 = q1
    n2 = n2
    i2 = i2
    r2 = r2
    Genesis = g
    Hashes = {p1, p2, p3, q1, n2, i2, r2}
    Prev <- MCPrev
    Uncles <- MCUncles
    NoTxs = {}
    HeaderValid <- MCHeaderValid
    BlockValid <- MCBlockValid
    MaxPending = 5
    MaxDeliveries = 1
INVARIANTS PendingBlocksAreKept
PROPERTIES WaitsAreOver
