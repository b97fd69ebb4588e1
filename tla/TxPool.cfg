SPECIFICATION Spec

CONSTANTS
    a1 = a1  a1d = a1d  a2 = a2  b1 = b1  z = z  n1 = n1
    A = A  B = B  N = N
    g = g  x1 = x1  x2 = x2  y1 = y1  y2 = y2
    c1 = c1  c2 = c2
    None = None
    Txs = {a1, a1d, a2, b1, z, n1}
    Accounts = {A, B, N}
    From <- MCFrom  Nonce <- MCNonce  Fee <- MCFee
    OldStyle = {a1, a1d, a2, b1, z}
    NewStyle = {a1, a1d, a2, b1, n1}
    MinFee = 1
    MaxAddresses = 2
    MaxTxsPerAddress = 2
    MaxSeen = 3
    SumLimit = 16
    Blocks = {g, x1, x2, y1, y2}
    Genesis = g
    Chain <- MCChain  Work <- MCWork  BlockTxs <- MCBlockTxs
    LastGhostBlock = 1
    Offers <- MCOffers
    Calls = {c1, c2}
    MaxOffers = 2

INVARIANTS
    NoTxTwice
    QueuesAreOrdered
    NoMinedTxStays
    WaitingOnlyUnderLegacyRules

SYMMETRY MCSymmetry
