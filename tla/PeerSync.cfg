SPECIFICATION FairSpec

CONSTANTS
    g = g  m1 = m1  m2 = m2  m3 = m3  m4 = m4  f2 = f2  f3 = f3  f4 = f4  i2 = i2  i3 = i3  i4 = i4
    p1 = p1  p2 = p2
    None = None
    Headers = {g, m1, m2, m3, m4, f2, f3, f4, i2, i3, i4}
    Genesis = g
    Parent <- MCParent  Height <- MCHeight  Work <- MCWork  Uncles <- MCUncles
    Ancestors <- MCAncestors  MaxHeight = 4
    Peers = {p1, p2}
    Invalid = {i2}
    LocalTips = {m2, m3}
    RemoteTips = {f4, i4}
    MaxHeaders = 1
    MaxTxBlocks = 1
    MaxUncles = 3
    MaxUncleHeightDelta = 2
    MaxMoves = 2
    MaxFails = 1

PROPERTIES
    CommonIsHighest
    DownloadIsComplete
    
    

CHECK_DEADLOCK FALSE
