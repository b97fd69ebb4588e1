SPECIFICATION RecordSpec

CONSTANTS
    nobody = nobody
    Nobody = nobody
    Bytes = {0, 1}
    AddressLength = 3
    Exodus <- MCExodus
    Miners <- MCMiners
    Self <- MCSelf
    UncleLists <- MCUncleLists
    MinerReward = 3
    UncleReward <- MCUncleReward
    MaxAmount = 15
    Offers <- MCOffers
    Pools <- MCPools
    MaxBlocks = 3
    MaxCrashes = 1
    Lengths = {1}
    MaxFileSize = 1
    Expansion = 2

INVARIANTS
    RootsFollowLedger
    SupplyIsKept
    NothingIsMissing
    OnlyLateZerosHarm
    OwnBlocksPass
