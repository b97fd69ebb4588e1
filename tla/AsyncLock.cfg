CONSTANTS
    Calls = {c1, c2, c3, c4}
    Parallel = 2
    MaxQueue = 2
SPECIFICATION FairLockSpec
CHECK_DEADLOCK FALSE
INVARIANTS
    MutualExclusion
    NoPermitIsLost
PROPERTIES
    EveryWaiterGetsIn
