SPECIFICATION Spec
CONSTANTS
    Bodies <- MCBodies
    Start <- MCStart
    PrefixLength = 4
    WordLength = 4
    MaxPacketSize = 3
INVARIANTS PacketsAreIntact NothingIsHeldBack ClosedForAReason
CHECK_DEADLOCK FALSE
