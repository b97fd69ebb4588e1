SPECIFICATION FairSpec
CONSTANTS
    left = left
    right = right
    p1 = p1
    p2 = p2
    p3 = p3
    p4 = p4
    q1 = q1
    q2 = q2
    Ends = {left, right}
    Packets = {p1, p2, p3, p4}
    From <- MCFrom
    Size <- MCSize
    HighWater = 2
    Limit = 3
    Capacity = 2
PROPERTIES KeptLocksAreReleased
CHECK_DEADLOCK FALSE
