CONSTANTS
    Calls = {r1, r2, r3, r4}
    MinId = 1
    MaxId = 4
    Parallel = 1
    MaxQueue = 0
    None = None
SPECIFICATION Spec
CHECK_DEADLOCK FALSE
INVARIANTS
    ReplyAnswersItsRequest
    ReplyMapIsExact
PROPERTIES
    EveryRequestEnds
