SPECIFICATION PageFairSpec
CONSTANTS
    Batches = {b1}
    Streams = {s1}
    MaxCalls = 3
    MaxLogins = 1
    Life = 1
    None = None
CHECK_DEADLOCK FALSE
INVARIANTS
    PageInv
PROPERTIES
    PollingEnds
    PageSettles
    SessionsEnd
