SPECIFICATION PageFairSpec
CONSTANTS
    Batches = {b1}
    Streams = {s1}
    MaxCalls = 2
    MaxLogins = 2
    Life = 1
    None = None
CHECK_DEADLOCK FALSE
INVARIANTS
    PageInv
PROPERTIES
    PollingEnds
    PageSettles
    SessionsEnd
