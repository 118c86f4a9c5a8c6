SPECIFICATION PageSpec
CONSTANTS
    Batches = {b1, b2}
    Streams = {s1}
    MaxCalls = 2
    MaxLogins = 1
    Life = 1
    None = None
CHECK_DEADLOCK FALSE
INVARIANTS
    OneInterval
PROPERTIES
    CountedOnce
