SPECIFICATION PageSpec
CONSTANTS
    Batches = {b1, b2}
    Streams = {}
    MaxCalls = 2
    MaxLogins = 1
    Life = 1
    None = None
CHECK_DEADLOCK FALSE
INVARIANTS
    PolledUntilSettled
