SPECIFICATION Spec
CONSTANTS
    Jobs = {j1}
    N = 2
    MaxTicks = 2
    MaxCrashes = 1
    NoBatch = NoBatch
    Unverifiable = Unverifiable
CHECK_DEADLOCK FALSE
INVARIANTS
    DoneIsOnDisk
