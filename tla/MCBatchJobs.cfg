SPECIFICATION FairSpec
CONSTANTS
    Jobs = {j1, j2}
    N = 2
    MaxTicks = 2
    MaxCrashes = 1
    NoBatch = NoBatch
    Unverifiable = Unverifiable
CHECK_DEADLOCK FALSE
INVARIANTS
    BatchInv
    DoneIsInHistory
    VerdictsMatchClaims
PROPERTIES
    ImplementsJobStatus
