SPECIFICATION FairSpec
CONSTANTS
    Claims = {c1, c2, c3}
    Tokens = {1, 2}
    ExtractTok = 1
INVARIANTS
    RunInv
    BilledInFull
    SendersNeverBlock
    EveryClaimReported
PROPERTIES
    RunEnds
