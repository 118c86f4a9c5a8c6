SPECIFICATION FairSplit
CONSTANTS
    Lengths = {0, 1, 2, 3, 4, 5, 6, 7, 8, 9, 10}
    Size = 4
    Overlap = 2
CHECK_DEADLOCK FALSE
INVARIANTS
    FactsAreKept
    IInv
PROPERTIES
    Returns
