SPECIFICATION FairSpec
CONSTANTS
    Callers = {c1, c2, c3, c4}
    Keys = {k1, k2}
    Results = {v1, nil}
    Nil = nil
    NoEntry = NoEntry
    NoChan = NoChan
INVARIANTS
    SingleFetch
    IInv
PROPERTIES
    EveryCallReturns
    ImplementsMemo
