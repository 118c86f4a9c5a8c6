SPECIFICATION Spec
CONSTANTS
    c1 = c1
    c2 = c2
    shared = shared
    own = own
    paper = paper
    query = query
    x = x
    y = y
    Claims = {c1, c2}
    Titles = {shared, own}
    Wanted <- MCWanted
    Papers = {paper}
    Keys = {query}
    Asked <- MCAsked
    MaxBody = 2
    MinBody = 2
    ClaimTerms <- MCClaimTerms
    Terms <- MCTerms
    Similarity <- MCSimilarity
    TopK = 1
    NoEntry = NoEntry
CHECK_DEADLOCK FALSE
INVARIANTS
    BetterIsAlwaysRetrieved
