SPECIFICATION AdmissionSpec
CONSTANTS
    InputPrice = 50
    OutputPrice = 250
    SearchPrice = 50000
    Runs = {r1, r2, r3}
    Cap = 515700
    VoyageFree = 12000
    OpenAlexFree = 75000
    Usages <- MCUsages
    Estimates <- MCEstimates
    MaxCost = 435925
    Horizon = 1000000
SYMMETRY Symmetry
INVARIANTS
    LedgerInv
    VoyageNeverOverbilled
    OvershootBounded
PROPERTIES
    ExactUnlessOvertaken
    FitsCapUnlessOvertaken
