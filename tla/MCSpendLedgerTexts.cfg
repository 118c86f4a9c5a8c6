SPECIFICATION AdmissionSpec
CONSTANTS
    InputPrice = 50
    OutputPrice = 250
    SearchPrice = 50000
    Runs = {r1, r2}
    Cap = 1000000
    VoyageFree = 12000
    OpenAlexFree = 75000
    Usages <- MCUsages
    Estimates <- MCEstimates
    MaxCost = 435925
    Horizon = 1000000
INVARIANTS
    VoyageExact
PROPERTIES
    UsageReachesStore
    OpenAlexBilledForToday
