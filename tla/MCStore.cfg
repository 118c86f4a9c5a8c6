SPECIFICATION Spec
CONSTANTS
    Callers = {c1, c2}
    Labels = {plain, named}
    NoLabel = plain
    MaxRuns = 2
    MaxStamp = 3
    MaxDay = 1
    None = None
    NoFile = NoFile
    Partial = Partial
SYMMETRY Symmetry
INVARIANTS
    StoreInv
    DiskIntact
    AckedIsOnDisk
    DailyCoversRuns
PROPERTIES
    SpendNeverForgotten
    ImplementsDurable
