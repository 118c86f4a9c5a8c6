SPECIFICATION Spec
CONSTANTS
    Callers = {c1, c2}
    Labels = {plain}
    NoLabel = plain
    MaxRuns = 2
    MaxStamp = 3
    MaxDay = 1
    None = None
    NoFile = NoFile
    Partial = Partial
INVARIANTS
    NewestFirst
