SPECIFICATION PanelSpec
CONSTANTS
    Runs = {r1, r2}
    Labels = {plain, named}
    NoLabel = plain
    MaxFlight = 3
    Null = Null
SYMMETRY Symmetry
CHECK_DEADLOCK FALSE
INVARIANTS
    PanelIsAlwaysCurrent
    NeverBroken
