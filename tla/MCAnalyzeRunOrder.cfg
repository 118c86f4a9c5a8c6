SPECIFICATION Spec
CONSTANTS
    Claims = {c1, c2}
    Tokens = {1, 2}
    ExtractTok = 1
INVARIANTS
    ProgressInOrder
