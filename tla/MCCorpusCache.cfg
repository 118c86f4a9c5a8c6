SPECIFICATION Spec
CONSTANTS
    Runs = {r1, r2, r3}
    Versions = {plain, accented}
    Cut = {accented}
    NoText = NoText
    Garbage = Garbage
    NoFile = NoFile
SYMMETRY Symmetry
CHECK_DEADLOCK FALSE
INVARIANTS
    CorpusInv
    VectorsMatchTexts
    DamageNeedsOverlap
