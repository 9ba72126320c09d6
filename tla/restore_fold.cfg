SPECIFICATION Spec
CONSTANTS
    Turns = {t1, t2}
    NoTurn = NoTurn
    MaxLen = 5
    Cuts = {0, 1}
SYMMETRY Symmetry
INVARIANTS
    FoldsAgree
CHECK_DEADLOCK FALSE
