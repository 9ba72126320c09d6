SPECIFICATION Spec
CONSTANTS
    Turns = {t1, t2, t3}
    NoTurn = NoTurn
    Budget <- SummaryBudget
    ListLimit = 6
SYMMETRY Symmetry
INVARIANTS
    ContextFromLog
    SummaryCutsBetweenTurns
CHECK_DEADLOCK FALSE
