SPECIFICATION Spec
CONSTANTS
    Turns = {t1, t2, t3}
    NoTurn = NoTurn
    Budget <- RestartBudget
    ListLimit = 6
SYMMETRY Symmetry
INVARIANTS
    SettlesOnce
    AnswersRestorable
    InterruptedConverged
    RestoresAnsweredOnly
    AnswersFromStream
CHECK_DEADLOCK FALSE
