SPECIFICATION FairSpec
CONSTANTS
    Turns = {t1, t2}
    NoTurn = NoTurn
    Budget <- FaultBudget
    ListLimit = 6
INVARIANTS
    SingleWriter
PROPERTIES
    LedgerSpec
    SlotFreed
CHECK_DEADLOCK FALSE
