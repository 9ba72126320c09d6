SPECIFICATION Spec
CONSTANTS
    TurnCount = 1
    OtherTurns = {}
    CancelCount = 0
    ConnCount = 2
    MaxRetries = 0
    PageLimit = 9
    SyncLimit = 9
    Races = {}
    None = None
INVARIANTS
    ShownOnce
CHECK_DEADLOCK FALSE
