SPECIFICATION FairSpec
CONSTANTS
    TurnCount = 2
    OtherTurns = {o1}
    CancelCount = 1
    ConnCount = 2
    MaxRetries = 1
    PageLimit = 9
    SyncLimit = 9
    Races = {}
    None = None
INVARIANTS
    OwedIsShown
    ShownInOrder
    StoppedStaysSilent
PROPERTIES
    SendingEnds
CHECK_DEADLOCK FALSE
