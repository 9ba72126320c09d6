SPECIFICATION FairSpec
CONSTANTS
    MessageCount = 2
    Files <- SecondHasFiles
    TurnCount = 2
    CallCount = 2
    MaxRetries = 1
    AbortCount = 1
    BashCount = 1
    Outcomes = {"stop", "toolUse"}
    AllAtOnce = FALSE
    None = None
INVARIANTS
    TypeOK
    CallsAnswered
    AskedWithAll
    FileAgrees
PROPERTIES
    AbortReturns
CHECK_DEADLOCK FALSE
