SPECIFICATION FairSpec
CONSTANTS
    MessageCount = 2
    Files = {}
    TurnCount = 0
    CallCount = 1
    MaxRetries = 1
    AbortCount = 1
    BashCount = 0
    Outcomes = {"stop", "length", "error", "overflow"}
    AllAtOnce = FALSE
    None = None
INVARIANTS
    InOnePlace
    ContinuesAfterOne
    NothingStranded
    FailuresBounded
PROPERTIES
    Settles
CHECK_DEADLOCK FALSE
