SPECIFICATION Spec
CONSTANTS
    MessageCount = 1
    Files = {}
    TurnCount = 0
    CallCount = 1
    MaxRetries = 1
    AbortCount = 0
    BashCount = 0
    Outcomes = {"stop", "error", "overflow"}
    AllAtOnce = FALSE
    None = None
INVARIANTS ContinueSound
CHECK_DEADLOCK FALSE
