SPECIFICATION FairSpec
CONSTANTS
    Clients = {a, b}
    ConnCount = 2
    AskCount = 4
    EventCount = 3
    MaxEvents = 2
    Strand = FALSE
    None = None
INVARIANTS
    HoldersAreMembers
    QuietAgrees
PROPERTIES
    Disposed
    AttachAnswered
CHECK_DEADLOCK FALSE
