SPECIFICATION FairSpec
CONSTANTS
    JobCount = 2
    UtteranceCount <- ThreeThenSilent
    ChunkCount = 1
    MaxQueued = 2
    PlayedBefore = TRUE
    None = None
INVARIANTS
    TypeOK
    InOrder
    CompletedIsWhole
PROPERTIES
    SilentOnceOver
    EndedIsHeard
    ClaimedEnds
    PlaybackEnds
CHECK_DEADLOCK FALSE
