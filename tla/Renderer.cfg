SPECIFICATION FairSpec
CONSTANTS
    Threads = 2
    MaxRequests = 3
    Uses <- MCUses
INVARIANTS
    FramesAreComplete
    BusyMatchesWork
PROPERTIES
    ImplementsFrameService
    BusyEnds
    NewestIsAnswered
    PublishedInOrder
CHECK_DEADLOCK FALSE
