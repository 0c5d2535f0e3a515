CONSTANTS
    Capacity = 4
    Sizes = {1, 2, 3}
    Limit = 2
    MaxMessages = 5
    Null = Null
SPECIFICATION FairSpec
INVARIANTS
    NothingLost
    SparesReady
    NothingHeldBack
PROPERTIES
    LogQueueSpec
    FullBuffersAreWritten
CHECK_DEADLOCK FALSE
