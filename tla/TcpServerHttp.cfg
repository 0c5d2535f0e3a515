CONSTANTS
    Conns = {c1, c2}
    Fds = {4, 5}
    Workers = {}
    Urgent = {c1}
    Callbacks <- HttpCallbacks
    MaxBacklog = 1
    MaxPending = 2
    InitEvents = 1
    None = None
SPECIFICATION FairSpec
INVARIANTS
    TypeOK
    AssertsHold
    OwnedOnce
    NothingDangles
    QuiescentConnections
PROPERTIES
    FreedAfterRemoval
    GoneConnectionIsFreed
    BacklogIsServed
