CONSTANTS
    Conns = {c1}
    Fds = {4}
    Workers = {}
    Callbacks <- HttpCallbacks
    Urgent = {c1}
    MaxBacklog = 1
    MaxPending = 2
    InitEvents = 16
    None = None
SPECIFICATION Spec
INVARIANT
    RemovedOnce
