CONSTANTS
    Conns = {c1}
    Fds = {4}
    Workers = {w1}
    Urgent = {}
    Callbacks <- CloseCallbacks
    MaxBacklog = 1
    MaxPending = 2
    InitEvents = 16
    None = None
SPECIFICATION Spec
INVARIANT
    DestroyedAtMostOnce
