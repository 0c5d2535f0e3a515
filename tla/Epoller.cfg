CONSTANTS
    Channels = {c1, c2, c3}
    Fds = {4, 5, 6}
    NoChannel = NoChannel
SPECIFICATION BothSpec
INVARIANTS
    MapAgrees
    AssertsHold
    KernelAgrees
    PollfdsIndexed
    PollersAgree
SYMMETRY
    ChannelSymmetry
