CONSTANTS
    Byte = {"0", "a", "b", "CR", "LF"}
    Zero = "0"
    CR = "CR"
    LF = "LF"
    kCheapPrepend = 1
    kInitialSize = 2
    Messages <- SmallMessages
    kExtra = 2
    SockRoom = 2
    MaxBytes = 7
SPECIFICATION FairSpec
INVARIANTS
    AssertsHold
    FinComesLast
PROPERTIES
    StreamsKeepOrder
    OutputDrains
CHECK_DEADLOCK FALSE
