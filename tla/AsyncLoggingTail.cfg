CONSTANTS
    Capacity = 4
    Sizes = {1, 3}
    Limit = 2
    MaxMessages = 3
    Null = Null
SPECIFICATION FairSpec
PROPERTY
    MessagesAreWritten
CHECK_DEADLOCK FALSE
