CONSTANTS
    NumThreads = 3
    MaxTasks = 3
SPECIFICATION FairSpec
INVARIANTS
    AssertsHold
    LoopsAreReady
    DealtEvenly
PROPERTY
    StartReturns
