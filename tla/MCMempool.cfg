SPECIFICATION FairSpec
CONSTANTS
    None = None
    N1 = N1
    Tx <- MCMixed
    Capacity = 2
    MaxPerSender = 2
    QueuedCapacity = 1
    MaxQueuedPerSender = 1
    MaxWeight = 5
    MinRbfBump = 1
    RateScale = 6
    Balances <- MCTwoBalances
    MaxBlocks = 2
    UndoWindow = 1
    ActivationHeight = 1
    BoundHeight = 2
INVARIANTS
    PoolConsistent
    Bounded
    Affordable
    NothingDead
    TemplateInOrder
PROPERTY
    CallsEnd
