SPECIFICATION Spec
CONSTANTS
    None = None
    N1 = N1
    Tx <- MCRun
    Capacity = 3
    MaxPerSender = 3
    QueuedCapacity = 2
    MaxQueuedPerSender = 1
    MaxWeight = 12
    MinRbfBump = 1
    RateScale = 6
    Balances <- MCRich
    MaxBlocks = 4
    UndoWindow = 3
    ActivationHeight = 1
    BoundHeight = 9
INVARIANT
    ReorgKeeps
