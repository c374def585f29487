\* Pins at height 1 move forward with the chain; pins at height 2 are joined.
SPECIFICATION MCSpec
CONSTANTS
    None = None
    Unknown = Unknown
    Blocks <- MCBlocks
    Prev <- MCPrev
    Chain <- MCChain
    Work <- MCWork
    Own <- MCOwn
    Refused = {9}
    PinSets <- MCPinSets
    Claims = {1, 2}
    FinalityDepth = 1
    SnapshotEvery = 1
    AnchorStride = 1
    AnchorDepth = 1
    GateLag = 1
    FaultSets <- MCFaults
    MaxMined = 2
    MaxTurns = 1
    MaxRestarts = 1
INVARIANTS
    PinHeld
    PinsOneChain
    JoinsBeforeMining
    AdvertisedDurableSound
PROPERTY MinesEventually
CHECK_DEADLOCK FALSE
