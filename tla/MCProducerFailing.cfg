\* An append of the mining thread or of the importer fails.
SPECIFICATION Spec
CONSTANTS
    None = None
    Unknown = Unknown
    Blocks <- MCBlocks
    Prev <- MCPrev
    Chain <- MCChain
    Work <- MCWork
    Own <- MCOwn
    Refused = {9}
    PinSets <- MCNoPins
    Claims = {1, 2}
    FinalityDepth = 1
    SnapshotEvery = 1
    AnchorStride = 1
    AnchorDepth = 1
    GateLag = 1
    FaultSets <- MCFaults
    MaxMined = 2
    MaxTurns = 0
    MaxRestarts = 0
INVARIANTS
    AdvertisedDurable
CHECK_DEADLOCK FALSE
