SPECIFICATION MCSpec
CONSTANTS
    None = None
    Blocks <- MCBlocks
    Prev <- MCPrev
    Chain <- MCChain
    Tip <- MCTip
    FinalityDepth = 2
    Peers = {"a", "b", "d"}
    Prompt = {"a"}
    Mute = {"b"}
    Homes = {1, 2, 4}
    Pinned = {3}
    Invalid = {5}
    Batch = 2
    HeadersBatch = 2
    LocatorCap = 3
    BacktrackCap = 2
    MaxStrikes = 3
    StrikeDisconnect = 4
    MaxReplies = 3
    QueueDepth = 2
    MaxAsked = 1
    MaxFaults = 1
INVARIANTS
    OneBatchAtATime
    LinkageSound
    PromptUnblamed
    GateFailsClosed
PROPERTY
    CatchesUp
