SPECIFICATION FairSpec
CONSTANTS
    N = 2
    Hash <- MCHash
    Genesis = 0
    Torn = Torn
    None = None
    Trees <- MCTrees
    FaultSets = {{}, {"io"}, {"torn"}}
    MaxCrashes = 2
    MaxLog = 4
INVARIANTS
    BootConsistent
    LogClosed
    NoRegression
PROPERTIES
    ImplementsStore
    ReadablePrefixKept
    EventuallySynced
CHECK_DEADLOCK FALSE
