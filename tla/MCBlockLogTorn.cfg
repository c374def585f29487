SPECIFICATION Spec
CONSTANTS
    N = 3
    Hash <- MCHash
    Genesis = 0
    Torn = Torn
    None = None
    Trees <- MCTrees
    FaultSets = {{"torn"}}
    MaxCrashes = 1
    MaxLog = 3
INVARIANT PromisedSurvives
