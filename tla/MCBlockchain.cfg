\* Every block carries the same work and the undo window is shorter than the
\* longest branch: reorganisations take the incremental path and the replay.
SPECIFICATION FairSpec
CONSTANTS
    N = 4
    t1 = t1
    Weights = {1}
    Works = {1}
    Genesis = 0
    UndoWindow = 1
    Hash <- MCHash
    Tx <- MCTx
    Bits <- MCBits
    Offered <- MCOffered
INVARIANTS
    RefusedLeavesHead
    HeadBest
    IndexValid
    StateFollowsChain
    ViewsAgree
    RingAligned
    NoTxLost
    NoPanic
PROPERTY ImportTerminates
