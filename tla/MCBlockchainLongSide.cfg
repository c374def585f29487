\* A lighter side branch with more blocks than the undo window holds.
SPECIFICATION Spec
CONSTANTS
    N = 4
    t1 = t1
    Weights = {1, 3}
    Works = {1, 3}
    Genesis = 0
    UndoWindow = 2
    Hash <- MCHash
    Tx <- MCTx
    Bits <- MCBits
    Offered <- MCOfferedEmpty
INVARIANTS
    NoPanic
