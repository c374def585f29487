\* Eight blocks, in one chain or in competing branches: long enough for every
\* deployment to reach its last state.
SPECIFICATION Spec
CONSTANTS
    no = no
    yes = yes
    Vote = {no, yes}
    Mask <- MCMask
    Deployments <- MCDeployments
    Grace = 1
    UndoWindow = 2
    MaxHeight = 8
    MaxBlocks = 8
INVARIANTS
    BranchSignalsExact
    RulesSettled
    ForecastExact
