SPECIFICATION Spec
CONSTANTS
    Parent <- MCParent
    Scenarios <- MCScenarios
    MaxCalls = 2
    MaxWallet = 1
    MaxRestarts = 1
INVARIANTS
    MoreWorkIsCandidate
    TipBestWork
    ChainNotFailed
    WalkedBlocksHaveData
PROPERTIES
    CandidatesLeft
    ActivationEnds
    SetLastEnds
CHECK_DEADLOCK FALSE
