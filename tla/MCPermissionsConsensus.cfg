CONSTANTS
    Addresses = {a1, a2, a3}
    Minable = a1
    Types = {"admin", "mine"}
    ActivateTypes = {}
    AdminShare = 0
    MineShare = 6
    ConsensusShare <- MCShare
    Granularity = 10
    SetupFirstBlocks = 1
    Ranges <- Forever
    Timestamps = {1, 2}
    MaxBlock = 1
    MaxRow = 10
    MaxPool = 3
SPECIFICATION Spec
VIEW MCView
SYMMETRY OtherSymmetry
CONSTRAINT VotesAfterGenesis
INVARIANTS ConsensusSound LinkInv
CHECK_DEADLOCK FALSE
