CONSTANTS
    Addresses = {a1, a2}
    Minable = a1
    Types = {"admin", "mine"}
    ActivateTypes = {}
    AdminShare = 0
    MineShare = 0
    ConsensusShare <- MCShare
    Granularity = 10
    SetupFirstBlocks = 0
    Ranges <- WithExpiry
    Timestamps = {1}
    MaxBlock = 2
    MaxRow = 7
    MaxPool = 1
SPECIFICATION Spec
VIEW MCView
SYMMETRY Symmetry
INVARIANTS TypeOK DbInv CountsAccurate
PROPERTIES ImplementsHistory
CHECK_DEADLOCK FALSE
