SPECIFICATION Spec
CONSTANTS
    A = A
    B = B
    Addresses = {A, B}
    Genesis = A
    Parent <- MCParent
    GrantChoices <- MCGrantChoices
    Granularity = 10
    Diversity = 10
    SetupFirstBlocks = 2
    MaxPool = 1
INVARIANTS
    ForkView
    PutBack
    RecordsComplete
    VerdictOnNewBlock
    ActiveChainValid
CHECK_DEADLOCK FALSE
