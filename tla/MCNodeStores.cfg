SPECIFICATION FairSpec
CONSTANTS
    Blocks <- MCBlocks
    Branches <- MCBranches
    Content <- MCContent
    BadMiners = {5}
    Txs <- MCTxs
    Offered = {1, 3, 4, 7}
    NameTaken = {7}
    Sender <- MCSender
    Inputs <- MCInputs
    Change <- MCChange
    Holders <- MCHolders
    MaxCrashes = 2
    MaxFails = 2
INVARIANTS
    StoresAgree
    RowsAreThePools
    VerdictsOfTheBranch
PROPERTIES
    DisconnectKeepsAll
    RecoveryEnds
CHECK_DEADLOCK FALSE
