SPECIFICATION Spec
CONSTANTS
    Blocks <- MCBlocks
    Branches <- MCBranches
    Content <- MCContent
    BadMiners = {}
    Txs <- MCTxs
    Offered = {1, 3}
    NameTaken = {7}
    Sender <- MCSender
    Inputs <- MCInputs
    Change <- MCChange
    Holders <- MCHolders
    MaxCrashes = 0
    MaxFails = 0
INVARIANTS
    TemplateIsValid
CHECK_DEADLOCK FALSE
