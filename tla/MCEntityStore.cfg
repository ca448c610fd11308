SPECIFICATION Spec
CONSTANTS
    Txs = {t1, t2, t3, t4}
    Names = {n1}
    NoName = noname
    Quantities = {1}
    MaxQuantity = 3
    MaxBlock = 3
    MaxPool = 3
    MaxCrashes = 1
    Failing = {"ledger", "database"}
    MaxFailures = 1
    MaxFailPool = 1
INVARIANTS
    StoresAgree
    DatabaseExact
    ChainsExact
    QuantityBounded
    RefusesOnlyOverEntities
VIEW MCView
SYMMETRY MCSymmetry
CHECK_DEADLOCK FALSE
