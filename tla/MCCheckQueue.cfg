CONSTANTS
    Workers = {w1, w2}
    Master = m
    Checks = {c1, c2, c3, c4}
    nBatchSize = 2
SPECIFICATION FairSpec
INVARIANTS TypeOK TodoCounts ControlFindsIdle VerdictIsConjunction ChecksDieWithControl
PROPERTIES WaitTerminates
CHECK_DEADLOCK FALSE
