CONSTANTS
    Branches = {x, y}
    Grants = {0, 3}
    MaxBlock = 2
    MaxRow = 7
SPECIFICATION Spec
SYMMETRY Symmetry
INVARIANTS DatabaseRowsKept UpMatchesDatabase PastBlocksCounted RefusesOnlyOverStaleRows
CHECK_DEADLOCK FALSE
