CONSTANTS
    Miners = {a, b, c, d}
    Granularity = 10
    Diversity = 5
    SetupFirstBlocks = 1
    IntMax = 127
    MaxBlock = 3
SPECIFICATION DiversitySpec
SYMMETRY Symmetry
INVARIANTS ActiveMinersCanMine MinersWaitTheirShare
