CONSTANTS
    Miners = {a, b, c, d, e, f, g, h, i}
    Granularity = 4
    Diversity = 4
    SetupFirstBlocks = 1
    IntMax = 31
    MaxBlock = 0
SPECIFICATION DiversitySpec
INVARIANTS MinersWaitTheirShare
