SPECIFICATION FairSpec
CONSTANTS
    r1 = r1
    r2 = r2
    k1 = k1
    k2 = k2
    Run <- TwoRuns
    Contract <- TwoContracts
    ChunkCount = 2
    MaxAttempts = 3
    Nobody = Nobody
    Absent = Absent
    MaxFaults = 1
    MaxDamage = 1
INVARIANTS
    GeneratedOnce
    OneResult
PROPERTIES
    LoneRunCompletes
CHECK_DEADLOCK FALSE
