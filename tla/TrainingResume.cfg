SPECIFICATION FairSpec
CONSTANTS
    r1 = r1
    r2 = r2
    m1 = m1
    k1 = k1
    k2 = k2
    o1 = o1
    Run <- TwoRuns
    Monitor <- OneMonitor
    Contract <- TwoContracts
    Output <- OneOutput
    LastStep = 2
    Absent = Absent
    MaxFaults = 1
    MaxDamage = 1
PROPERTIES
    CheckpointsKept
    RefinesTrainingJob
    LoneRunCompletes
CONSTRAINT Representative
CHECK_DEADLOCK FALSE
