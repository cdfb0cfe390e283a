SPECIFICATION FairSpec
CONSTANTS
    w1 = w1
    w2 = w2
    w3 = w3
    b1 = b1
    b2 = b2
    Writer <- ThreeWriters
    Bytes <- TwoBytes
    NoFile = NoFile
    MaxFaults = 2
CONSTRAINT UpToRenaming
INVARIANTS
    FailureLeavesNothing
PROPERTIES
    RefinesPairCommit
    LoneRerunRecovers
CHECK_DEADLOCK FALSE
