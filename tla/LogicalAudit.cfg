SPECIFICATION FairSpec
CONSTANTS
    p1 = p1
    p2 = p2
    Proc <- TwoOperators
    Sample = 1
    MinConsistent = 1
    MaxAttempts = 2
    MaxFaults = 2
    NoVerdict = NoVerdict
INVARIANTS
    LedgerReadable
PROPERTIES
    AskedOnlyWhileOpen
    RefinesAuditVerdict
    LoneRunRecords
