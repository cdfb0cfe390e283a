SPECIFICATION Spec
CONSTANTS
    p1 = p1
    p2 = p2
    Proc <- TwoOperators
    Chunks <- ThreeRows
    RepairSize = 1
    MaxAttempts = 3
    MaxWorkers = 2
    MinAccepted = 1
    PilotSize = 3
    Profile = "v5"
CONSTRAINT Within
SYMMETRY Symmetric
INVARIANTS
    OneRecordPerKey
    AttemptCap
    BankComplete
    ProtocolRetryOnce
PROPERTIES
    NeverPaysTwice
