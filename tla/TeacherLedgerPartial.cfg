SPECIFICATION Spec
CONSTANTS
    p1 = p1
    p2 = p2
    Proc <- OneOperator
    Chunks <- TwoRows
    RepairSize = 1
    MaxAttempts = 2
    MaxWorkers = 1
    MinAccepted = 0
    PilotSize = 2
    Profile = "v3"
INVARIANTS
    PartialGetsNewAttempt
