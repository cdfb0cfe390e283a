SPECIFICATION GateSpec
CONSTANTS
    b1 = b1
    b2 = b2
    b3 = b3
    d1 = d1
    d2 = d2
    p1 = p1
    p2 = p2
    None = None
    Config = {1}
    Tree = {1, 2, 3}
    Broken = {3}
    Binary = {b1, b2, b3}
    Version = {"one", "later"}
    VersionOf <- Says
    Data = {1, 2}
    CanaryDir = {d1}
    PlanDir = {p1, p2}
    CanaryChunks = 2
    MaxDrift = 1
    MaxFaults = 2
CONSTRAINT Beginning
INVARIANTS
    GateTypeOK
    AskedOnEarnedCanary
    OneEvidencePerPlan
    FullFollowsPilot
