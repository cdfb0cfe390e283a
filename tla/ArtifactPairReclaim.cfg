SPECIFICATION Spec
CONSTANTS
    w1 = w1
    w2 = w2
    w3 = w3
    b1 = b1
    b2 = b2
    Writer <- ThreeWriters
    NoFile = NoFile
    Bytes <- OneBytes
    MaxFaults = 0
INVARIANT ReclaimsOnlyDeadOwner
CHECK_DEADLOCK FALSE
