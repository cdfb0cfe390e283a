SPECIFICATION Spec
CONSTANTS
    c1 = c1
    c2 = c2
    f1 = f1
    f2 = f2
    f3 = f3
    p1 = p1
    m1 = m1
    m2 = m2
    m3 = m3
    k1 = k1
    k2 = k2
    o1 = o1
    o2 = o2
    r1 = r1
    r2 = r2
    None = None
    Call <- TwoCalls
    Freeze <- ThreeFreezes
    FreezePath <- OneFreezePath
    Method <- ThreeMethods
    Checkpoint <- TwoCheckpoints
    CheckpointOf <- Checkpoints
    Path <- TwoPaths
    Records <- TwoRecords
    Frozen <- FrozenMethods
    MaxSwaps = 3
SYMMETRY Symmetric
INVARIANTS
    OpenedOnce
    ClaimBinds
    ResultFollowsPolicy
PROPERTY RefinesOneShot
CHECK_DEADLOCK FALSE
