SPECIFICATION Spec
CONSTANTS
    math = math
    source = source
    Id = {1, 2, 3, 4, 5, 6}
    Label = {math, source}
    NFolds = 2
    Input <- MCInput
    MaxExcluded = 1
    None = None
INVARIANTS
    ClustersExact
    AcceptedParametersSucceed
    HoldoutClose
    NoLeak
CHECK_DEADLOCK FALSE
