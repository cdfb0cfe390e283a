\* Two folds, a base and two candidates, one fault of any kind.
SPECIFICATION SelectionSpec
CONSTANTS
    NFolds = 2
    Deployment = 0
    Label <- MCLabel
    b0 = b0
    b1 = b1
    c1 = c1
    x0 = x0
    x1 = x1
    y0 = y0
    y1 = y1
    e1 = e1
    e2 = e2
    cmp = cmp
    oof = oof
    oof2 = oof2
    fz = fz
    pinned = pinned
    RunPath = {b0, b1, c1, x0, x1, y0, y1}
    AdapterPath = {x0, x1, y0, y1}
    OutPath = {cmp, oof, oof2, fz}
    Offer <- MCOffer
    Name <- MCName
    Exec = {e1, e2}
    Contract = {1, 2}
    AdapterBytes <- MCAdapterBytes
    RowBytes <- MCRowBytes
    Given <- MCGiven
    Replacement <- MCReplacement
    MaxFaults = 1
    Pinned = pinned
    Nothing = Nothing
CONSTRAINT Within
INVARIANTS
    SelectionTypeOK
    RecordedRowsAreValid
    NothingCountedTwice
    FrozenFromAllFolds
PROPERTIES
    FreezeSeesChanges
    EntrySeesChanges
