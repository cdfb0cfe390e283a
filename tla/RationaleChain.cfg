SPECIFICATION Spec
CONSTANTS
    q0 = q0
    q1 = q1
    q2 = q2
    q3 = q3
    o1 = o1
    o2 = o2
    full = full
    rest = rest
    pilot = pilot
    None = None
    Op = {o1, o2}
    Id = {q0, q1, q2, q3}
    Text = {1, 2, 3}
    Contract = {1, 2, 3}
    Fold = {0, 1, 2}
    Split <- MCSplit
    Right <- MCRight
    Short <- MCShort
    Bank = {full, rest, pilot}
    Ledger <- MCLedger
    SourceTarget <- MCSourceTarget
    CorpusTarget <- MCCorpusTarget
    AuditPath = {"audit"}
    Replacement <- MCReplacement
    MaxDrift = 1
    MaxFaults = 1
SYMMETRY Operators
CONSTRAINT Within
INVARIANTS
    ManifestNamesRecords
    MaterializedExactly
    PromotedOnly
    TrainedAsNamed
