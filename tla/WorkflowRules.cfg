SPECIFICATION Spec
CONSTANTS
    Subs = {s1}
    Requests = {p1, p2}
    Books = {"march", "longer"}
    SourceRows <- MCRows
    RowsOf <- MCRowsOf
    HeaderOf <- MCHeaderOf
    Processable <- MCProcessable
    Rules = {r1, r2}
    NoRules = NoRules
    Missing = Missing
    Pending = Pending
    PlantSelects = FALSE
    PoolSize = 2
    Serial = FALSE
    Disturbances = {"stepError", "rules", "bookIdle"}
SYMMETRY RequestSymmetry
INVARIANTS
    SummaryDescribesRows
    DownloadFindsResultWhole
PROPERTIES
    NeverSetBack
