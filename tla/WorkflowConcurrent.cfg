SPECIFICATION Spec
CONSTANTS
    Subs = {s1}
    Requests = {p1, p2, p3}
    Books = {"march", "empty"}
    SourceRows <- MCRows
    RowsOf <- MCRowsOf
    HeaderOf <- MCHeaderOf
    Processable <- MCProcessable
    Rules = {r1}
    NoRules = NoRules
    Missing = Missing
    Pending = Pending
    PlantSelects = FALSE
    PoolSize = 2
    Serial = FALSE
    Disturbances = {"loadError", "stepError", "commitLost", "markLost", "crash", "bookIdle"}
SYMMETRY RequestSymmetry
INVARIANTS
    TypeOK
    StatusIsBacked
    UploadedIsBare
    SummaryNeverHollow
    DownloadFindsResultWhole
