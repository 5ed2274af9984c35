SPECIFICATION Spec
CONSTANTS
    Subs = {s1, s2}
    Requests = {p1, p2}
    Books = {"march"}
    SourceRows <- MCRows
    RowsOf <- MCRowsOf
    HeaderOf <- MCHeaderOf
    Processable <- MCProcessable
    Rules = {r1, r2}
    NoRules = NoRules
    Missing = Missing
    Pending = Pending
    PlantSelects = TRUE
    PoolSize = 2
    Serial = TRUE
    Disturbances = {"stepError", "markLost", "crash", "bookIdle", "rulesIdle"}
SYMMETRY Symmetry
INVARIANTS
    RecordedRulesRan
    AcknowledgedResultStands
    ReasonOnlyWhenFailed
PROPERTIES
    LifecycleSpec
