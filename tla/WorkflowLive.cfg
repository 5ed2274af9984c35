SPECIFICATION FairSpec
CONSTANTS
    Subs = {s1, s2}
    Requests = {p1, p2}
    Books = {"march", "broken"}
    SourceRows <- MCRows
    RowsOf <- MCRowsOf
    HeaderOf <- MCHeaderOf
    Processable <- MCProcessable
    Rules = {r1}
    NoRules = NoRules
    Missing = Missing
    Pending = Pending
    PlantSelects = FALSE
    PoolSize = 2
    Serial = FALSE
    Disturbances = {}
PROPERTIES
    EveryRequestAnswered
