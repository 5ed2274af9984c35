SPECIFICATION FairSpec
CONSTANTS
    Uploads = {u1, u2, u3}
    Plants = {q1, q2}
    UnknownPlant = UnknownPlant
    Processes = 3
    Disturbances = {"databaseError", "writeError", "commitError", "commitLost", "crash"}
INVARIANTS
    TypeOK
    RowHasFile
    NumbersDense
PROPERTIES
    UploadEnds
