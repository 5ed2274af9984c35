SPECIFICATION ReportSpec
CONSTANTS
    Numbers <- MCNumbers
    NullNumbers <- MCNullNumbers
    Separators <- MCSeparators
    RevCells <- MCRevCells
    MaxRows = 3
    VendorSheet <- MCVendorSheet
    NoBook = NoBook
    Digits <- MCDigits
    Commands = {"latest"}
    Books <- MCBooks
    ReferenceRows <- MCReferenceRows
    GradedCells <- MCGradedCells
    MaxReferenceRows = 2
    MaxRecorded = 1
    MaxPerCause = 1
INVARIANTS
    GateCatchesConflict
CHECK_DEADLOCK FALSE
