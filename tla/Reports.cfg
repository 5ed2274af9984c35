SPECIFICATION ReportSpec
CONSTANTS
    Numbers <- MCNumbers
    NullNumbers <- MCNullNumbers
    Separators <- MCSeparators
    RevCells <- MCRevCells
    MaxRows = 3
    VendorSheet <- MCVendorSheet
    NoBook = NoBook
    Digits <- MCDigits
    Commands = {"latest", "docType", "sow", "idb", "automate"}
    Books <- MCBooks
    ReferenceRows <- MCReferenceRows
    GradedCells <- MCGradedCells
    MaxReferenceRows = 2
    MaxRecorded = 1
    MaxPerCause = 1
INVARIANTS
    LatestStandsOut
    ExceptionsExplained
    ReportTypeOK
    VendorsNeverGuess
    ScopeNeverGuessed
    RequiredSheetDecides
    BlanksAreManual
    CausesAccountForAll
    EveryCauseHasExample
    BlameIsEarned
PROPERTIES
    DecisionsStand
CHECK_DEADLOCK FALSE
