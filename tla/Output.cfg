SPECIFICATION Spec
CONSTANTS
    AUTOMATION_COLUMNS <- MCColumns
    CHECK_STATUS = "CHECK STATUS"
    INSERT_BEFORE <- MCAnchors
    QE_SHEET <- MCSheets
    Contains <- MCContains
    QE_EXPECTED <- MCExpected
    AUTOMATED_SHEET = "QatarEnergy-TN Automated"
    LATEST_REVISIONS_SHEET = "Latest Revisions"
    Uploads <- MCUploads
    Filled <- MCFilled
    MaxRuns = 2
CHECK_DEADLOCK FALSE
INVARIANTS
    TypeOK
    RangesFollowCells
    EmployeeSheetsStay
    AnswersReadBack
    LatestIsExtract
    BandUnbroken
PROPERTIES
    RerunChangesNothing
