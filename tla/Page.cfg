SPECIFICATION FairSpec
CONSTANTS
    Files = {april, may, letter}
    Supported = {april, may}
    Runs = {r1, r2}
    NoRun = NoRun
    NoFile = NoFile
    Reads = {t1, t2}
    SourceRows <- MCRows
INVARIANTS
    TypeOK
    CompleteIsAutomated
    RailIsTruthful
    StepsWorkAlone
PROPERTIES
    WaitsEnd
