SPECIFICATION FairSpec
CONSTANTS
    Files = {april, letter}
    Supported = {april}
    Runs = {r1, r2}
    NoRun = NoRun
    NoFile = NoFile
    Reads = {t1}
    SourceRows <- MCRows
PROPERTIES
    OwnOutcomesOnly
