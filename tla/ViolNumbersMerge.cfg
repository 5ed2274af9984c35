SPECIFICATION Spec
CONSTANTS
    Numbers <- MCSegmented
    NullNumbers <- MCNullNumbers
    Separators <- MCSeparators
    RevCells <- MCRevCells
    MaxRows = 2
INVARIANTS
    SegmentsKeepApart
CHECK_DEADLOCK FALSE
