SPECIFICATION FairSpec
CONSTANTS
    CqmOff = FALSE
    Scans = 3
    Joins = 1
    Faults = 1
INVARIANTS ModeAgrees
PROPERTIES ScanEnds LossFound
CHECK_DEADLOCK FALSE
