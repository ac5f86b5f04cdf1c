SPECIFICATION Spec
CONSTANTS
    k1 = k1
    k2 = k2
    v1 = v1
    Keys <- MCKeys
    Values <- MCValues
    Heights <- MCHeights
    Absent = Absent
    Clean = Clean
    Torn = Torn
    Glued = Glued
    NoFile = NoFile
    Truncated = Truncated
    MaxRecords = 4
    MaxCrashes = 2
    MaxIoErrors = 1
INVARIANTS
    TypeOK
    AckedSurvive
    BothPathsAgree
    FailClosed
PROPERTY
    ImplementsDurableStore
CHECK_DEADLOCK FALSE
SYMMETRY Symmetry
