SPECIFICATION Spec
CONSTANTS
    k1 = k1
    k2 = k2
    v1 = v1
    Keys = {k1, k2}
    Values = {v1}
    Heights = {1}
    Absent = Absent
    Clean = Clean
    Torn = Torn
    Glued = Glued
    NoFile = NoFile
    Truncated = Truncated
    Nothing = Nothing
    DeterministicTxs <- MCTxs
    Retries = 1
    MaxStarts = 2
    MaxFaults = 1
    MaxTimeouts = 0
    MaxStrangers = 0
INVARIANT
    SinkLosesNothing
CHECK_DEADLOCK FALSE
