SPECIFICATION Spec
CONSTANTS
    Configs <- MCConfigs
    MaxRestarts = 2
    MaxFaults = 2
INVARIANT
    RestartsAreUsed
CHECK_DEADLOCK FALSE
