SPECIFICATION NodeSpec
CONSTANTS
    Configs <- MCConfigs
    MaxRestarts = 2
    MaxFaults = 6
    Details = {d1, d2}
    Broken = Broken
    MaxLines = 5
    MaxTornWrites = 3
INVARIANTS
    NodeTypeOK
    NothingLeftUp
    NodeStateIsHonest
    DrainIsComplete
    AuditIsAChain
PROPERTY
    ShutdownCompletes
CHECK_DEADLOCK FALSE
