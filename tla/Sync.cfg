SPECIFICATION SyncSpec
CONSTANTS
    k1 = k1
    k2 = k2
    v1 = v1
    Keys = {k1, k2}
    Values = {v1}
    Heights = {1}
    Absent = Absent
    Clean = Clean
    Torn = Torn
    Glued = Glued
    NoFile = NoFile
    Truncated = Truncated
    Nothing = Nothing
    DeterministicTxs <- MCTxs
    Retries = 1
    MaxStarts = 2
    MaxFaults = 1
    MaxTimeouts = 1
    MaxStrangers = 1
    Payloads <- MCPayloads
    Base = 2
    HeaderLen = 2
    MaxFrame = 2
    Chunk = 3
    MaxMessages = 3
INVARIANTS
    SyncTypeOK
    AckMeansSaved
    NoPartialState
    ConfirmedIsKept
PROPERTIES
    NobodyWaits
    ImplementsChannel
CHECK_DEADLOCK FALSE
