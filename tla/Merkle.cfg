SPECIFICATION MerkleSpec
CONSTANTS
    a = a
    b = b
    Keys <- MCKeys
    Values <- MCValues
    KeyOrder <- MCKeyOrder
    Absent = Absent
INVARIANTS
    ProofsAreExact
    RootDeterminesEntries
