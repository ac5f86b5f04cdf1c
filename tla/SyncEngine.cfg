SPECIFICATION Spec
CONSTANTS
    k1 = k1
    v1 = v1
    n1 = n1
    n2 = n2
    Keys <- MCKeys
    Values <- MCValues
    Nodes <- MCNodes
    TxLists <- MCTxLists
    Absent = Absent
    MaxHeight = 2
    MaxBlocks = 3
INVARIANTS
    TypeOK
    Agreement
    AppliedIsChain
    VerdictsAreRight
