SPECIFICATION NetworkSpec
CONSTANTS
    Peers = {alice, bob}
    MaxChallenges = 2
    MaxSeq = 2
    MaxSessions = 3
    Nodes = {p1, p2, p3}
    Addrs = {addr}
    MaxAge = 1
    MaxTick = 2
    MaxSends = 2
    Absent = Absent
    MaxVersion = 4
    VerifiedRoots = {r1, r2}
INVARIANTS
    NetworkTypeOK
    HandshakesAreMutual
    DeliveredInOrder
    NegotiationAgrees
    FreshStaysKnown
CHECK_DEADLOCK FALSE
SYMMETRY Symmetry
