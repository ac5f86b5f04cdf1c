SPECIFICATION InMemorySpec
CONSTANTS
    Sandboxes = {b1, b2}
    Ports = {https}
    Capabilities <- MCCapabilities
    Amounts = {0, 1, 3}
    UsageModulus = 4
    MaxGranted = 5
    Ids = {b1, b2}
    MaxRegistered = 6
    Agents = {a1, a2}
    Schemas = {propose_tx}
    OtherTypes = {custom}
    Unregistered = Unregistered
    MaxMsgSeq = 2
    MaxEvents = 5
    ProposalIds = {p1, p2}
    NoProposal = NoProposal
    MaxCalls = 4
    ModelKeys = {m1, m2, m3}
    Owners = {o1}
    Contents = {c1, c2}
    Damaged = Damaged
    Missing = Missing
    MaxEntries = 2
    Manifests <- MCManifests
    Root = "app"
    NoVersion = NoVersion
    Services = {s1, s2}
    Tolerances <- MCTolerances
    Modulus = 16
    MaxTick = 8
    MaxRestarts = 1
    Unknown = Unknown
    Nodes = {n1, n2, n3}
    Targets = {t}
    None = None
    MaxGossipTick = 2
    MaxSends = 2
    MaxObserves = 3
    KeyIds = {"node-key", "agent-key"}
    Seeds = {"seed1", "seed2"}
    NoKey = NoKey
    Keys = {"k"}
    Values = {"v1", "v2"}
    Absent = Absent
    TxLogs <- MCTxLogs
    VmExec = b1
    BootAgent = a1
    BootTypes = {propose_tx, custom}
    ProposeTx = propose_tx
    BootProposal = p1
    NodeService = s1
    BootTolerance <- MCBootTolerance
    NotYet = NotYet
INVARIANTS
    InMemoryTypeOK
    StateIsExactBelowOverflow
    HeldIsNewest
    ViewsAgree
    QuotaRespected
    NobodyStarves
    ReceiptsAreUnique
    TrailIsLifecycle
    ServedIsPublished
    PlanIsRight
    BootIsWhole
PROPERTY
    NeverHealsItself
CHECK_DEADLOCK FALSE
SYMMETRY Symmetry
