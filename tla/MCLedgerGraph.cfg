CONSTANTS
    s1 = s1
    s2 = s2
    m1 = m1
    m2 = m2
    m3 = m3
    Scopes = {s1, s2}
    Bodies = {b1}
    GrantKeys = {g1}
    Authorities = {a1}
    Stamps = {0, 1}
    TaskKeys = {k1, k2}
    Workers = {}
    LeaseTimes = {1}
    Expiries = {1, 2}
    AnyEpoch = AnyEpoch
    MaxToken = 0
    MaxLag = 0
    Kinds = {"grant", "observation", "brief", "source", "clearance", "manual_task"}
    Cites <- GraphCites
    MaxNodes = 5
    MaxEpoch = 4
    MaxTime = 1
    LockTxns = {m1, m2, m3}
    LockGrants = {g}
    CodeOrder <- Code
    Collations <- Orders
    GraphIds = {m1, m2, m3, m4}
    GraphContents = {"a"}
    GraphExpiries = {1, 2}
    GraphTimes = {0, 1}
SPECIFICATION GraphSpec
SYMMETRY Symmetry
INVARIANTS
    EvidenceStands
    TasksAreSound
    LineageIsTheWalk
    RevocationsAreWhole
    LocksSuffice
PROPERTIES
    LedgerMovesForward
    ImplementsTheReference
CHECK_DEADLOCK FALSE
