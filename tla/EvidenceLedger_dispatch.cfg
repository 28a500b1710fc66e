\* One scope; a source or an observation, clearances and tasks; two workers.
CONSTANTS
    Scopes = {s1}
    Bodies = {b1}
    GrantKeys = {g1}
    Authorities = {a1}
    Stamps = {0}
    TaskKeys = {k1, k2}
    Workers = {w1, w2}
    LeaseTimes = {1}
    Expiries = {2}
    AnyEpoch = AnyEpoch
    MaxToken = 2
    MaxLag = 1
    Kinds = {"grant", "observation", "source", "clearance", "manual_task"}
    Cites <- DispatchCites
    MaxNodes = 4
    MaxEpoch = 2
    MaxTime = 2
SPECIFICATION Spec
INVARIANTS
    TypeOK
    RevokedTasksAreRecalled
    SenderHoldsTheLastToken
PROPERTIES
    DispatchRestsOnTheCurrentDecision
    DeliveryIsAtMostOnce
CHECK_DEADLOCK FALSE
