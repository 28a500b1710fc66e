\* One scope, one record; the policy file changes and one policy ends.
CONSTANTS
    researcher = researcher
    manager = manager
    p1 = p1
    p2 = p2
    Operators = {researcher}
    Policies = {p1, p2}
    Permits <- AllDuties
    PolicyExpires <- UnevenPolicies
    Records = {r1}
    DecisionLife = 1
    Scopes = {s1}
    Kinds <- WorkflowKinds
    Cites <- WorkflowCites
    Bodies <- WorkflowBodies
    GrantKeys = {g1}
    Authorities <- WorkflowAuthorities
    Stamps <- WorkflowStamps
    TaskKeys = {k1}
    Workers = {}
    LeaseTimes = {1}
    Expiries = {1, 2}
    AnyEpoch = AnyEpoch
    MaxToken = 0
    MaxLag = 0
    MaxNodes = 8
    MaxEpoch = 6
    MaxTime = 1
SPECIFICATION Spec3
INVARIANTS
    ClearancesAreSupported
    OnePolicyPerTask
PROPERTIES
    DecidedOnWhatWasSeen
CHECK_DEADLOCK FALSE
