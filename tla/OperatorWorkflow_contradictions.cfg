\* A contradiction expires before the evidence it is about.
CONSTANTS
    researcher = researcher
    manager = manager
    p1 = p1
    p2 = p2
    Operators = {researcher}
    Policies = {p1}
    Permits <- AllDuties
    PolicyExpires <- LastingPolicies
    Records = {r1}
    DecisionLife = 1
    Scopes = {s1}
    Kinds <- WorkflowKinds
    Cites <- WorkflowCites
    Bodies <- WorkflowBodies
    GrantKeys = {g1}
    Authorities <- WorkflowAuthorities
    Stamps <- WorkflowStamps
    TaskKeys = {k1}
    Workers = {}
    LeaseTimes = {1}
    Expiries = {1, 2}
    AnyEpoch = AnyEpoch
    MaxToken = 0
    MaxLag = 0
    MaxNodes = 7
    MaxEpoch = 5
    MaxTime = 1
SPECIFICATION WorkflowSpec
INVARIANTS
    BriefsCiteUnresolvedContradictions
CHECK_DEADLOCK FALSE
