\* What must eventually happen, in six components.
CONSTANTS
    h1 = h1
    h2 = h2
    o1 = o1
    o2 = o2
    r1 = r1
    r2 = r2
    t1 = t1
    t2 = t2
    l1 = l1
    g = g
    VA = VA
    MD = MD
    None = None
    Handlers = {h1, h2}
    Opps = {o1, o2}
    Requests = {r1, r2}
    Of <- MCOf
    Look = "look"
    Clearances = {r1}
    Shifting = {r1}
    Faults = TRUE
SPECIFICATION ProgressSpec
INVARIANTS
    AloneSuccessIsOnFile
PROPERTIES
    ProbesKeepTheFile
    RequestsEnd
    JobsEnd
CHECK_DEADLOCK FALSE
