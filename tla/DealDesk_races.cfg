\* Two threads, one opportunity.
CONSTANTS
    o1 = o1
    o2 = o2
    name = name
    number = number
    newname = newname
    Opps = {o1}
    Aliases = {name, number}
    Unrestorable = {}
    Observations <- Steady
    Handlers = {h1, h2}
    Dispositions = {"CONNECTED", "DO_NOT_CALL", "WRONG_BUSINESS"}
    Targets = {"RESEARCH", "CONTACTED", "BLOCKED"}
    Hours = {1}
    Faults = FALSE
    MaxTime = 1
SPECIFICATION Spec
SYMMETRY Symmetry
INVARIANTS
    SuppressionIsPermanent
CHECK_DEADLOCK FALSE
