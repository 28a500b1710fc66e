\* One thread; the official number is missing from some reports.
CONSTANTS
    o1 = o1
    o2 = o2
    name = name
    number = number
    newname = newname
    Opps = {o1, o2}
    Aliases = {name, newname, number}
    Unrestorable = {}
    Observations <- Varying
    Handlers = {h1}
    Dispositions = {"CONNECTED", "MEETING_BOOKED", "NOT_INTERESTED", "DO_NOT_CALL", "WRONG_BUSINESS"}
    Targets = {"RESEARCH", "CONTACTED", "MEETING", "PROPOSAL", "WON", "LOST", "BLOCKED"}
    Hours = {1}
    Faults = FALSE
    MaxTime = 1
SPECIFICATION Spec
PROPERTIES
    SuppressionKeepsItsAliases
CHECK_DEADLOCK FALSE
