\* One thread over two opportunities with faults, and two threads over one of them.
CONSTANTS
    o1 = o1
    o2 = o2
    name = name
    number = number
    newname = newname
    Opps = {o1, o2}
    Aliases = {name, newname, number}
    Unrestorable = {}
    Observations <- Reported
    Handlers = {h1, h2}
    Dispositions = {"CONNECTED", "MEETING_BOOKED", "NOT_INTERESTED", "DO_NOT_CALL", "WRONG_BUSINESS"}
    Targets = {"RESEARCH", "CONTACTED", "MEETING", "PROPOSAL", "WON", "LOST", "BLOCKED"}
    Hours = {1}
    Faults = TRUE
    MaxTime = 1
SPECIFICATION DeskSpec
SYMMETRY Symmetry
INVARIANTS
    RowsAreCoherent
    SuppressionSurvivesAlone
PROPERTIES
    NoSheetAfterDoNotCallAlone
CHECK_DEADLOCK FALSE
