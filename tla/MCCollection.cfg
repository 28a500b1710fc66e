\* The exporter, the other registries, the rotation of the credentials, the release.
CONSTANTS
    VA = VA
    MD = MD
    TX = TX
    l1 = l1
    l2 = l2
    Absent = Absent
    Boards = {l1, l2}
    Order <- TwoSecrets
    Reader = "DAVID_DATASET_READ_TOKEN"
    LoginSecrets = {"DAVID_ACCESS_KEY"}
    Sources = {"target", "other"}
    Target = "target"
    RecordSets <- Receipts
    FreshDays = 0
    LastDay = 1
    MaxPublications = 2
    MaxRotations = 2
    MaxTries = 2
    Gates = {"live", "unit"}
    Runtime = {"live"}
    MaxAge <- GateAges
    LastInstant = 1
    MaxDeploys = 2
    Rows <- AllRows
    Targets = {VA, MD}
    Window = 1
    FreshDate = 1
    NameMax = 2
    Floor = 1
    Take = 2
    Registries = {"fmcsa", "usaspending", "form5500"}
    Asked <- BothStates
    Filings <- AllFilings
    Page = 2
    PerState = 1
    Attempts = 2
    MaxRows = 3
    MaxDay = 2
SPECIFICATION CollectionSpec
INVARIANTS
    LaneIsSound
    BundlesAreWhole
    EvidenceIsTheSuccessors
    CompleteReportsHold
CHECK_DEADLOCK FALSE
