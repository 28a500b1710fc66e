\* Two request threads, and a third submission of a consent.
CONSTANTS
    frontier = frontier
    deal = deal
    Threads = {t1, t2}
    Kinds <- Every
    SigningKey = TRUE
    VerifyingKey = TRUE
    MaxReceipts = 3
    MaxRestarts = 1
    Callers = {t1, t2}
    Tokens = {k1, k2}
    Users = {u1, u2}
    TTL = 1
    Consents = {t1, t2, c3}
    FileErrors = TRUE
    MaxStops = 1
    FrontierKeys = {frontier}
    DealKeys = {deal, second, third}
    ProofLimit = 2
    BoardLimit = 1
    BoardTTL = 1
    EchoTTL = 3
    FreshUntil = 1
    Budgets <- MCBudgets
    Thresholds <- MCThresholds
    Curves <- MCCurves
    Addresses = {"a", "p", "z"}
    Public = {"a", "z"}
    Rank <- MCRank
    Timeout = 2
    MaxTime = 1
    MaxMinted = 3
SPECIFICATION ServerSpec
SYMMETRY Perms
INVARIANTS
    SourceReceiptsForkOnlyAtGenesis
    ReceiptsAreSound
    CachesAreBoundedAtRest
    SessionsAreHonoured
    ConsentsAreKept
    LoopsAreOnRecord
    WebhookIsHonest
PROPERTIES
    BoardsAnswerTruly
CHECK_DEADLOCK FALSE
