CONSTANTS
    c1 = c1
    c2 = c2
    None = None
    Lanes = {echo, form5500}
    Echo = echo
    Dol = form5500
    tag = tag
    Tags = {tag, tag2}
    Publishers = {c1, c2}
    Readers = {c1, c2}
    SigningKey = TRUE
    SnapshotFreshFor = 2
    CacheFor = 2
    MaxClock = 3
    MaxCommits = 2
    Checkers = {c1, c2}
    Revisions <- MCRevisions
    ObservedAt <- MCObservedAt
    SignedWith <- MCSignedWith
    SigningKeys = {1, 2}
    Policies <- MCPolicies
    FreshFor = 2
    MaxTime = 4
    MaxAttempts = 3
    MaxChanges = 2
    Kinds <- MCKinds
    MaxRecords = 4
    Benefit = "form5500"
    Lifetime <- Lifetimes
    Before = 2
    After = 1
    Shortest = 1
    LastReading = 5
SPECIFICATION SourcesSpec
SYMMETRY Perms
INVARIANTS
    StatusIsTrue
    PublicationsAreWhole
    ServedIsCurrent
PROPERTIES
    SuccessesAreKept
    HistoryStands
    GroupsAreRight
CHECK_DEADLOCK FALSE
