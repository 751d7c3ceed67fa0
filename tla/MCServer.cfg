SPECIFICATION Spec
CONSTANTS
    d1 = d1
    d2 = d2
    s1 = s1
    s2 = s2
    None = None
    Clients = {c1, c2}
    Databases = {d1, d2}
    Strings = {s1, s2}
    Statements <- SomeStatements
    NotUtf8 <- GarbledStatements
    Stored = s1
    LogPath = TRUE
    RequestCost = 4
    Budget = 12
    MaxTime = 4
    Second = 2
    TenSeconds = 2
    Minute = 2
    TenMinutes = 2
CHECK_DEADLOCK FALSE
INVARIANTS
    TypeOK
    SelectionHolds
    IdsDenoteStrings
    AnswersRight
    AllAccounted
    SnapshotExact
PROPERTIES
    Progress
