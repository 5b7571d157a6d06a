CONSTANTS
    m1 = m1
    m2 = m2
    c1 = c1
    c2 = c2
    Migrators = {m1, m2}
    LastFile = 3
    Callers = {c1, c2}
    MaxAttempts = 2
    MaxBytes = 1
    PoolSize = 1
    MaxWork = 2
    Environments <- SomeEnvironments
    HangUps = TRUE
SPECIFICATION MCSpec
CHECK_DEADLOCK FALSE
INVARIANTS
    StagesAreBounded
    ListeningMeansReady
    StoreOutlivesClients
PROPERTIES
    SchemaIsTheLedger
    NothingIsCut
    StopEnds
