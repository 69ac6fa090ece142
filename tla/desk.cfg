SPECIFICATION DeskSpec
CONSTANTS
    Blocklist <- Prohibited
    Terms <- SlangTerms
    Meanings <- SlangMeanings
    Seed <- SeedFile
    MaxWrites = 3
    MaxFailures = 1
    PostTexts <- StoredTexts
    ListIds = {w1}
    TermSets <- Monitored
    BackfillLimit = 1
    MaxRequests = 2
    MaxStops = 1
    Words <- Samples
    MaxWords = 3
    Settings <- BothSettings
    Dictionary <- Slang
    Servers = {n1, n2}
    SessionKeys = {k1, k2}
    Tickets = {t1}
    MaxFaults = 1
    MaxRestarts = 1
    Charges = {c1, c2, c3}
    WriteLimit = 2
    Window = 2
    MaxCount = 3
    MaxTime = 4
    Catalogue <- SixRecords
    Limits = {1, 2}
INVARIANTS
    NoMatchMissed
    DecisionsTakeEffect
    
    SessionPromise
    NoLockout
    WalkIsComplete
CHECK_DEADLOCK FALSE
