SPECIFICATION FairSpec
CONSTANTS
    Records = {1, 2}
    Workers = {w1}
    Contents = {c1, c2}
    Rules = {k1}
    Matches <- MCMatches
    Empty = {}
    Oversized = {2}
    MaxAttempts = 2
    MaxWaits = 2
    Disturbances = {"crash", "stop", "error", "graph", "retry"}
    MaxDisturbed = 3
    None = None
INVARIANTS
    NoRecordStranded
    WaitedRecordsAgree
    OutageNeverBurnsAttempts
PROPERTIES
    TtlSparesUnfinished
    ImplementsLifecycle
    EventuallyResolved
