SPECIFICATION Spec
CONSTANTS
    Records = {1}
    Workers = {w1, w2}
    Contents = {c1, c2}
    Rules = {k1}
    Matches <- MCMatches
    Empty = {}
    Oversized = {}
    MaxAttempts = 2
    MaxWaits = 2
    Disturbances = {"crash", "stop", "error", "lost_ack", "graph", "retry", "expiry"}
    MaxDisturbed = 3
    None = None
SYMMETRY Symmetry
INVARIANTS
    TypeOK
    AttemptsBounded
    CompletedIsIndexed
    NoDanglingReference
    BroadcastAtMostOnce
