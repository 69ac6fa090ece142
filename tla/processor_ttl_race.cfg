SPECIFICATION Spec
CONSTANTS
    Records = {1}
    Workers = {w1, w2}
    Contents = {c1}
    Rules = {}
    Matches <- MCMatches
    Empty = {}
    Oversized = {}
    MaxAttempts = 2
    MaxWaits = 2
    Disturbances = {"error"}
    MaxDisturbed = 1
    None = None
PROPERTY
    TtlSparesLeftover
