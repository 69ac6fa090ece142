SPECIFICATION FairSpec
CONSTANTS
    Urls = {1, 2, 3, 4, 5}
    Seed = 1
    Links <- MCLinks
    Plain = {}
    Blank = {5}
    MaxDepth = 2
    MaxPages = 5
    Versions = 2
    Changing = {2}
    Items <- MCItems
    Unsafe <- MCUnsafe
    Procs = {p1}
    Retries = 1
    Disturbances = {"mongo", "redis", "lost_ack", "crash", "ttl", "forget", "source"}
    MaxDisturbed = 1
    None = None
INVARIANTS
    HandledIsStored
    NearestFirst
    ScopeExhausted
PROPERTY
    PageCollected
