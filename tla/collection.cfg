SPECIFICATION FairSpec
CONSTANTS
    Items <- MCItems
    Unsafe <- MCUnsafe
    Procs = {p1}
    Retries = 1
    Disturbances = {"mongo", "redis", "lost_ack", "crash", "ttl", "forget", "source"}
    MaxDisturbed = 2
    Pages = {"page"}
    Channels = {"channel"}
    Sources <- MCSources
    Versions = 3
    Feed <- MCFeed
    Digest <- MCDigest
    Messages = 2
    Blank = {2}
    None = None
INVARIANTS
    TypeOK
    HandledIsStored
PROPERTY
    PageCollected
