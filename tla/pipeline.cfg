SPECIFICATION PipeSpec
CONSTANTS
    Items = {i1, i2}
    Unsafe = {i2}
    Procs = {p1, p2, p3}
    Retries = 2
    Disturbances = {"mongo", "redis", "lost_ack", "crash", "ttl", "forget"}
    MaxDisturbed = 4
    None = None
SYMMETRY Symmetry
INVARIANTS
    PipeTypeOK
    DoneMeansInserted
    PublishedOncePerInsert
    PendingHasOwner
