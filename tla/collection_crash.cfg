SPECIFICATION Spec
CONSTANTS
    Items <- MCItems
    Unsafe <- MCNone
    Procs = {p1}
    Retries = 1
    Disturbances = {"crash"}
    MaxDisturbed = 1
    Pages = {"page"}
    Channels = {}
    Sources <- MCPage
    Versions = 2
    Feed <- MCFeed
    Digest <- MCDigest
    Messages = 0
    Blank = {}
    None = None
INVARIANT
    CrashSkipsNothing
