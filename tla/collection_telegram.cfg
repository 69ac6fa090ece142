SPECIFICATION FairSpec
CONSTANTS
    Items <- MCItems
    Unsafe <- MCNone
    Procs = {p1}
    Retries = 1
    Disturbances = {}
    MaxDisturbed = 0
    Pages = {}
    Channels = {"channel"}
    Sources <- MCChannel
    Versions = 2
    Feed <- MCFeed
    Digest <- MCDigest
    Messages = 3
    Blank = {}
    None = None
PROPERTY
    MessageCollected
