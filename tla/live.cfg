SPECIFICATION FairSpec
CONSTANTS
    Pages = {p1}
    Sockets = {s1, s2}
    MaxSockets = 1
    MaxAlerts = 1
    MaxPending = 2
    Disturbances = {"redis", "lost_ack", "relay", "slow", "cut", "http", "ticket", "crash"}
    MaxDisturbed = 1
    None = None
INVARIANTS
    TypeOK
    RegistryMatchesHandlers
    DeliveredOnce
PROPERTIES
    NeverStepsBack
    BroadcastIsReceived
    ConnectedCatchesUp
    Reconnects
