SPECIFICATION Spec
CONSTANTS
    Requests = {q1, q2, q3}
    Hashes = {h0, h1, h2, h3}
    Exports = {q1}
    Tries = 2
    First = h0
    MaxId = 14
    Disturbances = {"audit", "error", "lost_ack", "crash"}
    MaxDisturbed = 1
    None = None
SYMMETRY Symmetry
INVARIANTS
    TypeOK
    ChainVerifies
    DeliveredIsSealed
    ConflictMeansContention
PROPERTY
    ImplementsLog
