SPECIFICATION Spec
CONSTANTS
    Requests = {q1, q2}
    Hashes = {h0, h1}
    Exports = {q1}
    Tries = 2
    First = None
    MaxId = 14
    Disturbances = {}
    MaxDisturbed = 0
    None = None
INVARIANT
    ChainVerifies
