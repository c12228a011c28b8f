SPECIFICATION Spec
CONSTANTS
    User = {u1, u2}
    Call = {c1, c2}
    MaxMsg = 2
    Batch = 1
    Faults = {"fetch", "enqueue", "stall", "redis", "crash"}
SYMMETRY Symmetry
INVARIANTS
    NothingElseIsLost
    QueuedIsKept
