SPECIFICATION Spec
CONSTANTS
    None = None
    MessageId = {m1, m2, m3}
    Handler = {h1, h2}
    Client = {}
    Limits = {1, 2}
    CacheSize = 2
    Faults = FALSE
SYMMETRY Symmetry
INVARIANTS
    DeletedIsNotCached
