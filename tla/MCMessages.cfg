SPECIFICATION Spec
CONSTANTS
    None = None
    MessageId = {m1, m2, m3}
    Handler = {h1, h2}
    Client = {c1}
    Limits = {1, 2}
    CacheSize = 2
    Faults = TRUE
SYMMETRY Symmetry
INVARIANTS
    TypeOK
    SequencesAreGapless
    PreviewIsNewest
    HistoryNeverSkips
PROPERTIES
    ImplementsLog
