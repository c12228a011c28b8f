SPECIFICATION Spec
CONSTANTS
    User = {u1, u2}
    Call = {c1, c2}
    Before = 1
    MaxMsg = 3
    MaxMarks = 3
    MaxUnread = 4
    Faults = {"redis", "stall", "crash"}
SYMMETRY Symmetry
INVARIANTS TypeOK WatermarkHasReceipt
PROPERTY OnlyYoungerIsOverwritten
CHECK_DEADLOCK FALSE
