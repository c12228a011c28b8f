SPECIFICATION Spec
CONSTANTS
    User = {u1}
    Call = {c1, c2}
    Before = 1
    MaxMsg = 2
    MaxMarks = 2
    MaxUnread = 4
    Faults = {}
PROPERTY WatermarkNeverBackwards
CHECK_DEADLOCK FALSE
