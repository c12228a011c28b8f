SPECIFICATION Spec
CONSTANTS
    User = {u1, u2}
    CallId = {k1, k2}
    Request = {r1, r2}
    MaxInvites = 2
    Faults = TRUE
    None = None
SYMMETRY Symmetry
INVARIANTS TypeOK SignalsStayInCall EndedWasAccepted KeyLivesWithCall
CHECK_DEADLOCK FALSE
