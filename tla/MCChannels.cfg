CONSTANTS
    u1 = u1
    u2 = u2
    u3 = u3
    c1 = c1
    c2 = c2
    r1 = r1
    r2 = r2
    None = None
    User = {u1, u2, u3}
    Client = {u1}
    Channel = {c1, c2}
    Request = {r1, r2}
    MaxParticipants = 2
    MaxGroups = 1
    MaxOps = 2
    Faults = TRUE
SPECIFICATION Spec
SYMMETRY Symmetry
CHECK_DEADLOCK FALSE
INVARIANTS
    CacheFollowsRows
    RoomFollowsRows
    OneDirectPerPair
    CapOverrun
PROPERTIES
    AdminIsKept
