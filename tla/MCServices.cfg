SPECIFICATION Spec
CONSTANTS
    User = {u1, u2}
    Emoji = {e1, e2}
    Request = {r1, r2, r3}
    MaxCalls = 4
    Worker = {w1, w2}
    None = None
    Nobody = Nobody
    Visit = {v1, v2}
    Receiver = {m1, m2, m3}
    Upload = {1, 2, 3}
    MaxVersion = 3
    Guest = {g1}
    MaxRooms = 1
    MaxSessions = 1
    MaxEnters = 2
    MaxRepeats = 1
    Throttle = {ip}
    Route = {name}
    Limit = 2
    Window = 3
    MaxCount = 3
SYMMETRY Symmetry
INVARIANTS
    OneReactionPerUser DeletedHasNone ViewIsTable
    UploadIsWhole UploadReplaces
    StartedReuses FinishedCloses NobodyLeftBehind
    FewerThanTwice CountIsRecent
CHECK_DEADLOCK FALSE
