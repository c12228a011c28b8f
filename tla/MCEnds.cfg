SPECIFICATION Spec
CONSTANTS
    None = None
    MessageId = {m1, m2}
    Handler = {h1, h2}
    CacheSize = 2
    User = {u1, u2}
    Call = {c1}
    MaxMsg = 2
    Batch = 1
    Faults = {"fetch", "enqueue"}
    Socket = {s1, s2}
    MaxTyping = 3
    Dead = 4
    PresenceTtl = 3
    MaxMissed = 0
    MaxLogins = 0
PROPERTIES
    HandlersReturn
    DeliveryEnds
    TypingEnds
    PresenceFollows
CHECK_DEADLOCK FALSE
