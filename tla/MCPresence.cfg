CONSTANTS
    s1 = s1
    s2 = s2
    Socket = {s1, s2}
    Dead = 4
    PresenceTtl = 3
    MaxMissed = 2
    MaxLogins = 1
SPECIFICATION Spec
INVARIANTS
    BeatingIsAlive
    PeersKnow
