SPECIFICATION Spec
CONSTANTS
    User = {u1, u2}
    Call = {c1}
    MaxMsg = 1
    Batch = 1
    Faults = {}

INVARIANTS
    OfflineAtBroadcastIsQueued
