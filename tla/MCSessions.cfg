CONSTANTS
    n1 = n1
    n2 = n2
    r1 = r1
    r2 = r2
    r3 = r3
    None = None
    N = 23
    G = 2
    K = 3
    Name = {n1, n2}
    Request = {r1, r2, r3}
    Password = {4, 7}
    ClientSecrets = {5, 9}
    ServerSecrets = {6, 8}
    MaxLogins = 2
    MaxRefreshes = 2
    MaxLogouts = 1
SPECIFICATION Spec
SYMMETRY Symmetry
CHECK_DEADLOCK FALSE
INVARIANTS
    RightPasswordAccepted
    HandshakeUsedOnce
    OneTokenPerSession
    LogoutEndsSessions
PROPERTIES
    AccountIsKept
