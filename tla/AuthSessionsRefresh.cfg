SPECIFICATION Spec
CONSTANTS
    Users = {u1}
    Requests = {r1, r2}
    Sessions = {s1, s2}
    Tokens = {t1, t2, t3, t4}
    None = None
    AllowMultipleSessions = TRUE
    MaxConcurrentSessions = 1
    AutoRevokeOldestSession = TRUE
    EnableReplayDetection = TRUE
    ReplayActionRevoke = TRUE
    ReplayActionLogout = TRUE
    RefreshTokenLifetime = 2
    GracePeriod = 1
    MaxTime = 1
SYMMETRY Symmetry
INVARIANTS
    RevokedTokenExplained
PROPERTIES
    SupersededStaysDead
    ImplementsLifecycle
