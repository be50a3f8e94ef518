SPECIFICATION MCSpec
CONSTANTS
    Users = {u1}
    Requests = {r1, r2}
    Sessions = {s1, s2, s3}
    Tokens = {t1, t2, t3}
    None = None
    AllowMultipleSessions = TRUE
    MaxConcurrentSessions = 1
    AutoRevokeOldestSession = FALSE
    EnableReplayDetection = TRUE
    ReplayActionRevoke = TRUE
    ReplayActionLogout = TRUE
    RefreshTokenLifetime = 1
    GracePeriod = 1
    MaxTime = 1
    loneRequest = loneRequest
SYMMETRY Symmetry
INVARIANTS
    OvershootBound
    SessionCapSerial
PROPERTIES
    DeactivationFinal
    DeliveredIsCurrentSerial
