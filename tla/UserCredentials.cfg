SPECIFICATION Spec
CONSTANTS
    Requests = {r1, r2}
    Tokens = {t1, t2, t3}
    Passwords = {p1, p2, p3}
    None = None
    CheckCount = 1
    KeepCount = 2
    InviteExpiry = 2
    ResetExpiry = 1
    MaxTime = 1
    MaxPasswords = 3
SYMMETRY Symmetry
INVARIANTS
    HistoryRemembers
    UseBound
    OutstandingBound
PROPERTIES
    ConsumedIsFinal
