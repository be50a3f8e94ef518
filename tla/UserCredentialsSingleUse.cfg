SPECIFICATION Spec
CONSTANTS
    Requests = {r1, r2}
    Tokens = {t1}
    Passwords = {p1, p2}
    None = None
    CheckCount = 1
    KeepCount = 2
    InviteExpiry = 2
    ResetExpiry = 1
    MaxTime = 0
    MaxPasswords = 2
INVARIANTS
    TokenSingleUse
