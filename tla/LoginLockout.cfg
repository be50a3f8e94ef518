SPECIFICATION Spec
CONSTANTS
    Requests = {r1, r2, r3}
    None = None
    MaxFailedLoginAttempts = 2
    LockoutDuration = 2
    MaxTime = 3
    MaxFailures = 7
SYMMETRY Symmetry
INVARIANTS
    NoFailureLost
    GuessBound
PROPERTIES
    LockChangeExplained
