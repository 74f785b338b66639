SPECIFICATION Spec
CONSTANTS
    p1 = p1
    Procs <- OneProc
    InitHeaders <- AnyHeader
    MaxAttempts = 3
    LockoutSecs = 3
    MaxFail = 5
    MaxTime = 7
INVARIANTS
    TypeOK
    FullCountIsArmed
PROPERTIES
    RateLimit
    LockoutHolds
