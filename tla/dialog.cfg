SPECIFICATION FairSpec
CONSTANTS
    Modes = {"lock", "unlock", "delete", "setup"}
    InitHeaders <- SomeHeaders
    MaxAttempts = 3
    LockoutSecs = 2
    CountRange = 8
    MaxFail = 4
    MaxTime = 4
    MaxProgress = 1
\* a closed dialog is over
CHECK_DEADLOCK FALSE
INVARIANTS
    TypeOK
    OneOperation
    CanTypeAgain
    NoMoreThanMaxAttempts
PROPERTIES
    NoTearDown
    BusyEnds
    LockoutScreenEnds
