SPECIFICATION PSpec
CONSTANTS
    p1 = p1
    a = a
    u1 = u1
    u2 = u2
    Procs <- OneProc
    Cmds <- AnyCommand
    Files <- OneFile
    Uuids <- TwoUuids
    Absent = Absent
    NoUuid = NoUuid
    SecureDelete = TRUE
SYMMETRY UuidSymmetry
INVARIANTS
    LossNeedsExposure
