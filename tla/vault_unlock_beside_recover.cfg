SPECIFICATION Spec
CONSTANTS
    p1 = p1
    p2 = p2
    a = a
    b = b
    u1 = u1
    u2 = u2
    Procs <- TwoProcs
    Cmds <- UnlockBesideRecover
    Files <- TwoFiles
    Uuids <- TwoUuids
    Absent = Absent
    NoUuid = NoUuid
INVARIANTS
    NoDataLoss
