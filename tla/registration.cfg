SPECIFICATION Spec
CONSTANTS
    p1 = p1
    p2 = p2
    A = A
    B = B
    Procs <- TwoProcs
    Exes <- TwoPlaces
    None = None
SYMMETRY Symmetric
INVARIANTS
    TypeOK
    RegistrationHeals
    MarkerVouches
