SPECIFICATION Spec
CONSTANTS
    p1 = p1
    p2 = p2
    k1 = k1
    k2 = k2
    m1 = m1
    m2 = m2
    m3 = m3
    Procs <- TwoProcs
    InstallKeys <- TwoKeys
    MasterKeys <- ThreeMasters
    NoKey = NoKey
SYMMETRY Symmetric
INVARIANTS
    TypeOK
    CodeIsKnown
    OneInstallKey
