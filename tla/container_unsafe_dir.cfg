SPECIFICATION Spec
CONSTANTS
    Trees <- EmptyUnsafeDir
    Names <- MCNames
    Class <- MCClass
    Lossy <- MCLossy
    Edits <- NewBytes
    CHUNK_SIZE = 2
    MAX_MANIFEST_LEN = 3
    MaxEdits = 0
    MaxDamage = 0
CHECK_DEADLOCK FALSE
INVARIANTS
    LockedOpens
