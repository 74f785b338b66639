SPECIFICATION Spec
CONSTANTS
    Trees <- SafeTrees
    Names <- MCNames
    Class <- MCClass
    Lossy <- MCLossy
    Edits <- NewBytes
    CHUNK_SIZE = 2
    MAX_MANIFEST_LEN = 3
    MaxEdits = 1
    MaxDamage = 2
CHECK_DEADLOCK FALSE
INVARIANTS
    TypeOK
    ExtractExact
    RoundTrip
    LockedOpens
PROPERTIES
    NoTruncatedCopy
    Ends
