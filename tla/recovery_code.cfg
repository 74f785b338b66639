SPECIFICATION Spec
CONSTANTS
    SECRET_BYTES = 7
    CODE_DATA_CHARS = 12
    CODE_CHECK_CHARS = 4
    AccBits = 20
    Digest <- SomeDigest
    Secrets <- SomeSecrets
    Typos <- SomeTypos
    MaxEdits = 2
\* a code that has been submitted is done with
CHECK_DEADLOCK FALSE
INVARIANTS
    RoundTrip
    CodeIsBits
    AcceptedIsACode
