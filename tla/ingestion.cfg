SPECIFICATION Spec

CONSTANTS
    None = None
    MAX_HOPS = 6
    Lossy <- MCLossy
    IsUtf8 <- MCIsUtf8
    Captures <- MCCaptures

INVARIANTS
    TypeOK
    NeverPanics
    WholePacketsRead
    GeneratedIsReadBack
    CutHelloNoOtherName

PROPERTIES
    BoundedWork
    NameReadRight

\* An ingest ends.
CHECK_DEADLOCK FALSE
