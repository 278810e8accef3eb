SPECIFICATION Spec

CONSTANTS
    None = None
    MAX_HOPS = 6
    Lossy <- MCLossy
    IsUtf8 <- MCIsUtf8
    Captures <- MCBigEndian

INVARIANT EveryByteOrderIsRead

CHECK_DEADLOCK FALSE
