SPECIFICATION CodexSpec
CONSTANTS
    Asks = {1, 2, 3}
    Sockets = {s1, s2, s3}
    NoSocket = NoSocket
    MaxAtOnce = 2
    MaxBusiness = 3
INVARIANT
    ReuseHoldsEntry
CHECK_DEADLOCK FALSE
