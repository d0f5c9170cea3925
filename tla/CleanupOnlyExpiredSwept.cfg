SPECIFICATION Spec
CONSTANTS
    TCPKeys = {}
    UDPKeys = {u1, u2}
    NoKey = NoKey
    TCPTimeout = 1
    UDPTimeout = 1
    ClearRatio = 30
    MinClear = 1
    MaxConns = 2
    DisableClear = FALSE
    MaxTime = 2
INVARIANT OnlyExpiredSwept
