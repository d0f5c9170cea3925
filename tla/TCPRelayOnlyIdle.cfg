\* A pair that keeps moving data, and nothing touches.
SPECIFICATION Spec
CONSTANTS
    MaxSessions = 2
    MaxAccepts = 2
    MaxConns = 1
    TCPTimeout = 1
    ClearRatio = 30
    NoKey = NoKey
    MaxTime = 2
PROPERTY OnlyIdleClosed
