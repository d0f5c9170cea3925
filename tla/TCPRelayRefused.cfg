\* A limit of one and two clients, one after the other.
SPECIFICATION Spec
CONSTANTS
    MaxSessions = 2
    MaxAccepts = 2
    MaxConns = 1
    TCPTimeout = 1
    ClearRatio = 30
    NoKey = NoKey
    MaxTime = 2
PROPERTY RefusedOnlyWhenFull
