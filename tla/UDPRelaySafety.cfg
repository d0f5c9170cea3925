\* Two clients and a limit that has room for both.
SPECIFICATION Spec
SYMMETRY ClientSymmetry
CONSTANTS
    Clients = {c1, c2}
    MaxFwds = 2
    NoKey = NoKey
    MaxConns = 2
    UDPTimeout = 1
    ClearRatio = 30
    MaxTime = 2
    MaxDatagrams = 3
INVARIANTS TypeOK OneForwarderPerClient OpenIsTracked OneLateDelivery
