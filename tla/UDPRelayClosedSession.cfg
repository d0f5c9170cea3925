\* Nothing removes a session from the table.
SPECIFICATION FairSpec
CONSTANTS
    Clients = {c1, c2}
    MaxFwds = 2
    NoKey = NoKey
    MaxConns = 1
    UDPTimeout = 1
    ClearRatio = 30
    MaxTime = 2
    MaxDatagrams = 2
PROPERTY ClosedSessionLeavesTable
