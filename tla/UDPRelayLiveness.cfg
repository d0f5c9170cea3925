\* Two clients and a limit of one: what must happen in the end.
SPECIFICATION FairSpec
CONSTANTS
    Clients = {c1, c2}
    MaxFwds = 2
    NoKey = NoKey
    MaxConns = 1
    UDPTimeout = 1
    ClearRatio = 30
    MaxTime = 2
    MaxDatagrams = 2
PROPERTIES IdleSessionCloses ReaderExitsOnceAwake
