\* TCPRelay: three connections for a limit of two, with the scheduling of the Go
\* runtime.  TCPCopy: a buffer of two and every fault.  TCPForwarderManager: two
\* forwarders and two goroutines.
SPECIFICATION ForwardingSpec
CONSTANTS
    MaxSessions = 3
    MaxAccepts = 3
    MaxConns = 2
    TCPTimeout = 1
    ClearRatio = 30
    NoKey = NoKey
    MaxTime = 1
    BufSize = 2
    MaxSent <- RemoteFillsBuffer
    Faults = {"timedout", "down"}
    Fwds = {f1, f2}
    Callers = {g1, g2}
\* A pair whose goroutines have returned is at rest, and so is a CloseAll that
\* has locked itself out.
CHECK_DEADLOCK FALSE
INVARIANTS ForwardingTypeOK OpenIsTracked
INVARIANTS IntactUnlessShared OnCloseOnce InTableUntilClosed
PROPERTIES ImplementsSessions ExpiredSessionCloses CopiersExit
PROPERTIES DeliveredUnlessCut CallsReturn
