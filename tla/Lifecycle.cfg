\* Main and a second goroutine stop the loop; the cleaner has a connection of
\* each protocol and more than one pass of the ticker; two goroutines are in
\* the handler's Stop beside the one in Run.
SPECIFICATION LifecycleSpec
CONSTANTS
    Users = {main, other}
    EnableTCP = TRUE
    EnableUDP = TRUE
    TCPKeys = {t1}
    UDPKeys = {u1}
    NoKey = nil
    TCPTimeout = 2
    UDPTimeout = 1
    ClearRatio = 30
    MinClear = 1
    MaxConns = 2
    DisableClear = FALSE
    MaxTime = 2
    Stoppers = {s1, s2}
    Runner = runner
    Nobody = nobody
    FlagSettings <- CommandLines
    FileSettings <- Files
\* A loop that has stopped, a handler that has exited and a program that has
\* its configuration are at rest.
CHECK_DEADLOCK FALSE
INVARIANTS LifecycleTypeOK ClosedOnce RunCleansUp OneLateInput WaitWaitsUnlessEarly
INVARIANTS ClosedSafely PanicsOnlyUnchecked LostOnlyToDefaults
PROPERTIES StopUnwinds ExpiredEventuallyCleaned StopEventuallyReturns HandlerExits
