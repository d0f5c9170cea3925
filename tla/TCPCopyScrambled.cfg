\* One byte each way at once, and no faults.
SPECIFICATION Spec
CONSTANTS
    BufSize = 1
    MaxSent <- OneEach
    Faults = {}
\* A pair whose goroutines have returned is at rest.
CHECK_DEADLOCK FALSE
INVARIANT Faithful
