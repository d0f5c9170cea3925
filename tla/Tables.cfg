\* CleanupManager: three UDP keys in a cache of two, so that a Put evicts
\* while the unlocked sweep runs.  LRUCache: the same keys, two timeouts, a
\* sweep of half and of none.  UDPManager: two addresses taken over.
\* FDManager: a descriptor that comes back twice, and one beside it.
SPECIFICATION TablesSpec
SYMMETRY KeySymmetry
CONSTANTS
    TCPKeys = {}
    UDPKeys = {u1, u2, u3}
    NoKey = NoKey
    TCPTimeout = 1
    UDPTimeout = 1
    ClearRatio = 2
    MinClear = 1
    MaxConns = 2
    DisableClear = FALSE
    MaxTime = 2
    TTLs = {1, 2}
    Ratios = {0, 2}
    MaxUses = 5
    Conns = {1, 2, 3, 4}
    Addr <- ConnAddr
    ListLimit = 3
    FDs = {3, 4}
    MaxIDs = 4
    MaxRefs = 2
INVARIANTS TablesTypeOK MapListAgree DeadlineOrder Capacity CallbackIffRemoved
INVARIANTS MapIsList CallbackPerNode RecencyOrder
INVARIANTS StrandedOnlyByStaleRemove IndexesAgree
PROPERTIES QuietAfterStop IDNamesOneFD
