-------------------------------- MODULE Tables --------------------------------
(***************************************************************************)
(* The four tables of the program, which share no state: the caches under  *)
(* the cleaner (CleanupManager), a cache called in every way (LRUCache),   *)
(* the UDP connection manager and the descriptor manager.  Init chooses    *)
(* the one that moves (part), the others stay as they are, so that the     *)
(* behaviours are those of the four modules, side by side.                 *)
(***************************************************************************)
EXTENDS CleanupManager

CONSTANTS
    TTLs, Ratios, MaxUses,   \* of C
    Conns, Addr, ListLimit,  \* of U
    FDs, MaxIDs, MaxRefs     \* of F

\* Validate wants a limit and a ratio that are positive; it does not look at
\* the timeouts, of which a negative one is left out.
ASSUME TTLsNat == TTLs \subseteq Nat
ASSUME RatiosInt == Ratios \subseteq Int
ASSUME ListLimitNat == ListLimit \in Nat
ASSUME AddrOfConns == Conns \subseteq DOMAIN Addr
ASSUME TableBounds == MaxUses \in Nat /\ MaxIDs \in Nat /\ MaxRefs \in Nat \ {0}

VARIABLES
    part,                               \* the table that moves
    cLi, cMp, cExp, cNow,               \* of C
    uses, lastUse, inserted, cCleaned,
    byAddr, list, foreign,              \* of U
    nextID, info, byFD, reused, decd    \* of F

cVars == <<cLi, cMp, cExp, cNow, uses, lastUse, inserted, cCleaned>>
uVars == <<byAddr, list, foreign>>
fVars == <<nextID, info, byFD, reused, decd>>

C == INSTANCE LRUCache WITH
        Keys <- UDPKeys, MinCount <- MinClear, MaxSize <- MaxConns,
        li <- cLi, mp <- cMp, exp <- cExp, now <- cNow, cleaned <- cCleaned

U == INSTANCE UDPManager WITH MaxConns <- ListLimit

F == INSTANCE FDManager

TablesInit ==
    /\ part \in {"CleanupManager", "LRUCache", "UDPManager", "FDManager"}
    /\ Init /\ C!Init /\ U!Init /\ F!Init

\* Every identifier was issued and closed: nothing is left to call.
AllClosed == F!Spent /\ UNCHANGED fVars

TablesNext ==
    /\ UNCHANGED part
    /\ \/ part = "CleanupManager" /\ Next /\ UNCHANGED <<cVars, uVars, fVars>>
       \/ part = "LRUCache" /\ C!Next /\ UNCHANGED <<vars, uVars, fVars>>
       \/ part = "UDPManager" /\ U!Next /\ UNCHANGED <<vars, cVars, fVars>>
       \/ part = "FDManager" /\ (F!Next \/ AllClosed) /\ UNCHANGED <<vars, cVars, uVars>>

TablesSpec == TablesInit /\ [][TablesNext]_<<part, vars, cVars, uVars, fVars>>

\* Every variable of the four tables keeps its type.
TablesTypeOK == TypeOK /\ C!TypeOK /\ U!TypeOK /\ F!TypeOK

\* LRUCache: map and list hold the same keys, each once (lru/cache.go).
MapIsList == C!MapIsList

\* LRUCache: one cleanup callback for each node that left (lru/cache.go).
CallbackPerNode == C!CallbackPerNode

\* LRUCache: the list is in the order of last use (lru/cache.go).
RecencyOrder == C!RecencyOrder

\* UDPManager: list and map agree but for the conns left behind by a Remove of
\* a conn whose address another has taken over (conn/udp.go:106-155).
StrandedOnlyByStaleRemove == U!StrandedOnlyByStaleRemove

\* FDManager: an identifier never names a second descriptor (fd/manager.go:58).
IDNamesOneFD == F!IDNamesOneFD

\* FDManager: the two tables agree unless a descriptor was registered twice
\* (fd/manager.go:67-68, 210-211).
IndexesAgree == F!IndexesAgree

=============================================================================
