------------------------------ MODULE FDManager ------------------------------
(***************************************************************************)
(* Manager of internal/fd/manager.go: identifiers (fd64) that are never    *)
(* used twice stand for descriptors, which the operating system uses       *)
(* again.  Each method holds the mutex from its first line to its return,  *)
(* so that each is one step.  Of an unknown identifier every method        *)
(* reports an error and changes nothing.                                   *)
(***************************************************************************)
EXTENDS Integers, SequencesExt

CONSTANTS
    FDs,    \* descriptors
    MaxIDs, \* bound on nextID
    MaxRefs \* bound on the references to one identifier

VARIABLES
    nextID, \* the last identifier issued
    info,   \* fd64ToInfo: identifier -> its info
    byFD,   \* fdToInfo: descriptor -> the identifier of its info
    reused, \* history: Create was given a descriptor that was registered
    decd    \* history: DecRef was called

vars == <<nextID, info, byFD, reused, decd>>

Init ==
    /\ nextID = 0
    /\ info = <<>>
    /\ byFD = <<>>
    /\ reused = FALSE
    /\ decd = FALSE

With(table, key, entry) ==
    [k \in DOMAIN table \cup {key} |-> IF k = key THEN entry ELSE table[k]]

Without(table, key) == Restrict(table, DOMAIN table \ {key})

\* Mutant of Fresh: the number of identifiers in use, plus one.
FirstFree == Cardinality(DOMAIN info) + 1

Fresh == nextID + 1

\* An entry that fd still has in the second table is replaced.
Create(fd) ==
    LET id == Fresh IN
    /\ nextID < MaxIDs
    /\ nextID' = nextID + 1
    /\ info' = With(info, id, [fd |-> fd, isTCP |-> FALSE, refCnt |-> 1])
    /\ byFD' = With(byFD, fd, id)
    /\ reused' = (reused \/ \E other \in DOMAIN info : info[other].fd = fd)
    /\ UNCHANGED decd

\* SetTCP, SetUDP.
SetProto(id, isTCP) ==
    /\ id \in DOMAIN info
    /\ info' = [info EXCEPT ![id].isTCP = isTCP]
    /\ UNCHANGED <<nextID, byFD, reused, decd>>

IncRef(id) ==
    /\ id \in DOMAIN info
    /\ info[id].refCnt < MaxRefs
    /\ info' = [info EXCEPT ![id].refCnt = @ + 1]
    /\ UNCHANGED <<nextID, byFD, reused, decd>>

\* DecRef counts down and removes nothing, at zero and below.
DecRef(id) ==
    /\ id \in DOMAIN info
    /\ info[id].refCnt > -MaxRefs
    /\ info' = [info EXCEPT ![id].refCnt = @ - 1]
    /\ decd' = TRUE
    /\ UNCHANGED <<nextID, byFD, reused>>

\* Mutant of Close: it looks at the count it has found.
CloseLate(id) ==
    /\ id \in DOMAIN info
    /\ IF info[id].refCnt > 0
       THEN info' = [info EXCEPT ![id].refCnt = @ - 1] /\ UNCHANGED byFD
       ELSE info' = Without(info, id) /\ byFD' = Without(byFD, info[id].fd)
    /\ UNCHANGED <<nextID, reused, decd>>

\* The last reference takes the descriptor out of both tables, out of the
\* second one even when a newer identifier holds it there.
Close(id) ==
    /\ id \in DOMAIN info
    /\ IF info[id].refCnt > 1
       THEN info' = [info EXCEPT ![id].refCnt = @ - 1] /\ UNCHANGED byFD
       ELSE info' = Without(info, id) /\ byFD' = Without(byFD, info[id].fd)
    /\ UNCHANGED <<nextID, reused, decd>>

Next ==
    \/ \E fd \in FDs : Create(fd)
    \/ \E id \in 1 .. nextID :
        \/ \E isTCP \in BOOLEAN : SetProto(id, isTCP)
        \/ IncRef(id) \/ DecRef(id) \/ Close(id)

\* Every identifier within the bound was issued and closed.
Spent == nextID = MaxIDs /\ DOMAIN info = {}

Spec == Init /\ [][Next]_vars

-----------------------------------------------------------------------------
\* Every variable keeps its type.
TypeOK ==
    /\ nextID \in 0 .. MaxIDs
    /\ DOMAIN info \subseteq 1 .. nextID
    /\ \A id \in DOMAIN info :
        info[id] \in [fd : FDs, isTCP : BOOLEAN, refCnt : -MaxRefs .. MaxRefs]
    /\ DOMAIN byFD \subseteq FDs /\ Range(byFD) \subseteq 1 .. nextID
    /\ reused \in BOOLEAN /\ decd \in BOOLEAN

\* What the identifiers are for: one that was issued never names another
\* descriptor, not even after it was closed and the descriptor came back.
IDNamesOneFD ==
    [][\A id \in DOMAIN info' :
        id <= nextID => id \in DOMAIN info /\ info'[id].fd = info[id].fd]_vars

\* While no descriptor is registered twice the two tables hold the same
\* entries; while nobody calls DecRef each entry has a reference, so that the
\* Close that gives back the last one is the Close that removes it.
IndexesAgree ==
    /\ ~reused => /\ \A id \in DOMAIN info : byFD[info[id].fd] = id
                  /\ Range(byFD) = DOMAIN info
    /\ ~decd => \A id \in DOMAIN info : info[id].refCnt > 0

=============================================================================
