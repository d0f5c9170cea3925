------------------------------ MODULE UDPManager ------------------------------
(***************************************************************************)
(* UDPManager of internal/conn/udp.go: a map from addresses to UDPConns    *)
(* and a list of UDPConns.  Each method holds the mutex from its first     *)
(* line to its return, so that each is one step.  Get, Count, Iter and Len *)
(* change nothing.                                                         *)
(*                                                                         *)
(* The loop calls Add only (UDPRelay); the callers here use all of it, in  *)
(* any order: a UDPConn added twice, removed twice, or removed after       *)
(* another one was added for its address.                                  *)
(***************************************************************************)
EXTENDS Naturals, SequencesExt

CONSTANTS
    Conns,    \* UDPConns
    Addr,     \* Addr[c]: c.Addr, which nothing changes
    MaxConns  \* maxConns

VARIABLES
    byAddr,   \* addrToConn
    list,     \* connList
    foreign   \* history: Remove was given a conn the map does not hold

vars == <<byAddr, list, foreign>>

Init ==
    /\ byAddr = <<>>
    /\ list = <<>>
    /\ foreign = FALSE

\* What Get finds.
Found == Range(byAddr)

\* Add refuses a full list and an address that is known.
Add(c) ==
    /\ Len(list) < MaxConns
    /\ Addr[c] \notin DOMAIN byAddr
    /\ byAddr' = [a \in DOMAIN byAddr \cup {Addr[c]} |-> IF a = Addr[c] THEN c ELSE byAddr[a]]
    /\ list' = Append(list, c)
    /\ UNCHANGED foreign

\* Mutant of SwapAndPop: the last conn is dropped instead of moved.
PopOnly(s, i) == Front(s)

\* The last conn takes the place of the one at i.
SwapAndPop(s, i) == Front([s EXCEPT ![i] = Last(s)])

Unlist(s, c) ==
    IF Contains(s, c) THEN SwapAndPop(s, SelectInSeq(s, LAMBDA x : x = c)) ELSE s

\* The address is deleted whoever holds it.
RemoveConn(c) ==
    /\ byAddr' = Restrict(byAddr, DOMAIN byAddr \ {Addr[c]})
    /\ list' = Unlist(list, c)
    /\ foreign' = (foreign \/ c \notin Found)

Next == \E c \in Conns : Add(c) \/ RemoveConn(c)

Spec == Init /\ [][Next]_vars

-----------------------------------------------------------------------------
\* Every variable keeps its type.
TypeOK ==
    /\ DOMAIN byAddr \subseteq Range(Addr)
    /\ Found \subseteq Conns
    /\ list \in Seq(Conns)
    /\ foreign \in BOOLEAN

\* Whatever was removed before and in whatever order, a conn that Get finds is
\* in the list, so that Count counts it and Iter reaches it, and the list is
\* not longer than maxConns.  Only a Remove of a conn the map does not hold (its
\* address was taken over by another, udp.go:142) leaves a conn in the list
\* that Get does not find and that keeps its place under maxConns; without one
\* list and map hold the same conns, each once.
StrandedOnlyByStaleRemove ==
    /\ Found \subseteq ToSet(list)
    /\ Len(list) <= MaxConns
    /\ ~foreign => IsInjective(list) /\ ToSet(list) = Found

=============================================================================
