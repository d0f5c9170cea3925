------------------------------- MODULE LRUCache -------------------------------
(***************************************************************************)
(* internal/lru/cache.go as its callers see it: each exported method is    *)
(* one atomic step, because it holds the mutex from its first line to its  *)
(* return.  (RemoveExpiredRatio holds no mutex: here one goroutine calls   *)
(* it, and CleanupManager models what happens when others do.)             *)
(*                                                                         *)
(* Unlike the relays, which give every node of a cache the same timeout    *)
(* and never call Get, the callers here use the whole interface: any ttl,  *)
(* a key put again, Get and Clear.                                         *)
(***************************************************************************)
EXTENDS LRU

CONSTANTS
    Keys,     \* keys
    TTLs,     \* the ttl arguments of Put and Touch
    Ratios,   \* the ratio arguments of RemoveExpiredRatio
    MinCount, \* its minCount argument
    MaxSize,  \* capacity, 0 = unlimited
    MaxTime,  \* bound on the clock
    MaxUses   \* bound on the number of calls that use a key

VARIABLES
    li,       \* the linked list, front first
    mp,       \* the keys of the map
    exp,      \* exp[k]: expTime of k's node
    now,      \* the clock
    uses,     \* history: how many calls used a key
    lastUse,  \* history: the call that used k last
    inserted, \* history: how often Put made a new node for k
    cleaned   \* history: how often the cleanup callback ran for k

cache == <<li, mp, exp>>
vars == <<cache, now, uses, lastUse, inserted, cleaned>>

Init ==
    /\ li = <<>>
    /\ mp = {}
    /\ exp = [k \in Keys |-> 0]
    /\ now = 0
    /\ uses = 0
    /\ lastUse = [k \in Keys |-> 0]
    /\ inserted = [k \in Keys |-> 0]
    /\ cleaned = [k \in Keys |-> 0]

Uses(k) ==
    /\ uses < MaxUses
    /\ uses' = uses + 1
    /\ lastUse' = [lastUse EXCEPT ![k] = uses + 1]

RunCallbacks(S) == cleaned' = [k \in Keys |-> IF k \in S THEN cleaned[k] + 1 ELSE cleaned[k]]

-----------------------------------------------------------------------------
\* Mutant of Get: the use does not move the node.
GetInPlace(k) ==
    /\ k \in mp
    /\ Uses(k)
    /\ UNCHANGED <<cache, now, inserted, cleaned>>

\* Get, GetTS: an unknown key changes nothing; the expTime is left as it is.
Get(k) ==
    /\ k \in mp
    /\ Uses(k)
    /\ li' = MoveToFront(li, k)
    /\ UNCHANGED <<mp, exp, now, inserted, cleaned>>

\* Mutant of Touch: the ttl is subtracted.
TouchBackdates(k, ttl) ==
    /\ k \in mp
    /\ Uses(k)
    /\ exp' = [exp EXCEPT ![k] = now - ttl]
    /\ li' = MoveToFront(li, k)
    /\ UNCHANGED <<mp, now, inserted, cleaned>>

\* Touch; also Put of a key that is there, but for the value.
Touch(k, ttl) ==
    /\ k \in mp
    /\ Uses(k)
    /\ exp' = [exp EXCEPT ![k] = now + ttl]
    /\ li' = MoveToFront(li, k)
    /\ UNCHANGED <<mp, now, inserted, cleaned>>

PutNew(k, ttl) ==
    LET pushed == PushFront(li, k)
        out == Evicted(pushed, MaxSize)
    IN
    /\ k \notin mp
    /\ Uses(k)
    /\ exp' = [exp EXCEPT ![k] = now + ttl]
    /\ li' = Trimmed(pushed, MaxSize)
    /\ mp' = (mp \cup {k}) \ out
    /\ inserted' = [inserted EXCEPT ![k] = @ + 1]
    /\ RunCallbacks(out)
    /\ UNCHANGED now

Put(k, ttl) == PutNew(k, ttl) \/ Touch(k, ttl)

\* Mutant of RemoveKey: the map keeps the key.
RemoveKeepsMap(k) ==
    /\ k \in mp
    /\ li' = Without(li, k)
    /\ RunCallbacks({k})
    /\ UNCHANGED <<mp, exp, now, uses, lastUse, inserted>>

\* Remove; an unknown key is an error that changes nothing.
RemoveKey(k) ==
    /\ k \in mp
    /\ li' = Without(li, k)
    /\ mp' = mp \ {k}
    /\ RunCallbacks({k})
    /\ UNCHANGED <<exp, now, uses, lastUse, inserted>>

\* n nodes popped from the back, each with its callback.
PopBack(n) ==
    LET kept == SubSeq(li, 1, Len(li) - n)
        out == ToSet(SubSeq(li, Len(li) - n + 1, Len(li)))
    IN
    /\ li' = kept
    /\ mp' = mp \ out
    /\ RunCallbacks(out)
    /\ UNCHANGED <<exp, now, uses, lastUse, inserted>>

RemoveExpired == PopBack(ExpiredTail(li, exp, now))

RemoveExpiredRatio(ratio) ==
    LET quota == CleanQuota(Len(li), ratio, MinCount)
        expired == ExpiredTail(li, exp, now)
    IN PopBack(IF expired < quota THEN expired ELSE quota)

\* Mutant of Clear: no callback.
ClearSilently ==
    /\ li' = <<>>
    /\ mp' = {}
    /\ UNCHANGED <<exp, now, uses, lastUse, inserted, cleaned>>

\* Clear calls back every node, then starts from an empty map and list.
Clear ==
    /\ li' = <<>>
    /\ mp' = {}
    /\ RunCallbacks(ToSet(li))
    /\ UNCHANGED <<exp, now, uses, lastUse, inserted>>

ClockTick ==
    /\ now < MaxTime
    /\ now' = now + 1
    /\ UNCHANGED <<cache, uses, lastUse, inserted, cleaned>>

Next ==
    \/ \E k \in Keys : Get(k) \/ RemoveKey(k)
    \/ \E k \in Keys, ttl \in TTLs : Put(k, ttl)
    \/ RemoveExpired
    \/ \E ratio \in Ratios : RemoveExpiredRatio(ratio)
    \/ Clear
    \/ ClockTick

Spec == Init /\ [][Next]_vars

-----------------------------------------------------------------------------
\* Every variable keeps its type.
TypeOK ==
    /\ li \in Seq(Keys)
    /\ mp \subseteq Keys
    /\ exp \in [Keys -> Nat]
    /\ now \in Nat
    /\ uses \in Nat
    /\ lastUse \in [Keys -> Nat]
    /\ inserted \in [Keys -> Nat]
    /\ cleaned \in [Keys -> Nat]

\* The map finds exactly the nodes of the list, and no key has two nodes.
MapIsList == Distinct(li) /\ mp = ToSet(li)

\* Whatever the calls, a node that Put made is in the cache or had its
\* cleanup callback exactly once (Put's eviction, Remove, both sweeps, Clear):
\* what the relays rely on to close every connection once.
CallbackPerNode ==
    \A k \in Keys : inserted[k] = cleaned[k] + (IF k \in mp THEN 1 ELSE 0)

\* The list is in the order of last use, so that the nodes Put evicts at
\* capacity are the ones least recently used, whatever their deadlines.
RecencyOrder == \A i, j \in DOMAIN li : i < j => lastUse[li[i]] > lastUse[li[j]]

=============================================================================
