---------------------------- MODULE CleanupManager ----------------------------
(***************************************************************************)
(* internal/cleanup/manager.go over two caches of internal/lru/cache.go,   *)
(* one for TCP connection pairs and one for UDP forwarders.                *)
(*                                                                         *)
(* Two kinds of goroutines work on a cache.  The event-loop goroutines     *)
(* call AddTCP, AddUDP, TouchUDP, ... which take the cache's mutex: a call *)
(* is a Lock step and an Unlock step that does the work.  The cleanup      *)
(* goroutine runs RemoveExpiredRatio, which takes NO lock: every access it *)
(* makes to the map and the list is a step of its own, and may fall inside *)
(* another goroutine's critical section.                                   *)
(***************************************************************************)
EXTENDS LRU

CONSTANTS
    TCPKeys,      \* the *TCPConn pointers used as keys of tcpLRU
    UDPKeys,      \* the *UDPForwarder pointers used as keys of udpLRU
    TCPTimeout,   \* cfg.TCPTimeout, in ticks of the clock
    UDPTimeout,   \* cfg.UDPTimeout
    ClearRatio,   \* cfg.ClearRatio
    MinClear,     \* NewLoop passes 1
    MaxConns,     \* capacity of each cache, 0 = unlimited
    DisableClear, \* cfg.DisableClear
    NoKey,        \* no key: nil
    MaxTime       \* bound on the clock

ASSUME KeysDisjoint == TCPKeys \cap UDPKeys = {} /\ NoKey \notin TCPKeys \cup UDPKeys
ASSUME TimeoutsNat  == TCPTimeout \in Nat /\ UDPTimeout \in Nat
ASSUME ClearParams  == /\ ClearRatio \in Nat \ {0} /\ MinClear \in Nat \ {0}
                       /\ MaxConns \in Nat /\ DisableClear \in BOOLEAN
ASSUME ClockBound   == MaxTime \in Nat

Keys  == TCPKeys \cup UDPKeys
Proto == {"tcp", "udp"}

KeysOf(p)    == IF p = "tcp" THEN TCPKeys ELSE UDPKeys
TimeoutOf(p) == IF p = "tcp" THEN TCPTimeout ELSE UDPTimeout

NoTick == -1

\* A call that holds a cache's mutex, or none.
Free  == [op |-> "free", key |-> NoKey]
Ops   == {"put", "touch", "remove"}
Calls == [op : Ops \cup {"free"}, key : Keys \cup {NoKey}]

\* The cleanup goroutine: not started, in its select, at each access of
\* RemoveExpiredRatio, returned.
VictimSteps == {"check", "unmap", "unlink", "callback"}
SweepSteps == {"quota", "back"} \cup VictimSteps
PC == {"none", "select", "exited"} \cup SweepSteps

VARIABLES
    li,       \* li[p]: the linked list of the cache of p
    mp,       \* mp[p]: the keys of its map
    exp,      \* exp[k]: expTime of k's node
    used,     \* keys Put so far: a pointer is never put again
    holder,   \* holder[p]: the call inside the mutex of cache p
    cleaned,  \* cleaned[k]: how often the cleanup callback ran for k
    now,      \* the clock
    tick,     \* the ticker channel, which buffers one tick
    pc,       \* the cleanup goroutine
    sweepNow, \* `now` argument of Cleanup, 0 outside it
    proto,    \* the cache being swept
    quota,    \* numToClean - i
    victim,   \* elem of RemoveExpiredRatio
    stopped,  \* stopCh is closed
    stopper,  \* the goroutine in Stop
    crashed   \* a data race ended the process (or tore a list)

cacheVars == <<li, mp, exp, used, holder, cleaned>>
sweepVars == <<pc, sweepNow, proto, quota, victim>>
stopVars  == <<stopped, stopper>>
vars == <<cacheVars, now, tick, sweepVars, stopVars, crashed>>

Init ==
    /\ li = [p \in Proto |-> <<>>]
    /\ mp = [p \in Proto |-> {}]
    /\ exp = [k \in Keys |-> 0]
    /\ used = {}
    /\ holder = [p \in Proto |-> Free]
    /\ cleaned = [k \in Keys |-> 0]
    /\ now = 0
    /\ tick = NoTick
    /\ pc = "none"
    /\ sweepNow = 0
    /\ proto = "tcp"
    /\ quota = 0
    /\ victim = NoKey
    /\ stopped = FALSE
    /\ stopper = "idle"
    /\ crashed = FALSE

-----------------------------------------------------------------------------
\* Calls of the event loop: Put, Touch and Remove under the cache's mutex.

Lock(p, op, k) ==
    /\ ~crashed
    /\ holder[p] = Free
    /\ op = "put" => k \notin used
    /\ op # "put" => k \in used
    /\ holder' = [holder EXCEPT ![p] = [op |-> op, key |-> k]]
    /\ UNCHANGED <<li, mp, exp, used, cleaned, now, tick, sweepVars, stopVars, crashed>>

\* The callback of removeBack and Remove runs inside the critical section.
RunCallbacks(S) == cleaned' = [k \in Keys |-> IF k \in S THEN cleaned[k] + 1 ELSE cleaned[k]]

Unlock(p) ==
    /\ holder' = [holder EXCEPT ![p] = Free]
    /\ UNCHANGED <<now, tick, sweepVars, stopVars, crashed>>

\* Mutant of Put: the timeout is subtracted.
PutBackdates(p) ==
    LET k == holder[p].key
        pushed == PushFront(li[p], k)
    IN
    /\ ~crashed
    /\ holder[p].op = "put"
    /\ li' = [li EXCEPT ![p] = Trimmed(pushed, MaxConns)]
    /\ mp' = [mp EXCEPT ![p] = (mp[p] \cup {k}) \ Evicted(pushed, MaxConns)]
    /\ exp' = [exp EXCEPT ![k] = now - TimeoutOf(p)]
    /\ used' = used \cup {k}
    /\ RunCallbacks(Evicted(pushed, MaxConns))
    /\ Unlock(p)

\* AddTCP, AddUDP: Cache.Put of a new key, which may evict from the back.
Put(p) ==
    LET k == holder[p].key
        pushed == PushFront(li[p], k)
        kept == Trimmed(pushed, MaxConns)
    IN
    /\ ~crashed
    /\ holder[p].op = "put"
    /\ li' = [li EXCEPT ![p] = kept]
    /\ mp' = [mp EXCEPT ![p] = (mp[p] \cup {k}) \ Evicted(pushed, MaxConns)]
    /\ exp' = [exp EXCEPT ![k] = now + TimeoutOf(p)]
    /\ used' = used \cup {k}
    /\ RunCallbacks(Evicted(pushed, MaxConns))
    /\ Unlock(p)

\* Mutant of Touch: the timeout is subtracted.
TouchBackdates(p) ==
    /\ ~crashed
    /\ holder[p].op = "touch"
    /\ exp' = [exp EXCEPT ![holder[p].key] = now - TimeoutOf(p)]
    /\ UNCHANGED <<li, mp, used, cleaned>>
    /\ Unlock(p)

\* TouchTCP, TouchUDP: Cache.Touch; an unknown key is an ignored error.
Touch(p) ==
    LET k == holder[p].key IN
    /\ ~crashed
    /\ holder[p].op = "touch"
    /\ IF k \in mp[p]
         THEN /\ li' = [li EXCEPT ![p] = MoveToFront(li[p], k)]
              /\ exp' = [exp EXCEPT ![k] = now + TimeoutOf(p)]
         ELSE UNCHANGED <<li, exp>>
    /\ UNCHANGED <<mp, used, cleaned>>
    /\ Unlock(p)

\* RemoveTCP, RemoveUDP: Cache.Remove; an unknown key is an ignored error.
RemoveKey(p) ==
    LET k == holder[p].key IN
    /\ ~crashed
    /\ holder[p].op = "remove"
    /\ IF k \in mp[p]
         THEN /\ li' = [li EXCEPT ![p] = Without(li[p], k)]
              /\ mp' = [mp EXCEPT ![p] = mp[p] \ {k}]
              /\ RunCallbacks({k})
         ELSE UNCHANGED <<li, mp, cleaned>>
    /\ UNCHANGED <<exp, used>>
    /\ Unlock(p)

-----------------------------------------------------------------------------
\* The clock and the ticker of cleanupLoop.

ClockTick ==
    /\ ~crashed
    /\ now < MaxTime
    /\ now' = now + 1
    /\ UNCHANGED <<cacheVars, tick, sweepVars, stopVars, crashed>>

\* time.Ticker sends on a channel of capacity 1 and drops a tick nobody took.
TickerFires ==
    /\ ~crashed
    /\ pc \notin {"none", "exited"}
    /\ tick = NoTick
    /\ tick' = now
    /\ UNCHANGED <<cacheVars, now, sweepVars, stopVars, crashed>>

-----------------------------------------------------------------------------
\* The cleanup goroutine.

\* Start: the goroutine is created and reaches its select.
Start ==
    /\ ~crashed
    /\ pc = "none"
    /\ pc' = "select"
    /\ UNCHANGED <<cacheVars, now, tick, sweepNow, proto, quota, victim, stopVars, crashed>>

\* The stopCh case of the select.
LoopQuits ==
    /\ ~crashed
    /\ pc = "select"
    /\ stopped
    /\ pc' = "exited"
    /\ UNCHANGED <<cacheVars, now, tick, sweepNow, proto, quota, victim, stopVars, crashed>>

\* The ticker case: Cleanup(now), which returns at once when it is disabled.
LoopTicks ==
    /\ ~crashed
    /\ pc = "select"
    /\ tick # NoTick
    /\ tick' = NoTick
    /\ IF DisableClear
         THEN UNCHANGED <<pc, proto, sweepNow>>
         ELSE pc' = "quota" /\ proto' = "tcp" /\ sweepNow' = tick
    /\ UNCHANGED <<cacheVars, now, quota, victim, stopVars, crashed>>

\* RemoveExpiredRatio returns: Cleanup goes on to udpLRU after tcpLRU.
SweepReturns ==
    /\ IF proto = "tcp"
         THEN pc' = "quota" /\ proto' = "udp"
         ELSE pc' = "select" /\ UNCHANGED proto
    /\ quota' = 0
    /\ victim' = NoKey
    /\ sweepNow' = IF proto = "tcp" THEN sweepNow ELSE 0

SweepQuota ==
    LET n == CleanQuota(Len(li[proto]), ClearRatio, MinClear) IN
    /\ ~crashed
    /\ pc = "quota"
    /\ IF n = 0
         THEN SweepReturns
         ELSE pc' = "back" /\ quota' = n /\ UNCHANGED <<proto, victim, sweepNow>>
    /\ UNCHANGED <<cacheVars, now, tick, stopVars, crashed>>

\* An unlocked access that falls inside another goroutine's critical section
\* is a data race.  Its outcomes are the one of some serial order, which the
\* other actions produce, or the end of what can be modelled: the runtime
\* ends the process ("concurrent map writes"), or the list is torn.  `crashed`
\* stands for both.
Races == holder[proto] # Free

\* elem := c.li.Back(); a race with the removal of the last node can find the
\* list's nil root element, whose type assertion panics.
SweepBack ==
    /\ ~crashed
    /\ pc = "back"
    /\ IF quota = 0 \/ li[proto] = <<>>
         THEN SweepReturns /\ UNCHANGED crashed
         ELSE /\ pc' = "check"
              /\ victim' = Last(li[proto])
              /\ crashed' \in {FALSE, holder[proto].op = "remove"}
              /\ UNCHANGED <<proto, quota, sweepNow>>
    /\ UNCHANGED <<cacheVars, now, tick, stopVars>>

\* if n.expTime.After(now) { break }
SweepCheck ==
    /\ ~crashed
    /\ pc = "check"
    /\ IF exp[victim] > sweepNow
         THEN SweepReturns
         ELSE pc' = "unmap" /\ UNCHANGED <<proto, quota, victim, sweepNow>>
    /\ UNCHANGED <<cacheVars, now, tick, stopVars, crashed>>

\* delete(c.mp, n.key)
SweepUnmap ==
    /\ ~crashed
    /\ pc = "unmap"
    /\ pc' = "unlink"
    /\ mp' = [mp EXCEPT ![proto] = @ \ {victim}]
    /\ crashed' \in {FALSE, Races}
    /\ UNCHANGED <<li, exp, used, holder, cleaned, now, tick, sweepNow, proto, quota, victim, stopVars>>

\* Mutant of SweepUnlink: the node stays in the list.
SweepUnlinkSkipped ==
    /\ ~crashed
    /\ pc = "unlink"
    /\ pc' = "callback"
    /\ UNCHANGED <<cacheVars, now, tick, sweepNow, proto, quota, victim, stopVars, crashed>>

\* c.li.Remove(elem)
SweepUnlink ==
    /\ ~crashed
    /\ pc = "unlink"
    /\ pc' = "callback"
    /\ li' = [li EXCEPT ![proto] = Without(li[proto], victim)]
    /\ crashed' \in {FALSE, Races}
    /\ UNCHANGED <<mp, exp, used, holder, cleaned, now, tick, sweepNow, proto, quota, victim, stopVars>>

\* Mutant of SweepCallback: the callback is not called.
SweepCallbackSkipped ==
    /\ ~crashed
    /\ pc = "callback"
    /\ pc' = "back"
    /\ quota' = quota - 1
    /\ victim' = NoKey
    /\ UNCHANGED <<cacheVars, now, tick, sweepNow, proto, stopVars, crashed>>

\* c.cleanupFn(n.key, n.value), then the next iteration.
SweepCallback ==
    /\ ~crashed
    /\ pc = "callback"
    /\ RunCallbacks({victim})
    /\ pc' = "back"
    /\ quota' = quota - 1
    /\ victim' = NoKey
    /\ UNCHANGED <<li, mp, exp, used, holder, now, tick, sweepNow, proto, stopVars, crashed>>

Sweep ==
    \/ SweepQuota \/ SweepBack \/ SweepCheck
    \/ SweepUnmap \/ SweepUnlink \/ SweepCallback

-----------------------------------------------------------------------------
\* Stop: close stopCh, then wait for the goroutine.  Loop.Run defers it
\* right after Start, so a goroutine has been started.

\* Mutant of StopCalled: stopCh stays open.
StopForgetsClose ==
    /\ ~crashed
    /\ stopper = "idle"
    /\ pc # "none"
    /\ stopper' = "waiting"
    /\ UNCHANGED <<cacheVars, now, tick, sweepVars, stopped, crashed>>

StopCalled ==
    /\ ~crashed
    /\ stopper = "idle"
    /\ pc # "none"
    /\ stopper' = "waiting"
    /\ stopped' = TRUE
    /\ UNCHANGED <<cacheVars, now, tick, sweepVars, crashed>>

\* Mutant of StopReturns: Stop does not wait for the goroutine.
StopDoesNotWait ==
    /\ ~crashed
    /\ stopper = "waiting"
    /\ stopper' = "returned"
    /\ UNCHANGED <<cacheVars, now, tick, sweepVars, stopped, crashed>>

StopReturns ==
    /\ ~crashed
    /\ stopper = "waiting"
    /\ pc = "exited"
    /\ stopper' = "returned"
    /\ UNCHANGED <<cacheVars, now, tick, sweepVars, stopped, crashed>>

\* A process the runtime has ended takes no step.
Crashed == crashed /\ UNCHANGED vars

-----------------------------------------------------------------------------
Caller(p) ==
    \/ \E op \in Ops, k \in KeysOf(p) : Lock(p, op, k)
    \/ Put(p) \/ Touch(p) \/ RemoveKey(p)

CleanupLoop == LoopQuits \/ LoopTicks \/ Sweep

Next ==
    \/ \E p \in Proto : Caller(p)
    \/ ClockTick \/ TickerFires
    \/ Start \/ CleanupLoop
    \/ StopCalled \/ StopReturns
    \/ Crashed

Spec == Init /\ [][Next]_vars

\* The Go scheduler runs a runnable goroutine: a caller leaves its critical
\* section, the cleanup goroutine makes its next step.  The ticker keeps
\* firing.  The select takes a ready case at random, so that stopCh, which
\* stays ready, cannot lose against the ticker for ever: strong fairness.
Fairness ==
    /\ \A p \in Proto : WF_vars(Put(p) \/ Touch(p) \/ RemoveKey(p))
    /\ WF_vars(TickerFires)
    /\ WF_vars(CleanupLoop)
    /\ SF_vars(LoopTicks)
    /\ SF_vars(LoopQuits)
    /\ WF_vars(StopReturns)

FairSpec == Spec /\ Fairness

-----------------------------------------------------------------------------
HasVictim == pc \in VictimSteps

\* Every variable keeps its type.
TypeOK ==
    /\ li \in [Proto -> Seq(Keys)]
    /\ \A p \in Proto : ToSet(li[p]) \subseteq KeysOf(p)
    /\ mp \in [Proto -> SUBSET Keys]
    /\ exp \in [Keys -> Nat]
    /\ used \subseteq Keys
    /\ holder \in [Proto -> Calls]
    /\ \A p \in Proto : holder[p].op \in Ops => holder[p].key \in KeysOf(p)
    /\ cleaned \in [Keys -> Nat]
    /\ now \in Nat
    /\ tick \in Nat \cup {NoTick}
    /\ pc \in PC
    /\ sweepNow \in Nat
    /\ proto \in Proto
    /\ quota \in Nat
    /\ HasVictim => quota > 0 /\ victim \in KeysOf(proto)
    /\ ~HasVictim => victim = NoKey
    /\ stopped \in BOOLEAN
    /\ stopper \in {"idle", "waiting", "returned"}
    /\ crashed \in BOOLEAN

\* The map and the list of a cache hold the same keys, each once, but for
\* the node the sweep has unmapped and not yet unlinked (cache.go:190-191):
\* no node is stranded in the list where Touch and Remove cannot find it.
MapListAgree ==
    \A p \in Proto :
        /\ Distinct(li[p])
        /\ mp[p] \subseteq ToSet(li[p])
        /\ \A k \in ToSet(li[p]) \ mp[p] : pc = "unlink" /\ proto = p /\ victim = k

\* The comment at cache.go:188: the list is sorted by deadline, so the sweep
\* may stop at the first node that has not expired.  It holds for the
\* manager because all nodes of a cache get the same timeout.
DeadlineOrder == \A p \in Proto : Ordered(li[p], exp)

\* Put evicts before it returns (cache.go:98-102), so a bounded cache never
\* holds more than its capacity between two calls.
Capacity == MaxConns > 0 => \A p \in Proto : Len(li[p]) <= MaxConns

\* A key that left its cache has had its cleanup callback, or the sweep is
\* about to call it; and a key whose callback ran is tracked no longer.  A
\* connection can neither leak out of the cache unclosed nor be closed and
\* stay in it, whoever removes it: Put's eviction, Remove or the sweep.
CallbackIffRemoved ==
    \A p \in Proto : \A k \in used \cap KeysOf(p) :
        /\ k \notin ToSet(li[p]) => cleaned[k] > 0 \/ (pc = "callback" /\ victim = k)
        /\ cleaned[k] > 0 => k \notin ToSet(li[p])

\* README.md: the cleaner evicts the connections that have timed out.  The
\* deadline of the node the sweep removes has passed.
OnlyExpiredSwept == pc \in {"unlink", "callback"} => exp[victim] <= sweepNow

\* Stop waits for the goroutine (manager.go:71), so that once it returned only
\* a caller's own call changes a cache or runs a callback.
QuietAfterStop ==
    [][stopper = "returned" /\ cacheVars' # cacheVars
           => \E p \in Proto : holder'[p] # holder[p]]_vars

\* A connection whose deadline has passed is removed or touched, whatever
\* the ratio, unless cleaning is stopped or the process has died.
ExpiredEventuallyCleaned ==
    \A p \in Proto : \A k \in KeysOf(p) :
        (pc # "none" /\ k \in ToSet(li[p]) /\ exp[k] <= now)
            ~> (k \notin ToSet(li[p]) \/ exp[k] > now \/ stopped \/ crashed)

\* Stop returns: the goroutine sees stopCh although the ticker keeps firing.
StopEventuallyReturns == (stopper = "waiting") ~> (stopper = "returned" \/ crashed)

=============================================================================
