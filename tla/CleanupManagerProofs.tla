------------------------ MODULE CleanupManagerProofs ------------------------
(***************************************************************************)
(* Proofs about CleanupManager, for any keys, timeouts, ratio and capacity *)
(* and any interleaving of the callers with the unlocked sweep.            *)
(***************************************************************************)
EXTENDS CleanupManager, LRUProofs

USE KeysDisjoint, TimeoutsNat, ClearParams, ClockBound

\* A list of one protocol holds keys of that protocol.
LEMMA KeysOfKeys == \A p \in Proto : KeysOf(p) \subseteq Keys /\ NoKey \notin KeysOf(p)
BY DEF Proto, KeysOf, Keys

\* The timeout of either protocol is a natural number.
LEMMA TimeoutNat == \A p \in Proto : TimeoutOf(p) \in Nat
BY DEF Proto, TimeoutOf

\* The two caches have no key in common.
LEMMA DisjointKeys ==
    ASSUME NEW p \in Proto, NEW q \in Proto, p # q
    PROVE  KeysOf(p) \cap KeysOf(q) = {}
BY DEF Proto, KeysOf

\* Each list is a sequence of keys without duplicates, of natural length.
LEMMA ListsTyped ==
    ASSUME TypeOK, MapListAgree, NEW p \in Proto
    PROVE  li[p] \in Seq(Keys) /\ Distinct(li[p]) /\ Len(li[p]) \in Nat
BY LenProperties DEF TypeOK, MapListAgree

\* The back of a list that is not empty is one of its elements.
LEMMA LastInList ==
    ASSUME NEW S, NEW s \in Seq(S), s # <<>>
    PROVE  Last(s) \in ToSet(s)
BY LenProperties, EmptySeq DEF Last, ToSet

-----------------------------------------------------------------------------
\* Type correctness.

\* The call in a critical section names a key of its cache.
LEMMA HeldKey ==
    ASSUME TypeOK, NEW p \in Proto, holder[p].op \in Ops
    PROVE  holder[p].key \in KeysOf(p) /\ holder[p].key \in Keys
BY KeysOfKeys DEF TypeOK

\* Running callbacks keeps the count of every key a natural number.
LEMMA RunCallbacksType ==
    ASSUME TypeOK, NEW S, RunCallbacks(S)
    PROVE  cleaned' \in [Keys -> Nat]
BY DEF TypeOK, RunCallbacks

\* A caller that takes a mutex keeps the types.
LEMMA LockType ==
    ASSUME TypeOK, NEW p \in Proto, NEW op \in Ops, NEW k \in KeysOf(p), Lock(p, op, k)
    PROVE  TypeOK'
BY KeysOfKeys DEF TypeOK, Lock, Calls, HasVictim, Ops, sweepVars, stopVars

\* AddTCP and AddUDP keep the types, evictions included.
LEMMA PutType ==
    ASSUME TypeOK, NEW p \in Proto, Put(p)
    PROVE  TypeOK'
<1> DEFINE k == holder[p].key
           pushed == PushFront(li[p], k)
           kept == Trimmed(pushed, MaxConns)
<1>0. k \in KeysOf(p) /\ k \in Keys
  BY HeldKey DEF Put, Ops
<1>1. pushed \in Seq(Keys) /\ ToSet(pushed) = ToSet(li[p]) \cup {k}
  BY <1>0, PushFrontProperties DEF TypeOK
<1>2. kept \in Seq(Keys) /\ ToSet(kept) \subseteq ToSet(pushed)
  BY <1>1, TrimmedProperties
<1>3. li' = [li EXCEPT ![p] = kept]
  BY DEF Put
<1> HIDE DEF kept, pushed
<1>4. li' \in [Proto -> Seq(Keys)] /\ \A q \in Proto : ToSet(li'[q]) \subseteq KeysOf(q)
  BY <1>0, <1>1, <1>2, <1>3 DEF TypeOK
<1>5. mp' \in [Proto -> SUBSET Keys]
  BY <1>0 DEF Put, TypeOK
<1>6. exp' \in [Keys -> Nat]
  <2>1. now + TimeoutOf(p) \in Nat
    BY TimeoutNat DEF TypeOK
  <2> QED BY <1>0, <2>1 DEF Put, TypeOK
<1>7. used' \subseteq Keys
  BY <1>0 DEF Put, TypeOK
<1>8. cleaned' \in [Keys -> Nat]
  BY RunCallbacksType DEF Put
<1>9. /\ holder' \in [Proto -> Calls]
      /\ \A q \in Proto : holder'[q].op \in Ops => holder'[q].key \in KeysOf(q)
  BY DEF Put, Unlock, TypeOK, Free, Calls, Ops
<1> QED BY <1>4, <1>5, <1>6, <1>7, <1>8, <1>9
        DEF TypeOK, Put, Unlock, HasVictim, sweepVars, stopVars

\* TouchTCP and TouchUDP keep the types.
LEMMA TouchType ==
    ASSUME TypeOK, MapListAgree, NEW p \in Proto, Touch(p)
    PROVE  TypeOK'
<1> DEFINE k == holder[p].key
<1>0. k \in KeysOf(p) /\ k \in Keys /\ TimeoutOf(p) \in Nat
  BY HeldKey, TimeoutNat DEF Touch, Ops
<1>1. /\ MoveToFront(li[p], k) \in Seq(Keys)
      /\ ToSet(MoveToFront(li[p], k)) = ToSet(li[p])
  BY ListsTyped, MoveToFrontProperties
<1>2. /\ li' \in [Proto -> Seq(Keys)] /\ \A q \in Proto : ToSet(li'[q]) \subseteq KeysOf(q)
      /\ exp' \in [Keys -> Nat]
  <2>1. CASE k \in mp[p]
    <3> DEFINE moved == MoveToFront(li[p], k)
    <3>1. li' = [li EXCEPT ![p] = moved] /\ exp' = [exp EXCEPT ![k] = now + TimeoutOf(p)]
      BY <2>1 DEF Touch
    <3>2. now + TimeoutOf(p) \in Nat
      BY <1>0 DEF TypeOK
    <3> HIDE DEF moved
    <3>3. exp' \in [Keys -> Nat]
      BY <3>1, <3>2 DEF TypeOK
    <3>4. moved \in Seq(Keys) /\ ToSet(moved) \subseteq KeysOf(p)
      BY <1>1 DEF moved, TypeOK
    <3> QED BY <3>1, <3>3, <3>4 DEF TypeOK
  <2>2. CASE k \notin mp[p]
    BY <2>2 DEF Touch, TypeOK
  <2> QED BY <2>1, <2>2
<1>3. /\ holder' \in [Proto -> Calls]
      /\ \A q \in Proto : holder'[q].op \in Ops => holder'[q].key \in KeysOf(q)
  BY DEF Touch, Unlock, TypeOK, Free, Calls, Ops
<1> QED BY <1>2, <1>3 DEF TypeOK, Touch, Unlock, HasVictim, sweepVars, stopVars

\* RemoveTCP and RemoveUDP keep the types.
LEMMA RemoveKeyType ==
    ASSUME TypeOK, MapListAgree, NEW p \in Proto, RemoveKey(p)
    PROVE  TypeOK'
<1> DEFINE k == holder[p].key
<1>0. k \in KeysOf(p) /\ k \in Keys
  BY HeldKey DEF RemoveKey, Ops
<1>1. /\ Without(li[p], k) \in Seq(Keys)
      /\ ToSet(Without(li[p], k)) = ToSet(li[p]) \ {k}
  BY ListsTyped, WithoutProperties
<1>2. /\ li' \in [Proto -> Seq(Keys)] /\ \A q \in Proto : ToSet(li'[q]) \subseteq KeysOf(q)
      /\ mp' \in [Proto -> SUBSET Keys]
      /\ cleaned' \in [Keys -> Nat]
  <2>1. CASE k \in mp[p]
    <3> DEFINE rest == Without(li[p], k)
    <3>1. li' = [li EXCEPT ![p] = rest] /\ mp' = [mp EXCEPT ![p] = mp[p] \ {k}]
      BY <2>1 DEF RemoveKey
    <3>2. cleaned' \in [Keys -> Nat]
      BY <2>1, RunCallbacksType DEF RemoveKey
    <3> HIDE DEF rest
    <3>3. rest \in Seq(Keys) /\ ToSet(rest) \subseteq KeysOf(p)
      BY <1>1 DEF rest, TypeOK
    <3> QED BY <3>1, <3>2, <3>3 DEF TypeOK
  <2>2. CASE k \notin mp[p]
    BY <2>2 DEF RemoveKey, TypeOK
  <2> QED BY <2>1, <2>2
<1>3. /\ holder' \in [Proto -> Calls]
      /\ \A q \in Proto : holder'[q].op \in Ops => holder'[q].key \in KeysOf(q)
  BY DEF RemoveKey, Unlock, TypeOK, Free, Calls, Ops
<1> QED BY <1>2, <1>3 DEF TypeOK, RemoveKey, Unlock, HasVictim, sweepVars, stopVars

\* The number of nodes a sweep may remove.
LEMMA CleanQuotaNat ==
    ASSUME NEW n \in Nat
    PROVE  CleanQuota(n, ClearRatio, MinClear) \in 0 .. n
BY DEF CleanQuota

\* Every step of the unlocked sweep keeps the types.
LEMMA SweepType ==
    ASSUME TypeOK, MapListAgree, Sweep
    PROVE  TypeOK'
<1> USE DEF HasVictim, VictimSteps, SweepSteps, PC, cacheVars, stopVars, Proto
<1>0. proto \in Proto /\ Len(li[proto]) \in Nat
  BY LenProperties DEF TypeOK
<1>1. CASE SweepQuota
  <2>1. CleanQuota(Len(li[proto]), ClearRatio, MinClear) \in Nat
    BY <1>0, CleanQuotaNat
  <2> QED BY <1>1, <2>1 DEF SweepQuota, SweepReturns, TypeOK
<1>2. CASE SweepBack
  <2>0. crashed' \in BOOLEAN
    BY <1>2, Zenon DEF SweepBack, TypeOK
  <2>1. CASE quota = 0 \/ li[proto] = <<>>
    <3>1. SweepReturns /\ UNCHANGED <<cacheVars, now, tick, stopVars>>
      BY <1>2, <2>1 DEF SweepBack
    <3> QED BY <2>0, <3>1 DEF SweepReturns, TypeOK
  <2>2. CASE ~(quota = 0 \/ li[proto] = <<>>)
    <3>1. Last(li[proto]) \in KeysOf(proto)
      BY <2>2, <1>0, LastInList DEF TypeOK
    <3> QED BY <1>2, <2>0, <2>2, <3>1 DEF SweepBack, TypeOK
  <2> QED BY <2>1, <2>2
<1>3. CASE SweepCheck
  BY <1>3 DEF SweepCheck, SweepReturns, TypeOK
<1>4. CASE SweepUnmap
  BY <1>4 DEF SweepUnmap, Races, TypeOK
<1>5. CASE SweepUnlink
  <2>1. /\ Without(li[proto], victim) \in Seq(Keys)
        /\ ToSet(Without(li[proto], victim)) \subseteq ToSet(li[proto])
    BY <1>0, ListsTyped, WithoutProperties
  <2>2. li' \in [Proto -> Seq(Keys)] /\ \A q \in Proto : ToSet(li'[q]) \subseteq KeysOf(q)
    BY <1>5, <2>1 DEF SweepUnlink, TypeOK
  <2> QED BY <1>5, <2>2 DEF SweepUnlink, Races, TypeOK
<1>6. CASE SweepCallback
  <2>1. cleaned' \in [Keys -> Nat]
    BY <1>6, RunCallbacksType DEF SweepCallback
  <2> QED BY <1>6, <2>1 DEF SweepCallback, TypeOK
<1> QED BY <1>1, <1>2, <1>3, <1>4, <1>5, <1>6 DEF Sweep

\* The steps that leave the caches and the sweep's own variables alone.
LEMMA OtherType ==
    ASSUME TypeOK,
           \/ ClockTick \/ TickerFires \/ Start \/ LoopQuits \/ LoopTicks
           \/ StopCalled \/ StopReturns
    PROVE  TypeOK'
<1> USE DEF TypeOK, HasVictim, VictimSteps, SweepSteps, PC, NoTick, Proto,
            cacheVars, sweepVars, stopVars
<1>1. CASE ClockTick
  BY <1>1 DEF ClockTick
<1>2. CASE TickerFires
  BY <1>2 DEF TickerFires
<1>3. CASE Start
  BY <1>3 DEF Start
<1>4. CASE LoopQuits
  BY <1>4 DEF LoopQuits
<1>5. CASE LoopTicks
  BY <1>5 DEF LoopTicks
<1>6. CASE StopCalled
  BY <1>6 DEF StopCalled
<1>7. CASE StopReturns
  BY <1>7 DEF StopReturns
<1> QED BY <1>1, <1>2, <1>3, <1>4, <1>5, <1>6, <1>7

-----------------------------------------------------------------------------
\* The inductive invariant.

\* A listed key has been Put, with a deadline at most its timeout ahead.
Tracked ==
    \A p \in Proto : \A k \in ToSet(li[p]) : k \in used /\ exp[k] <= now + TimeoutOf(p)

\* A key being put is new, and a key not put yet has had no callback.
Fresh ==
    /\ \A p \in Proto : holder[p].op = "put" => holder[p].key \notin used
    /\ \A k \in Keys \ used : cleaned[k] = 0

\* What the sweep knows of its victim, whatever the callers did since.
VictimLeaves ==
    /\ HasVictim => victim \in used
    /\ pc = "unlink" => victim \notin mp[proto]
    /\ pc = "callback" => victim \notin ToSet(li[proto])

\* The cache part of the invariant, without TypeOK.
CacheInv ==
    /\ MapListAgree
    /\ DeadlineOrder
    /\ Capacity
    /\ CallbackIffRemoved
    /\ Tracked
    /\ Fresh
    /\ VictimLeaves

Inv == TypeOK /\ CacheInv

\* The inductive invariant holds of a new manager.
LEMMA InitInv == Init => Inv
<1> SUFFICES ASSUME Init PROVE Inv
  OBVIOUS
<1>1. \A p \in Proto : li[p] = <<>> /\ mp[p] = {}
  BY DEF Init
<1>2. <<>> \in Seq(Keys) /\ Len(<<>>) = 0 /\ DOMAIN <<>> = {} /\ ToSet(<<>>) = {}
  BY EmptySeq DEF ToSet
<1>3. \A p \in Proto : holder[p] = Free /\ Free \in Calls /\ Free.op = "free"
  BY DEF Init, Free, Calls
<1>4. TypeOK
  BY <1>1, <1>2, <1>3
     DEF TypeOK, Init, HasVictim, VictimSteps, SweepSteps, PC, NoTick, Proto, Ops
<1>5. MapListAgree /\ DeadlineOrder
  BY <1>1, <1>2 DEF MapListAgree, DeadlineOrder, Distinct, Ordered
<1>6. Capacity
  BY <1>1, <1>2 DEF Capacity
<1>7. CallbackIffRemoved /\ Tracked /\ Fresh /\ VictimLeaves
  BY <1>1, <1>2, <1>3
     DEF CallbackIffRemoved, Tracked, Fresh, VictimLeaves, Init, HasVictim, VictimSteps
<1> QED BY <1>4, <1>5, <1>6, <1>7 DEF Inv, CacheInv

\* A step that changes no list, map, deadline or callback, and takes the sweep
\* neither into nor out of the two steps after the unmapping.
LEMMA QuietStep ==
    ASSUME Inv, TypeOK', now' >= now,
           UNCHANGED <<li, mp, exp, used, cleaned>>,
           \A p \in Proto : holder'[p].op = "put" => holder'[p].key \notin used,
           \/ UNCHANGED <<pc, proto, victim>>
           \/ /\ pc \notin {"unlink", "callback"} /\ pc' \notin {"unlink", "callback"}
              /\ HasVictim' => victim' \in used
    PROVE  CacheInv'
<1> USE DEF Inv, CacheInv
<1>1. MapListAgree'
  BY DEF MapListAgree
<1>2. DeadlineOrder'
  BY DEF DeadlineOrder
<1>3. Capacity'
  BY DEF Capacity
<1>4. CallbackIffRemoved'
  BY DEF CallbackIffRemoved
<1>5. Tracked'
  <2> SUFFICES ASSUME NEW p \in Proto, NEW k \in ToSet(li[p])
               PROVE  k \in used /\ exp[k] <= now' + TimeoutOf(p)
    BY DEF Tracked
  <2>1. k \in used /\ k \in Keys /\ exp[k] <= now + TimeoutOf(p)
    BY DEF Tracked, TypeOK
  <2> QED BY <2>1, TimeoutNat DEF TypeOK
<1>6. Fresh'
  BY DEF Fresh
<1>7. VictimLeaves'
  BY DEF VictimLeaves, HasVictim
<1> QED BY <1>1, <1>2, <1>3, <1>4, <1>5, <1>6, <1>7

\* Taking a mutex keeps the inductive invariant: a key about to be put is new.
LEMMA LockInv ==
    ASSUME Inv, NEW p \in Proto, NEW op \in Ops, NEW k \in KeysOf(p), Lock(p, op, k)
    PROVE  Inv'
<1>1. TypeOK'
  BY LockType DEF Inv
<1>2. \A q \in Proto : holder'[q].op = "put" => holder'[q].key \notin used
  BY DEF Lock, Inv, CacheInv, Fresh, TypeOK
<1>3. CacheInv'
  BY <1>1, <1>2, QuietStep DEF Lock, sweepVars, Inv, TypeOK
<1> QED BY <1>1, <1>3 DEF Inv

\* AddTCP and AddUDP keep the inductive invariant: the new node has the latest
\* deadline and goes in front, and what does not fit is called back.
LEMMA PutInv ==
    ASSUME Inv, NEW p \in Proto, Put(p)
    PROVE  Inv'
<1> DEFINE k == holder[p].key
           pushed == PushFront(li[p], k)
           kept == Trimmed(pushed, MaxConns)
           out == Evicted(pushed, MaxConns)
<1> USE DEF Inv, CacheInv
<1>1. TypeOK'
  BY PutType
<1>2. /\ k \in KeysOf(p) /\ k \in Keys /\ k \notin used
      /\ \A q \in Proto : k \notin ToSet(li[q])
      /\ \A q \in Proto : q # p => k \notin KeysOf(q)
  BY HeldKey, DisjointKeys DEF Put, Ops, Fresh, Tracked
<1>3. /\ pushed \in Seq(Keys) /\ Distinct(pushed)
      /\ ToSet(pushed) = ToSet(li[p]) \cup {k}
      /\ \A e : Ordered(li[p], e) /\ (\A x \in ToSet(li[p]) : e[k] >= e[x]) => Ordered(pushed, e)
  BY <1>2, ListsTyped, PushFrontProperties
<1>4. /\ kept \in Seq(Keys) /\ Distinct(kept)
      /\ MaxConns > 0 => Len(kept) <= MaxConns
      /\ ToSet(kept) \subseteq ToSet(pushed)
      /\ \A e : Ordered(pushed, e) => Ordered(kept, e)
  BY <1>3, TrimmedProperties
<1>5. out = ToSet(pushed) \ ToSet(kept)
  BY DEF Evicted
<1>6. /\ li' = [li EXCEPT ![p] = kept]
      /\ mp' = [mp EXCEPT ![p] = (mp[p] \cup {k}) \ out]
      /\ exp' = [exp EXCEPT ![k] = now + TimeoutOf(p)]
      /\ used' = used \cup {k}
      /\ cleaned' = [x \in Keys |-> IF x \in out THEN cleaned[x] + 1 ELSE cleaned[x]]
      /\ holder' = [holder EXCEPT ![p] = Free]
      /\ UNCHANGED <<now, pc, proto, victim>>
  BY DEF Put, RunCallbacks, Unlock, sweepVars
<1> HIDE DEF k, pushed, kept, out
<1>7. /\ li'[p] = kept /\ mp'[p] = (mp[p] \cup {k}) \ out
      /\ \A q \in Proto : q # p => li'[q] = li[q] /\ mp'[q] = mp[q]
      /\ exp'[k] = now + TimeoutOf(p)
      /\ \A x \in Keys \ {k} : exp'[x] = exp[x]
  BY <1>2, <1>6 DEF TypeOK
<1>8. MapListAgree'
  <2> SUFFICES ASSUME NEW q \in Proto
               PROVE  /\ Distinct(li'[q])
                      /\ mp'[q] \subseteq ToSet(li'[q])
                      /\ \A x \in ToSet(li'[q]) \ mp'[q] :
                             pc' = "unlink" /\ proto' = q /\ victim' = x
    BY DEF MapListAgree
  <2>1. CASE q # p
    BY <2>1, <1>6, <1>7 DEF MapListAgree
  <2>2. CASE q = p
    <3>1. mp[p] \subseteq ToSet(li[p])
      BY DEF MapListAgree
    <3>2. (mp[p] \cup {k}) \ out \subseteq ToSet(kept)
      BY <3>1, <1>3, <1>5
    <3>3. \A x \in ToSet(kept) : x \notin (mp[p] \cup {k}) \ out => x \in ToSet(li[p]) \ mp[p]
      BY <1>3, <1>4, <1>5
    <3> QED BY <2>2, <3>2, <3>3, <1>4, <1>6, <1>7 DEF MapListAgree
  <2> QED BY <2>1, <2>2
<1>9. DeadlineOrder'
  <2> SUFFICES ASSUME NEW q \in Proto PROVE Ordered(li'[q], exp')
    BY DEF DeadlineOrder
  <2>1. Ordered(li[q], exp')
    <3>1. \A x \in ToSet(li[q]) : exp'[x] = exp[x]
      BY <1>2, <1>7, KeysOfKeys DEF TypeOK
    <3> QED BY <3>1, OrderedAgree DEF DeadlineOrder
  <2>2. CASE q # p
    BY <2>1, <2>2, <1>7
  <2>3. CASE q = p
    <3>1. \A x \in ToSet(li[p]) : exp'[k] >= exp'[x]
      <4> SUFFICES ASSUME NEW x \in ToSet(li[p]) PROVE exp'[k] >= exp'[x]
        OBVIOUS
      <4>1. x \in Keys \ {k} /\ exp[x] <= now + TimeoutOf(p)
        BY <1>2, KeysOfKeys DEF TypeOK, Tracked
      <4>2. exp'[x] = exp[x] /\ exp[x] \in Nat /\ now + TimeoutOf(p) \in Nat
        BY <4>1, <1>7, TimeoutNat DEF TypeOK
      <4> QED BY <4>1, <4>2, <1>7
    <3> QED BY <2>1, <2>3, <3>1, <1>3, <1>4, <1>7
  <2> QED BY <2>2, <2>3
<1>10. Capacity'
  <2> SUFFICES ASSUME MaxConns > 0, NEW q \in Proto PROVE Len(li'[q]) <= MaxConns
    BY DEF Capacity
  <2> QED BY <1>4, <1>7 DEF Capacity
<1>11. CallbackIffRemoved'
  <2> SUFFICES ASSUME NEW q \in Proto, NEW x \in used' \cap KeysOf(q)
               PROVE  /\ x \notin ToSet(li'[q]) =>
                            cleaned'[x] > 0 \/ (pc' = "callback" /\ victim' = x)
                      /\ cleaned'[x] > 0 => x \notin ToSet(li'[q])
    BY DEF CallbackIffRemoved
  <2>1. x \in Keys /\ cleaned[x] \in Nat
    BY KeysOfKeys DEF TypeOK
  <2>2. CASE x = k
    <3>1. q = p /\ cleaned[x] = 0
      BY <2>2, <1>2 DEF Fresh
    <3> QED BY <2>1, <2>2, <3>1, <1>3, <1>5, <1>6, <1>7
  <2>3. CASE x # k /\ q = p
    <3>1. /\ x \in used
          /\ x \notin ToSet(li[q]) => cleaned[x] > 0 \/ (pc = "callback" /\ victim = x)
          /\ cleaned[x] > 0 => x \notin ToSet(li[q])
      BY <2>3, <1>6 DEF CallbackIffRemoved
    <3>2. CASE x \in out
      BY <2>1, <2>3, <3>2, <1>5, <1>6, <1>7
    <3>3. CASE x \notin out
      <4>1. cleaned'[x] = cleaned[x] /\ (x \in ToSet(li'[q]) <=> x \in ToSet(li[q]))
        BY <2>1, <2>3, <3>3, <1>3, <1>4, <1>5, <1>6, <1>7
      <4> QED BY <3>1, <4>1, <1>6
    <3> QED BY <3>2, <3>3
  <2>4. CASE x # k /\ q # p
    <3>1. x \notin out
      BY <2>4, <1>3, <1>5, DisjointKeys DEF TypeOK
    <3>2. cleaned'[x] = cleaned[x] /\ li'[q] = li[q] /\ x \in used
      BY <2>1, <2>4, <3>1, <1>6, <1>7
    <3> QED BY <3>2, <1>6 DEF CallbackIffRemoved
  <2> QED BY <2>2, <2>3, <2>4
<1>12. Tracked'
  <2> SUFFICES ASSUME NEW q \in Proto, NEW x \in ToSet(li'[q])
               PROVE  x \in used' /\ exp'[x] <= now + TimeoutOf(q)
    BY <1>6 DEF Tracked
  <2>1. CASE x = k
    <3>1. q = p
      BY <2>1, <1>2, <1>7
    <3> QED BY <2>1, <3>1, <1>6, <1>7, TimeoutNat DEF TypeOK
  <2>2. CASE x # k
    <3>1. x \in ToSet(li[q])
      BY <2>2, <1>3, <1>4, <1>7
    <3>2. exp'[x] = exp[x]
      BY <2>2, <3>1, <1>7, KeysOfKeys DEF TypeOK
    <3> QED BY <3>1, <3>2, <1>6 DEF Tracked
  <2> QED BY <2>1, <2>2
<1>13. Fresh'
  <2>1. \A q \in Proto : holder'[q].op = "put" => holder'[q].key \notin used'
    <3> SUFFICES ASSUME NEW q \in Proto, holder'[q].op = "put"
                 PROVE  holder'[q].key \notin used'
      OBVIOUS
    <3>1. q # p /\ holder'[q] = holder[q]
      BY <1>6 DEF Free, TypeOK
    <3>2. holder[q].key \in KeysOf(q) /\ holder[q].key \notin used
      BY <3>1, HeldKey DEF Fresh, Ops
    <3> QED BY <3>1, <3>2, <1>2, <1>6
  <2>2. \A x \in Keys \ used' : cleaned'[x] = 0
    <3> SUFFICES ASSUME NEW x \in Keys \ used' PROVE cleaned'[x] = 0
      OBVIOUS
    <3>1. x # k /\ x \notin used /\ x \notin ToSet(li[p])
      BY <1>6 DEF Tracked
    <3>2. x \notin out
      BY <3>1, <1>3, <1>5
    <3> QED BY <3>1, <3>2, <1>6 DEF Fresh
  <2> QED BY <2>1, <2>2 DEF Fresh
<1>14. VictimLeaves'
  <2>1. HasVictim => victim # k /\ proto \in Proto
    BY <1>2 DEF VictimLeaves, TypeOK
  <2>2. pc = "unlink" => victim \notin mp'[proto]
    <3> SUFFICES ASSUME pc = "unlink" PROVE victim \notin mp'[proto]
      OBVIOUS
    <3>1. victim \notin mp[proto] /\ victim # k /\ proto \in Proto
      BY <2>1 DEF VictimLeaves, HasVictim, VictimSteps
    <3> QED BY <3>1, <1>7
  <2>3. pc = "callback" => victim \notin ToSet(li'[proto])
    <3> SUFFICES ASSUME pc = "callback" PROVE victim \notin ToSet(li'[proto])
      OBVIOUS
    <3>1. victim \notin ToSet(li[proto]) /\ victim # k /\ proto \in Proto
      BY <2>1 DEF VictimLeaves, HasVictim, VictimSteps
    <3> QED BY <3>1, <1>3, <1>4, <1>7
  <2> QED BY <2>2, <2>3, <1>6 DEF VictimLeaves, HasVictim
<1> QED BY <1>1, <1>8, <1>9, <1>10, <1>11, <1>12, <1>13, <1>14

\* A call leaves the mutex of p: no other call's `put` becomes stale.
LEMMA UnlockFresh ==
    ASSUME Inv, NEW p \in Proto, UNCHANGED used,
           holder' = [holder EXCEPT ![p] = Free]
    PROVE  \A q \in Proto : holder'[q].op = "put" => holder'[q].key \notin used
BY DEF Inv, CacheInv, Fresh, Free, TypeOK

\* TouchTCP and TouchUDP keep the inductive invariant: the node moves to the
\* front with the latest deadline, or is unknown and nothing changes.
LEMMA TouchInv ==
    ASSUME Inv, NEW p \in Proto, Touch(p)
    PROVE  Inv'
<1> DEFINE k == holder[p].key
           moved == MoveToFront(li[p], k)
<1> USE DEF Inv, CacheInv
<1>1. TypeOK'
  BY TouchType
<1>2. \A q \in Proto : holder'[q].op = "put" => holder'[q].key \notin used
  BY UnlockFresh DEF Touch, Unlock
<1>3. CASE k \notin mp[p]
  <2>1. UNCHANGED <<li, mp, exp, used, cleaned, now, pc, proto, victim>>
    BY <1>3 DEF Touch, Unlock, sweepVars
  <2> QED BY <1>1, <1>2, <2>1, QuietStep DEF TypeOK
<1>4. CASE k \in mp[p]
  <2>1. /\ k \in KeysOf(p) /\ k \in Keys /\ k \in ToSet(li[p])
        /\ \A q \in Proto : q # p => k \notin ToSet(li[q])
    BY <1>4, HeldKey, DisjointKeys DEF Touch, Ops, MapListAgree, TypeOK
  <2>2. /\ moved \in Seq(Keys) /\ Distinct(moved) /\ Len(moved) = Len(li[p])
        /\ ToSet(moved) = ToSet(li[p])
    BY ListsTyped, MoveToFrontProperties
  <2>3. /\ li' = [li EXCEPT ![p] = moved]
        /\ exp' = [exp EXCEPT ![k] = now + TimeoutOf(p)]
        /\ UNCHANGED <<mp, used, cleaned, now, pc, proto, victim>>
    BY <1>4 DEF Touch, Unlock, sweepVars
  <2>4. /\ li'[p] = moved
        /\ \A q \in Proto : q # p => li'[q] = li[q]
        /\ exp'[k] = now + TimeoutOf(p)
        /\ \A x \in Keys \ {k} : exp'[x] = exp[x]
    BY <2>1, <2>3 DEF TypeOK
  <2>5. Ordered(moved, exp')
    <3>1. Distinct(li[p]) /\ Ordered(li[p], exp) /\ li[p] \in Seq(Keys)
      BY ListsTyped DEF DeadlineOrder
    <3>2. \A x \in ToSet(li[p]) \ {k} : exp'[k] >= exp[x]
      <4> SUFFICES ASSUME NEW x \in ToSet(li[p]) \ {k} PROVE exp'[k] >= exp[x]
        OBVIOUS
      <4>1. x \in Keys /\ exp[x] <= now + TimeoutOf(p)
        BY KeysOfKeys DEF TypeOK, Tracked
      <4>2. exp[x] \in Nat /\ now + TimeoutOf(p) \in Nat
        BY <4>1, TimeoutNat DEF TypeOK
      <4> QED BY <4>1, <4>2, <2>4
    <3> QED BY <2>1, <2>4, <3>1, <3>2, TouchOrdered
  <2> HIDE DEF k, moved
  <2>6. \A q \in Proto : ToSet(li'[q]) = ToSet(li[q])
    BY <2>2, <2>4
  <2>7. MapListAgree'
    BY <2>2, <2>3, <2>4, <2>6 DEF MapListAgree
  <2>8. DeadlineOrder'
    <3> SUFFICES ASSUME NEW q \in Proto, q # p PROVE Ordered(li[q], exp')
      BY <2>4, <2>5 DEF DeadlineOrder
    <3>1. \A x \in ToSet(li[q]) : exp'[x] = exp[x]
      BY <2>1, <2>4, KeysOfKeys DEF TypeOK
    <3> QED BY <3>1, OrderedAgree DEF DeadlineOrder
  <2>9. Capacity'
    BY <2>2, <2>4 DEF Capacity
  <2>10. CallbackIffRemoved'
    BY <2>3, <2>6 DEF CallbackIffRemoved
  <2>11. Tracked'
    <3> SUFFICES ASSUME NEW q \in Proto, NEW x \in ToSet(li[q])
                 PROVE  x \in used /\ exp'[x] <= now + TimeoutOf(q)
      BY <2>3, <2>6 DEF Tracked
    <3>1. x \in used /\ x \in Keys /\ exp[x] <= now + TimeoutOf(q)
      BY DEF Tracked, TypeOK
    <3>2. CASE x = k
      BY <2>1, <2>4, <3>1, <3>2, TimeoutNat DEF TypeOK
    <3>3. CASE x # k
      BY <2>4, <3>1, <3>3
    <3> QED BY <3>2, <3>3
  <2>12. Fresh' /\ VictimLeaves'
    <3>1. proto \in Proto
      BY DEF TypeOK
    <3> QED BY <1>2, <2>3, <2>6, <3>1 DEF Fresh, VictimLeaves, HasVictim
  <2> QED BY <1>1, <2>7, <2>8, <2>9, <2>10, <2>11, <2>12
<1> QED BY <1>3, <1>4

\* A node leaves the list of p while `li` and `mp` lose at most one key k of p:
\* the parts of the invariant that only get weaker.
LEMMA ShrinkInv ==
    ASSUME Inv, NEW p \in Proto, NEW k \in KeysOf(p),
           li' = [li EXCEPT ![p] = Without(li[p], k)],
           UNCHANGED <<exp, used, now>>
    PROVE  /\ li'[p] = Without(li[p], k) /\ ToSet(li'[p]) = ToSet(li[p]) \ {k}
           /\ Distinct(li'[p])
           /\ \A q \in Proto : q # p => li'[q] = li[q]
           /\ \A q \in Proto : ToSet(li'[q]) \subseteq ToSet(li[q])
           /\ DeadlineOrder' /\ Capacity' /\ Tracked'
<1> DEFINE rest == Without(li[p], k)
<1> USE DEF Inv, CacheInv
<1>1. /\ Len(rest) <= Len(li[p]) /\ Distinct(rest) /\ Len(rest) \in Nat
      /\ ToSet(rest) = ToSet(li[p]) \ {k}
      /\ Ordered(li[p], exp) => Ordered(rest, exp)
  BY ListsTyped, WithoutProperties, LenProperties
<1>2. li'[p] = rest /\ \A q \in Proto : q # p => li'[q] = li[q]
  BY DEF TypeOK
<1> HIDE DEF rest
<1>3. \A q \in Proto : ToSet(li'[q]) \subseteq ToSet(li[q])
  BY <1>1, <1>2
<1>4. DeadlineOrder'
  BY <1>1, <1>2 DEF DeadlineOrder
<1>5. Capacity'
  <2> SUFFICES ASSUME MaxConns > 0, NEW q \in Proto PROVE Len(li'[q]) <= MaxConns
    BY DEF Capacity
  <2>1. Len(li[p]) <= MaxConns /\ Len(li[p]) \in Nat
    BY ListsTyped DEF Capacity
  <2> QED BY <2>1, <1>1, <1>2 DEF Capacity
<1>6. Tracked'
  BY <1>3 DEF Tracked
<1> QED BY <1>1, <1>2, <1>3, <1>4, <1>5, <1>6 DEF rest

\* RemoveTCP and RemoveUDP keep the inductive invariant.
LEMMA RemoveKeyInv ==
    ASSUME Inv, NEW p \in Proto, RemoveKey(p)
    PROVE  Inv'
<1> DEFINE k == holder[p].key
<1> USE DEF Inv, CacheInv
<1>1. TypeOK'
  BY RemoveKeyType
<1>2. \A q \in Proto : holder'[q].op = "put" => holder'[q].key \notin used
  BY UnlockFresh DEF RemoveKey, Unlock
<1>3. CASE k \notin mp[p]
  <2>1. UNCHANGED <<li, mp, exp, used, cleaned, now, pc, proto, victim>>
    BY <1>3 DEF RemoveKey, Unlock, sweepVars
  <2> QED BY <1>1, <1>2, <2>1, QuietStep DEF TypeOK
<1>4. CASE k \in mp[p]
  <2>1. /\ k \in KeysOf(p) /\ k \in Keys
        /\ \A q \in Proto : q # p => k \notin KeysOf(q)
    BY HeldKey, DisjointKeys DEF RemoveKey, Ops
  <2>2. /\ li' = [li EXCEPT ![p] = Without(li[p], k)]
        /\ mp' = [mp EXCEPT ![p] = mp[p] \ {k}]
        /\ cleaned' = [x \in Keys |-> IF x \in {k} THEN cleaned[x] + 1 ELSE cleaned[x]]
        /\ UNCHANGED <<exp, used, now, pc, proto, victim>>
    BY <1>4 DEF RemoveKey, Unlock, RunCallbacks, sweepVars
  <2> HIDE DEF k
  <2>3. /\ ToSet(li'[p]) = ToSet(li[p]) \ {k} /\ Distinct(li'[p])
        /\ \A q \in Proto : q # p => li'[q] = li[q]
        /\ \A q \in Proto : ToSet(li'[q]) \subseteq ToSet(li[q])
        /\ DeadlineOrder' /\ Capacity' /\ Tracked'
    BY <2>1, <2>2, ShrinkInv
  <2>4. mp'[p] = mp[p] \ {k} /\ \A q \in Proto : q # p => mp'[q] = mp[q]
    BY <2>2 DEF TypeOK
  <2>5. MapListAgree'
    <3> SUFFICES ASSUME NEW q \in Proto
                 PROVE  /\ Distinct(li'[q])
                        /\ mp'[q] \subseteq ToSet(li'[q])
                        /\ \A x \in ToSet(li'[q]) \ mp'[q] :
                               pc' = "unlink" /\ proto' = q /\ victim' = x
      BY DEF MapListAgree
    <3>1. CASE q = p
      BY <3>1, <2>2, <2>3, <2>4 DEF MapListAgree
    <3>2. CASE q # p
      BY <3>2, <2>2, <2>3, <2>4 DEF MapListAgree
    <3> QED BY <3>1, <3>2
  <2>6. CallbackIffRemoved'
    <3> SUFFICES ASSUME NEW q \in Proto, NEW x \in used \cap KeysOf(q)
                 PROVE  /\ x \notin ToSet(li'[q]) =>
                              cleaned'[x] > 0 \/ (pc = "callback" /\ victim = x)
                        /\ cleaned'[x] > 0 => x \notin ToSet(li'[q])
      BY <2>2 DEF CallbackIffRemoved
    <3>1. x \in Keys /\ cleaned[x] \in Nat
      BY KeysOfKeys DEF TypeOK
    <3>2. CASE x = k
      BY <3>1, <3>2, <2>1, <2>2, <2>3
    <3>3. CASE x # k
      <4>1. cleaned'[x] = cleaned[x] /\ (x \in ToSet(li'[q]) <=> x \in ToSet(li[q]))
        BY <3>1, <3>3, <2>2, <2>3
      <4> QED BY <4>1 DEF CallbackIffRemoved
    <3> QED BY <3>2, <3>3
  <2>7. Fresh'
    <3>1. k \in used
      BY <1>4, <2>1 DEF k, MapListAgree, Tracked
    <3> QED BY <3>1, <1>2, <2>2 DEF Fresh
  <2>8. VictimLeaves'
    <3>1. proto \in Proto /\ mp'[proto] \subseteq mp[proto]
      BY <2>4 DEF TypeOK
    <3> QED BY <3>1, <2>2, <2>3 DEF VictimLeaves, HasVictim
  <2> QED BY <1>1, <2>3, <2>5, <2>6, <2>7, <2>8
<1> QED BY <1>3, <1>4

\* delete(c.mp, n.key) keeps it: only the victim is listed and not mapped.
LEMMA SweepUnmapInv ==
    ASSUME Inv, SweepUnmap
    PROVE  Inv'
<1> USE DEF Inv, CacheInv
<1>0. TypeOK'
  BY SweepType DEF Sweep
<1>1. /\ pc = "unmap" /\ pc' = "unlink"
      /\ mp' = [mp EXCEPT ![proto] = mp[proto] \ {victim}]
      /\ UNCHANGED <<li, exp, used, holder, cleaned, now, proto, victim>>
  BY DEF SweepUnmap
<1>2. proto \in Proto /\ victim \in used
  BY <1>1 DEF TypeOK, VictimLeaves, HasVictim, VictimSteps
<1>3. /\ mp'[proto] = mp[proto] \ {victim}
      /\ \A q \in Proto : q # proto => mp'[q] = mp[q]
  BY <1>1, <1>2 DEF TypeOK
<1>4. MapListAgree'
  BY <1>1, <1>2, <1>3 DEF MapListAgree
<1>5. DeadlineOrder' /\ Capacity' /\ Tracked' /\ Fresh'
  BY <1>1 DEF DeadlineOrder, Capacity, Tracked, Fresh
<1>6. CallbackIffRemoved'
  BY <1>1 DEF CallbackIffRemoved
<1>7. VictimLeaves'
  BY <1>1, <1>2, <1>3 DEF VictimLeaves
<1> QED BY <1>0, <1>4, <1>5, <1>6, <1>7

\* c.li.Remove(elem) keeps it: the victim is out and its callback is next.
LEMMA SweepUnlinkInv ==
    ASSUME Inv, SweepUnlink
    PROVE  Inv'
<1> USE DEF Inv, CacheInv
<1>0. TypeOK'
  BY SweepType DEF Sweep
<1>1. /\ pc = "unlink" /\ pc' = "callback"
      /\ li' = [li EXCEPT ![proto] = Without(li[proto], victim)]
      /\ UNCHANGED <<mp, exp, used, holder, cleaned, now, proto, victim>>
  BY DEF SweepUnlink
<1>2. /\ proto \in Proto /\ victim \in KeysOf(proto) /\ victim \in used
      /\ victim \notin mp[proto]
      /\ \A q \in Proto : q # proto => victim \notin KeysOf(q)
  BY <1>1, DisjointKeys DEF TypeOK, VictimLeaves, HasVictim, VictimSteps
<1>3. /\ ToSet(li'[proto]) = ToSet(li[proto]) \ {victim} /\ Distinct(li'[proto])
      /\ \A q \in Proto : q # proto => li'[q] = li[q]
      /\ DeadlineOrder' /\ Capacity' /\ Tracked'
  BY <1>1, <1>2, ShrinkInv
<1>4. MapListAgree'
  <2> SUFFICES ASSUME NEW q \in Proto
               PROVE  Distinct(li'[q]) /\ mp[q] = ToSet(li'[q])
    BY <1>1 DEF MapListAgree
  <2>1. CASE q = proto
    BY <2>1, <1>1, <1>2, <1>3 DEF MapListAgree
  <2>2. CASE q # proto
    BY <2>2, <1>1, <1>3 DEF MapListAgree
  <2> QED BY <2>1, <2>2
<1>5. CallbackIffRemoved'
  <2> SUFFICES ASSUME NEW q \in Proto, NEW x \in used \cap KeysOf(q)
               PROVE  /\ x \notin ToSet(li'[q]) => cleaned[x] > 0 \/ victim = x
                      /\ cleaned[x] > 0 => x \notin ToSet(li'[q])
    BY <1>1 DEF CallbackIffRemoved
  <2>1. x # victim => (x \in ToSet(li'[q]) <=> x \in ToSet(li[q]))
    BY <1>2, <1>3
  <2>2. x = victim => q = proto /\ x \notin ToSet(li'[q])
    BY <1>2, <1>3
  <2> QED BY <2>1, <2>2, <1>1 DEF CallbackIffRemoved
<1>6. Fresh'
  BY <1>1 DEF Fresh
<1>7. VictimLeaves'
  BY <1>1, <1>2, <1>3 DEF VictimLeaves
<1> QED BY <1>0, <1>3, <1>4, <1>5, <1>6, <1>7

\* The sweep's callback keeps it: the victim has left map and list before.
LEMMA SweepCallbackInv ==
    ASSUME Inv, SweepCallback
    PROVE  Inv'
<1> USE DEF Inv, CacheInv
<1>0. TypeOK'
  BY SweepType DEF Sweep
<1>1. /\ pc = "callback" /\ pc' = "back"
      /\ cleaned' = [x \in Keys |-> IF x \in {victim} THEN cleaned[x] + 1 ELSE cleaned[x]]
      /\ UNCHANGED <<li, mp, exp, used, holder, now, proto>>
  BY DEF SweepCallback, RunCallbacks
<1>2. /\ proto \in Proto /\ victim \in KeysOf(proto) /\ victim \in used
      /\ \A q \in Proto : victim \notin ToSet(li[q])
  BY <1>1, DisjointKeys DEF TypeOK, VictimLeaves, HasVictim, VictimSteps
<1>3. MapListAgree' /\ DeadlineOrder' /\ Capacity' /\ Tracked'
  BY <1>1 DEF MapListAgree, DeadlineOrder, Capacity, Tracked
<1>4. CallbackIffRemoved'
  <2> SUFFICES ASSUME NEW q \in Proto, NEW x \in used \cap KeysOf(q)
               PROVE  /\ x \notin ToSet(li[q]) => cleaned'[x] > 0
                      /\ cleaned'[x] > 0 => x \notin ToSet(li[q])
    BY <1>1 DEF CallbackIffRemoved
  <2>1. x \in Keys /\ cleaned[x] \in Nat
    BY KeysOfKeys DEF TypeOK
  <2>2. CASE x = victim
    BY <2>1, <2>2, <1>1, <1>2
  <2>3. CASE x # victim
    BY <2>1, <2>3, <1>1 DEF CallbackIffRemoved
  <2> QED BY <2>2, <2>3
<1>5. Fresh'
  BY <1>1, <1>2 DEF Fresh
<1>6. VictimLeaves'
  BY <1>1 DEF VictimLeaves, HasVictim, VictimSteps
<1> QED BY <1>0, <1>3, <1>4, <1>5, <1>6

\* The steps of the sweep that only read, and those of its loop, of the
\* clock and of Stop.
LEMMA ReadingStepInv ==
    ASSUME Inv, \/ SweepQuota \/ SweepBack \/ SweepCheck
                \/ ClockTick \/ TickerFires \/ Start \/ LoopQuits \/ LoopTicks
                \/ StopCalled \/ StopReturns
    PROVE  Inv'
<1> USE DEF Inv, CacheInv
<1>1. TypeOK'
  BY SweepType, OtherType DEF Sweep
<1>2. UNCHANGED <<li, mp, exp, used, cleaned, holder>>
  BY DEF SweepQuota, SweepBack, SweepCheck, ClockTick, TickerFires, Start, LoopQuits,
         LoopTicks, StopCalled, StopReturns, cacheVars
<1>3. now' >= now
  <2>1. now' = now \/ now' = now + 1
    BY DEF SweepQuota, SweepBack, SweepCheck, ClockTick, TickerFires, Start, LoopQuits,
           LoopTicks, StopCalled, StopReturns
  <2> QED BY <2>1 DEF TypeOK
<1>4. \A p \in Proto : holder'[p].op = "put" => holder'[p].key \notin used
  BY <1>2 DEF Fresh
<1>5. \/ UNCHANGED <<pc, proto, victim>>
      \/ /\ pc \notin {"unlink", "callback"} /\ pc' \notin {"unlink", "callback"}
         /\ HasVictim' => victim' \in used
  <2> USE DEF HasVictim, VictimSteps
  <2>1. CASE SweepQuota
    BY <2>1 DEF SweepQuota, SweepReturns
  <2>2. CASE SweepBack
    <3>1. CASE quota = 0 \/ li[proto] = <<>>
      BY <2>2, <3>1 DEF SweepBack, SweepReturns
    <3>2. CASE ~(quota = 0 \/ li[proto] = <<>>)
      <4>1. Last(li[proto]) \in used
        BY <3>2, LastInList DEF TypeOK, Tracked
      <4> QED BY <2>2, <3>2, <4>1 DEF SweepBack
    <3> QED BY <3>1, <3>2
  <2>3. CASE SweepCheck
    BY <2>3 DEF SweepCheck, SweepReturns, VictimLeaves
  <2>4. CASE ClockTick \/ TickerFires \/ StopCalled \/ StopReturns
    BY <2>4 DEF ClockTick, TickerFires, StopCalled, StopReturns, sweepVars
  <2>5. CASE Start
    BY <2>5 DEF Start
  <2>6. CASE LoopQuits
    BY <2>6 DEF LoopQuits
  <2>7. CASE LoopTicks
    BY <2>7 DEF LoopTicks
  <2> QED BY <2>1, <2>2, <2>3, <2>4, <2>5, <2>6, <2>7
<1> QED BY <1>1, <1>2, <1>3, <1>4, <1>5, QuietStep

\* Every step preserves the invariant.
LEMMA NextInv == Inv /\ [Next]_vars => Inv'
<1> SUFFICES ASSUME Inv, [Next]_vars PROVE Inv'
  OBVIOUS
<1>1. CASE UNCHANGED vars
  <2>1. TypeOK'
    BY <1>1 DEF Inv, TypeOK, HasVictim, vars, cacheVars, sweepVars, stopVars
  <2>2. /\ UNCHANGED <<li, mp, exp, used, cleaned, holder, now, pc, proto, victim>>
        /\ now \in Nat
    BY <1>1 DEF vars, cacheVars, sweepVars, Inv, TypeOK
  <2>3. \A p \in Proto : holder'[p].op = "put" => holder'[p].key \notin used
    BY <2>2 DEF Inv, CacheInv, Fresh
  <2> QED BY <2>1, <2>2, <2>3, QuietStep DEF Inv
<1>2. ASSUME NEW p \in Proto, Caller(p)
      PROVE  Inv'
  BY <1>2, LockInv, PutInv, TouchInv, RemoveKeyInv DEF Caller
<1>3. CASE CleanupLoop
  BY <1>3, ReadingStepInv, SweepUnmapInv, SweepUnlinkInv, SweepCallbackInv
     DEF CleanupLoop, Sweep
<1>4. CASE ClockTick \/ TickerFires \/ Start \/ StopCalled \/ StopReturns
  BY <1>4, ReadingStepInv
<1> QED BY <1>1, <1>2, <1>3, <1>4 DEF Next, Crashed

\* The inductive invariant holds in every reachable state.
THEOREM Invariance == Spec => []Inv
BY InitInv, NextInv, PTL DEF Spec

\* Every variable keeps its type.
THEOREM TypeCorrect == Spec => []TypeOK
<1>1. Inv => TypeOK
  BY DEF Inv
<1> QED BY <1>1, Invariance, PTL

\* For any number of callers and connections, the map and the list of a cache
\* agree although the sweep takes no lock, in every serial outcome of its races.
THEOREM MapAndListAgree == Spec => []MapListAgree
<1>1. Inv => MapListAgree
  BY DEF Inv, CacheInv
<1> QED BY <1>1, Invariance, PTL

\* The lists stay sorted by deadline: the sweep may stop at the first node
\* that has not expired.
THEOREM DeadlineOrdered == Spec => []DeadlineOrder
<1>1. Inv => DeadlineOrder
  BY DEF Inv, CacheInv
<1> QED BY <1>1, Invariance, PTL

\* A bounded cache never exceeds its capacity between two calls.
THEOREM CapacityKept == Spec => []Capacity
<1>1. Inv => Capacity
  BY DEF Inv, CacheInv
<1> QED BY <1>1, Invariance, PTL

\* A key is out of its cache exactly when its callback has run or is about to:
\* no connection is dropped without being closed, none is closed and kept.
THEOREM CallbackExactlyIfRemoved == Spec => []CallbackIffRemoved
<1>1. Inv => CallbackIffRemoved
  BY DEF Inv, CacheInv
<1> QED BY <1>1, Invariance, PTL

-----------------------------------------------------------------------------
\* After Stop.

\* Stop returned only after the cleanup goroutine exited, and the goroutine
\* does not come back.
Quiesced == stopper = "returned" => pc = "exited"

\* Once Stop has returned the cleanup goroutine has, and stays so.
LEMMA QuiescedInvariant == Spec => []Quiesced
<1>1. Init => Quiesced
  BY DEF Init, Quiesced
<1>2. Quiesced /\ [Next]_vars => Quiesced'
  <2> SUFFICES ASSUME Quiesced, [Next]_vars PROVE Quiesced'
    OBVIOUS
  <2>1. CASE UNCHANGED vars
    BY <2>1 DEF Quiesced, vars, sweepVars, stopVars
  <2>2. ASSUME NEW p \in Proto, Caller(p)
        PROVE  Quiesced'
    BY <2>2 DEF Caller, Lock, Put, Touch, RemoveKey, Unlock, Quiesced, sweepVars, stopVars
  <2>3. CASE ClockTick \/ TickerFires
    BY <2>3 DEF ClockTick, TickerFires, Quiesced, sweepVars, stopVars
  <2>4. CASE Start
    BY <2>4 DEF Start, Quiesced, stopVars
  <2>5. CASE CleanupLoop
    <3>1. pc # "exited" /\ UNCHANGED stopper
      BY <2>5 DEF CleanupLoop, Sweep, LoopQuits, LoopTicks, SweepQuota, SweepBack,
         SweepCheck, SweepUnmap, SweepUnlink, SweepCallback, stopVars
    <3> QED BY <3>1 DEF Quiesced
  <2>6. CASE StopCalled \/ StopReturns
    BY <2>6 DEF StopCalled, StopReturns, Quiesced, sweepVars
  <2> QED BY <2>1, <2>2, <2>3, <2>4, <2>5, <2>6 DEF Next, Crashed
<1> QED BY <1>1, <1>2, PTL DEF Spec

\* Once Stop has returned, only a caller's own call changes a cache or runs
\* a callback, whatever the sweep was doing when Stop was called.
THEOREM QuietOnceStopped == Spec => QuietAfterStop
<1> DEFINE A == stopper = "returned" /\ cacheVars' # cacheVars
                   => \E p \in Proto : holder'[p] # holder[p]
<1>1. Inv /\ Quiesced /\ [Next]_vars => [A]_vars
  <2> SUFFICES ASSUME Inv, Quiesced, Next, stopper = "returned", cacheVars' # cacheVars
               PROVE  \E p \in Proto : holder'[p] # holder[p]
    OBVIOUS
  <2>1. pc = "exited"
    BY DEF Quiesced
  <2>2. ASSUME NEW p \in Proto, Caller(p)
        PROVE  holder'[p] # holder[p]
    <3>1. ASSUME NEW op \in Ops, NEW k \in KeysOf(p), Lock(p, op, k)
          PROVE  holder'[p] # holder[p]
      <4>1. holder[p] = Free /\ holder'[p] = [op |-> op, key |-> k]
        BY <3>1 DEF Lock, Inv, TypeOK
      <4> QED BY <4>1 DEF Free, Ops
    <3>2. CASE Put(p) \/ Touch(p) \/ RemoveKey(p)
      <4>1. holder[p].op # "free" /\ holder'[p] = Free
        BY <3>2 DEF Put, Touch, RemoveKey, Unlock, Inv, TypeOK
      <4> QED BY <4>1 DEF Free
    <3> QED BY <2>2, <3>1, <3>2 DEF Caller
  <2>3. ~CleanupLoop
    BY <2>1 DEF CleanupLoop, Sweep, LoopQuits, LoopTicks, SweepQuota, SweepBack,
       SweepCheck, SweepUnmap, SweepUnlink, SweepCallback
  <2>4. ~(ClockTick \/ TickerFires \/ Start \/ StopCalled \/ StopReturns \/ Crashed)
    BY DEF ClockTick, TickerFires, Start, StopCalled, StopReturns, Crashed, vars
  <2> QED BY <2>2, <2>3, <2>4 DEF Next
<1> QED BY <1>1, Invariance, QuiescedInvariant, PTL DEF Spec, QuietAfterStop

=============================================================================
