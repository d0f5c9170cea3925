---------------------------- MODULE UDPRelayProofs ----------------------------
(***************************************************************************)
(* Proofs about UDPRelay, for any clients, limit, timeout and ratio.  The  *)
(* relay drives the cleanup manager as its callers may (DrivesManager), so *)
(* that the invariant of CleanupManagerProofs holds in it.                 *)
(***************************************************************************)
EXTENDS UDPRelay, FiniteSetTheorems, TLAPS

\* The proofs about the manager, for the instance CM of UDPRelay.
CMP == INSTANCE CleanupManagerProofs WITH
        TCPKeys <- {}, UDPKeys <- Fwds, TCPTimeout <- UDPTimeout,
        MinClear <- 1, DisableClear <- FALSE

-----------------------------------------------------------------------------
\* The instance of the manager.

\* The assumptions of CleanupManager hold for it.
LEMMA ManagerParams ==
    /\ {} \cap Fwds = {} /\ NoKey \notin {} \cup Fwds
    /\ UDPTimeout \in Nat /\ UDPTimeout \in Nat
    /\ ClearRatio \in Nat \ {0} /\ 1 \in Nat \ {0}
    /\ MaxConns \in Nat /\ FALSE \in BOOLEAN
    /\ MaxTime \in Nat
BY MaxConnsPositive, RelayBounds, CleanerParams

\* CM and CMP are the same manager.
LEMMA SameManager == CM!Spec <=> CMP!Spec
<1>1. CM!Init <=> CMP!Init
  BY DEF CM!Init, CM!Proto, CM!Keys, CM!Free, CM!NoTick,
         CMP!Init, CMP!Proto, CMP!Keys, CMP!Free, CMP!NoTick
<1>2. \A s, k : CM!Without(s, k) = CMP!Without(s, k)
  BY DEF CM!Without, CM!ToSet, CM!RemoveAt, CMP!Without, CMP!ToSet, CMP!RemoveAt
<1>3. \A s, k : CM!MoveToFront(s, k) = CMP!MoveToFront(s, k)
  BY <1>2 DEF CM!MoveToFront, CM!PushFront, CM!ToSet, CMP!MoveToFront, CMP!PushFront, CMP!ToSet
<1>4. CM!Sweep <=> CMP!Sweep
  BY <1>2 DEF CM!Sweep, CM!SweepQuota, CM!SweepReturns, CM!SweepBack, CM!SweepCheck,
         CM!SweepUnmap, CM!SweepUnlink, CM!SweepCallback, CM!RunCallbacks, CM!Races,
         CM!Free, CM!CleanQuota, CM!Last, CM!Keys, CM!cacheVars, CM!stopVars,
         CMP!Sweep, CMP!SweepQuota, CMP!SweepReturns, CMP!SweepBack, CMP!SweepCheck,
         CMP!SweepUnmap, CMP!SweepUnlink, CMP!SweepCallback, CMP!RunCallbacks, CMP!Races,
         CMP!Free, CMP!CleanQuota, CMP!Last, CMP!Keys, CMP!cacheVars, CMP!stopVars
<1>5. ASSUME NEW p PROVE CM!Caller(p) <=> CMP!Caller(p)
  BY <1>2, <1>3
     DEF CM!Caller, CM!Lock, CM!Put, CM!Touch, CM!RemoveKey, CM!Unlock, CM!RunCallbacks,
         CM!PushFront, CM!Trimmed, CM!Evicted, CM!ToSet, CM!KeysOf, CM!TimeoutOf, CM!Keys,
         CM!Free, CM!Ops, CM!sweepVars, CM!stopVars,
         CMP!Caller, CMP!Lock, CMP!Put, CMP!Touch, CMP!RemoveKey, CMP!Unlock, CMP!RunCallbacks,
         CMP!PushFront, CMP!Trimmed, CMP!Evicted, CMP!ToSet, CMP!KeysOf, CMP!TimeoutOf, CMP!Keys,
         CMP!Free, CMP!Ops, CMP!sweepVars, CMP!stopVars
<1>6. CM!Next <=> CMP!Next
  BY <1>4, <1>5
     DEF CM!Next, CM!CleanupLoop, CM!LoopQuits, CM!LoopTicks, CM!ClockTick, CM!TickerFires,
         CM!Start, CM!StopCalled, CM!StopReturns, CM!Crashed, CM!Proto, CM!NoTick,
         CM!cacheVars, CM!sweepVars, CM!stopVars, CM!vars,
         CMP!Next, CMP!CleanupLoop, CMP!LoopQuits, CMP!LoopTicks, CMP!ClockTick, CMP!TickerFires,
         CMP!Start, CMP!StopCalled, CMP!StopReturns, CMP!Crashed, CMP!Proto, CMP!NoTick,
         CMP!cacheVars, CMP!sweepVars, CMP!stopVars, CMP!vars
<1>7. CM!vars = CMP!vars /\ CM!vars' = CMP!vars'
  BY DEF CM!cacheVars, CM!sweepVars, CM!stopVars, CM!vars,
         CMP!cacheVars, CMP!sweepVars, CMP!stopVars, CMP!vars
<1>8. [CM!Next]_(CM!vars) <=> [CMP!Next]_(CMP!vars)
  BY <1>6, <1>7
<1> QED BY <1>1, <1>8, PTL DEF CM!Spec, CMP!Spec

\* Its invariant, proved in CleanupManagerProofs.
LEMMA ManagerInvariant == CM!Spec => []CMP!Inv
<1>1. CMP!Spec => []CMP!Inv
  BY ManagerParams, CMP!Invariance
<1> QED BY <1>1, SameManager, PTL

-----------------------------------------------------------------------------
\* The relay's own tables.

\* The forwarders are numbered in the order they are made.
Numbered == \E n \in 0 .. MaxFwds : Made = 1 .. n

\* handleUDP works on the forwarder of the datagram's client.
HandlerTyped ==
    /\ h \in [at : {"read", "lookup", "add", "adding", "touch", "touching", "forward"},
              c : Clients \cup {NoKey}, f : Made \cup {NoKey}]
    /\ h.at = "read" \/ h.c \in Clients
    /\ h.at \in {"add", "adding", "touch", "touching", "forward"} => h.f \in Made

\* Both tables are finite, and list the clients under their forwarders.
TablesTyped ==
    /\ \A c \in DOMAIN table : c \in Clients /\ table[c] \in Made
    /\ \A f \in Made : client[f] \in Clients
    /\ conns \subseteq Clients /\ IsFiniteSet(conns)

RelayInv == Numbered /\ HandlerTyped /\ TablesTyped /\ OneForwarderPerClient

\* A forwarder that was made is within the bound.
LEMMA MadeAreFwds == Numbered => Made \subseteq Fwds
BY RelayBounds DEF Numbered, Fwds

\* The number of the next forwarder is new.
LEMMA NextNumber ==
    ASSUME Numbered, Cardinality(Made) + 1 \in Fwds
    PROVE  /\ Cardinality(Made) + 1 \notin Made
           /\ \E n \in 0 .. MaxFwds : Made \cup {Cardinality(Made) + 1} = 1 .. n
<1>1. PICK n \in 0 .. MaxFwds : Made = 1 .. n
  BY DEF Numbered
<1>2. Cardinality(Made) = n
  BY <1>1, FS_Interval, RelayBounds
<1>3. Made \cup {n + 1} = 1 .. n + 1 /\ n + 1 \in 0 .. MaxFwds
  BY <1>1, <1>2, RelayBounds DEF Fwds
<1> QED BY <1>1, <1>2, <1>3

\* A new session is entered in both tables, for a client that was in neither.
LEMMA NewSessionRelay ==
    ASSUME RelayInv, NewSession
    PROVE  RelayInv'
<1> DEFINE f == Cardinality(Made) + 1
<1> USE DEF RelayInv
<1>1. /\ h.at = "lookup" /\ f \in Fwds
      /\ Cardinality(conns) < MaxConns /\ h.c \notin conns
      /\ conns' = conns \cup {h.c}
      /\ client' = With(client, f, h.c)
      /\ table' = With(table, h.c, f)
      /\ h' = [h EXCEPT !.at = "add", !.f = f]
  BY DEF NewSession
<1>2. f \notin Made /\ \E n \in 0 .. MaxFwds : Made \cup {f} = 1 .. n
  BY <1>1, NextNumber
<1> HIDE DEF f
<1>3. /\ Made' = Made \cup {f} /\ client'[f] = h.c
      /\ \A g \in Made : client'[g] = client[g]
  BY <1>1, <1>2 DEF With, Made
<1>4. h.c \in Clients /\ h.c \notin DOMAIN table
  BY <1>1 DEF HandlerTyped, OneForwarderPerClient
<1>5. /\ DOMAIN table' = DOMAIN table \cup {h.c} /\ table'[h.c] = f
      /\ \A c \in DOMAIN table : table'[c] = table[c]
  BY <1>1, <1>4 DEF With
<1>6. Numbered'
  BY <1>2, <1>3 DEF Numbered
<1>7. HandlerTyped'
  BY <1>1, <1>3, <1>4 DEF HandlerTyped
<1>8. /\ IsFiniteSet(conns') /\ Cardinality(conns') = Cardinality(conns) + 1
      /\ Cardinality(conns) \in Nat
  BY <1>1, FS_AddElement, FS_CardinalityType DEF TablesTyped
<1>9. TablesTyped'
  BY <1>1, <1>3, <1>4, <1>5, <1>8 DEF TablesTyped
<1>10. OneForwarderPerClient'
  <2>1. Cardinality(conns') <= MaxConns
    BY <1>1, <1>8, MaxConnsPositive
  <2>2. DOMAIN table' = conns'
    BY <1>1, <1>5 DEF OneForwarderPerClient
  <2>3. ASSUME NEW g \in Made'
        PROVE  client'[g] \in conns' /\ table'[client'[g]] = g
    <3>1. CASE g = f
      BY <3>1, <1>1, <1>3, <1>5
    <3>2. CASE g # f
      <4>1. g \in Made /\ client'[g] = client[g]
        BY <2>3, <3>2, <1>3
      <4>2. client[g] \in conns /\ client[g] \in DOMAIN table /\ table[client[g]] = g
        BY <4>1 DEF OneForwarderPerClient
      <4> QED BY <4>1, <4>2, <1>1, <1>5
    <3> QED BY <3>1, <3>2
  <2> QED BY <2>1, <2>2, <2>3 DEF OneForwarderPerClient
<1> QED BY <1>6, <1>7, <1>9, <1>10

\* The relay's invariant holds at the start and no step breaks it.
LEMMA RelayInvariant == Spec => []RelayInv
<1>1. Init => RelayInv
  <2> SUFFICES ASSUME Init PROVE RelayInv
    OBVIOUS
  <2>1. DOMAIN table = {} /\ Made = {} /\ conns = {} /\ h = Idle
    BY DEF Init, Made
  <2>2. 1 .. 0 = {} /\ 0 \in 0 .. MaxFwds
    BY RelayBounds
  <2>3. IsFiniteSet({}) /\ Cardinality({}) = 0
    BY FS_EmptySet
  <2> QED BY <2>1, <2>2, <2>3, MaxConnsPositive
          DEF RelayInv, Numbered, HandlerTyped, TablesTyped, OneForwarderPerClient, Idle
<1>2. RelayInv /\ [Next]_vars => RelayInv'
  <2> SUFFICES ASSUME RelayInv, [Next]_vars PROVE RelayInv'
    OBVIOUS
  <2>1. CASE NewSession
    BY <2>1, NewSessionRelay
  <2>2. ASSUME UNCHANGED tables, HandlerTyped' PROVE RelayInv'
    BY <2>2 DEF RelayInv, tables, Numbered, Made, TablesTyped, OneForwarderPerClient
  <2> USE DEF RelayInv, HandlerTyped, tables, Made
  <2>3. ASSUME NEW c \in Clients, ReadFrom(c) PROVE RelayInv'
    BY <2>2, <2>3 DEF ReadFrom, Idle
  <2>4. CASE LookupFinds
    BY <2>2, <2>4 DEF LookupFinds, Known, TablesTyped
  <2>5. CASE Refuse
    BY <2>2, <2>5 DEF Refuse, Idle
  <2>6. CASE LockAdd \/ LockTouch
    BY <2>2, <2>6 DEF LockAdd, LockTouch, LockCache
  <2>7. CASE AddUDP \/ TouchUDP
    BY <2>2, <2>7 DEF AddUDP, TouchUDP
  <2>8. CASE ForwardToRemote
    BY <2>2, <2>8 DEF ForwardToRemote, Idle
  <2>9. ASSUME NEW f \in Fwds, Reader(f) \/ RemoteAnswers(f) PROVE RelayInv'
    BY <2>2, <2>9 DEF Reader, ReaderSelects, ReaderReads, ReaderDelivers, RemoteAnswers
  <2>10. CASE Background
    BY <2>2, <2>10 DEF Background
  <2>11. CASE UNCHANGED vars
    BY <2>2, <2>11 DEF vars
  <2> QED BY <2>1, <2>3, <2>4, <2>5, <2>6, <2>7, <2>8, <2>9, <2>10, <2>11
          DEF Next, HandleUDP, Crashed
<1> QED BY <1>1, <1>2, PTL DEF Spec

\* Every datagram of every client finds one forwarder, or makes it: the two
\* tables of handleUDP (event/loop.go:320-388) agree.
THEOREM OneForwarder == Spec => []OneForwarderPerClient
<1>1. RelayInv => OneForwarderPerClient
  BY DEF RelayInv
<1> QED BY <1>1, RelayInvariant, PTL

-----------------------------------------------------------------------------
\* The relay and the manager together.

\* The steps of the cleanup goroutine, of its ticker and of the clock are the
\* manager's own.
LEMMA BackgroundStep ==
    ASSUME Background
    PROVE  CM!Next /\ UNCHANGED <<used, holder>>
<1>1. CM!Next
  BY DEF Background, CM!Next
<1>2. UNCHANGED <<used, holder>>
  BY DEF Background, CM!ClockTick, CM!TickerFires, CM!Start, CM!CleanupLoop, CM!LoopQuits,
         CM!LoopTicks, CM!Sweep, CM!SweepQuota, CM!SweepBack, CM!SweepCheck, CM!SweepUnmap,
         CM!SweepUnlink, CM!SweepCallback, CM!cacheVars
<1> QED BY <1>1, <1>2

\* A step of the relay is a step of the manager or leaves it alone: the calls
\* of handleUDP are for a forwarder that was made.
LEMMA ManagerStep == RelayInv /\ [Next]_vars => [CM!Next]_(CM!vars)
<1> SUFFICES ASSUME RelayInv, [Next]_vars PROVE CM!Next \/ UNCHANGED CM!vars
  OBVIOUS
<1>1. UNCHANGED cmVars => UNCHANGED CM!vars
  BY DEF cmVars, CM!vars, CM!cacheVars, CM!sweepVars, CM!stopVars
<1>2. CASE LockAdd \/ LockTouch
  <2>1. h.f \in Made
    BY <1>2 DEF LockAdd, LockTouch, LockCache, RelayInv, HandlerTyped
  <2>2. h.f \in CM!KeysOf("udp")
    BY <2>1, MadeAreFwds DEF RelayInv, CM!KeysOf
  <2>3. \E op \in CM!Ops : CM!Lock("udp", op, h.f)
    BY <1>2 DEF LockAdd, LockTouch, LockCache, CM!Ops
  <2> QED BY <2>2, <2>3 DEF CM!Next, CM!Caller, CM!Proto
<1>3. CASE AddUDP \/ TouchUDP
  BY <1>3 DEF AddUDP, TouchUDP, CM!Next, CM!Caller, CM!Proto
<1>4. CASE Background
  BY <1>4, BackgroundStep
<1>5. CASE LookupFinds \/ Refuse \/ NewSession \/ ForwardToRemote
  BY <1>1, <1>5 DEF LookupFinds, Refuse, NewSession, ForwardToRemote
<1>6. ASSUME NEW c \in Clients, ReadFrom(c) PROVE UNCHANGED CM!vars
  BY <1>1, <1>6 DEF ReadFrom
<1>7. ASSUME NEW f \in Fwds, Reader(f) \/ RemoteAnswers(f) PROVE UNCHANGED CM!vars
  BY <1>1, <1>7 DEF Reader, ReaderSelects, ReaderReads, ReaderDelivers, RemoteAnswers
<1>8. CASE UNCHANGED vars
  BY <1>1, <1>8 DEF vars
<1> QED BY <1>2, <1>3, <1>4, <1>5, <1>6, <1>7, <1>8 DEF Next, HandleUDP, Crashed

\* handleUDP calls the cleanup manager (cleanup/manager.go) as its callers may:
\* the relay implements CleanupManager.
THEOREM DrivesManager == Spec => CM!Spec
<1>1. Init => CM!Init
  BY DEF Init
<1> QED BY <1>1, ManagerStep, RelayInvariant, PTL DEF Spec, CM!Spec

\* A closed forwarder stays closed.
LEMMA ClosedStays ==
    ASSUME RelayInv, CMP!Inv, [Next]_vars, NEW f \in Fwds, Closed(f)
    PROVE  Closed(f)'
<1>1. cleaned \in [Fwds -> Nat]
  BY DEF CMP!Inv, CMP!TypeOK, CMP!Keys
<1>2. CASE UNCHANGED CM!vars
  BY <1>2 DEF Closed, CM!vars, CM!cacheVars
<1>3. CASE UNCHANGED cleaned
  BY <1>3 DEF Closed
<1>4. ASSUME NEW S, CM!RunCallbacks(S) PROVE Closed(f)'
  BY <1>1, <1>4 DEF CM!RunCallbacks, CM!Keys, Closed
<1>5. CASE CM!Next
  <2>1. ASSUME NEW p \in CM!Proto, CM!Caller(p) PROVE Closed(f)'
    BY <2>1, <1>3, <1>4 DEF CM!Caller, CM!Lock, CM!Put, CM!Touch, CM!RemoveKey
  <2>2. CASE CM!CleanupLoop
    BY <2>2, <1>3, <1>4
       DEF CM!CleanupLoop, CM!LoopQuits, CM!LoopTicks, CM!Sweep, CM!SweepQuota, CM!SweepBack,
           CM!SweepCheck, CM!SweepUnmap, CM!SweepUnlink, CM!SweepCallback, CM!cacheVars
  <2>3. CASE CM!ClockTick \/ CM!TickerFires \/ CM!Start \/ CM!StopCalled \/ CM!StopReturns
             \/ CM!Crashed
    BY <2>3, <1>2, <1>3
       DEF CM!ClockTick, CM!TickerFires, CM!Start, CM!StopCalled, CM!StopReturns, CM!Crashed,
           CM!cacheVars
  <2> QED BY <1>5, <2>1, <2>2, <2>3 DEF CM!Next
<1> QED BY <1>2, <1>5, ManagerStep

\* The call that handleUDP makes inside the mutex is for its own forwarder.
CallIsOwn == h.at = "adding" => holder["udp"].key = h.f

\* A forwarder is in the cache's history once handleUDP has added it.
AddedOnceMade == \A f \in Made : f \in used \/ (h.f = f /\ h.at \in {"add", "adding"})

\* A reader that has seen f.done closed has left its loop, and one that sends
\* an answer too late sees it next.
LateInv ==
    \A f \in Fwds :
        /\ late[f] \in 0 .. 1
        /\ late[f] > 0 => Closed(f) /\ reader[f] \notin {"read", "deliver"}

\* The variables that CM!TypeOK leaves out.
RemoteTyped ==
    /\ reader \in [Fwds -> {"none", "select", "read", "deliver", "exited"}]
    /\ net \in [Fwds -> {"empty", "reply", "refused"}]
    /\ owed \in [Fwds -> Nat]
    /\ sent \in Nat
    /\ late \in [Fwds -> Nat]

Inv ==
    /\ RelayInv /\ CMP!Inv
    /\ CallIsOwn /\ AddedOnceMade
    /\ RemoteTyped /\ LateInv

\* The call of handleUDP keeps its key, and what it puts is added to the
\* history, whatever the cleanup goroutine does meanwhile.
LEMMA CallsInv ==
    ASSUME Inv, [Next]_vars
    PROVE  CallIsOwn' /\ AddedOnceMade'
<1> USE DEF Inv, CallIsOwn, AddedOnceMade, Made
<1>1. holder \in [{"tcp", "udp"} -> CMP!Calls]
  BY DEF CMP!Inv, CMP!TypeOK, CMP!Proto
<1>2. h \in [at : {"read", "lookup", "add", "adding", "touch", "touching", "forward"},
             c : Clients \cup {NoKey}, f : Made \cup {NoKey}]
  BY DEF RelayInv, HandlerTyped
<1>3. CASE NewSession
  <2>1. /\ Cardinality(Made) + 1 \notin Made
        /\ client' = With(client, Cardinality(Made) + 1, h.c)
        /\ h'.f = Cardinality(Made) + 1 /\ h'.at = "add"
        /\ UNCHANGED used
        /\ h.at = "lookup"
    BY <1>2, <1>3, NextNumber DEF NewSession, RelayInv, cmVars
  <2>2. Made' = Made \cup {Cardinality(Made) + 1}
    BY <2>1 DEF With
  <2> QED BY <2>1, <2>2
<1>4. CASE LockAdd \/ LockTouch
  BY <1>1, <1>2, <1>4 DEF LockAdd, LockTouch, LockCache, CM!Lock, tables
<1>5. CASE AddUDP
  BY <1>2, <1>5 DEF AddUDP, CM!Put, tables
<1>6. CASE TouchUDP
  BY <1>2, <1>6 DEF TouchUDP, CM!Touch, tables
<1>7. CASE Background
  BY <1>7, BackgroundStep DEF Background, tables
<1>8. CASE LookupFinds \/ Refuse \/ ForwardToRemote
  <2>1. h'.at \notin {"add", "adding"} /\ h.at \notin {"add", "adding"}
    <3>1. CASE LookupFinds
      BY <1>2, <3>1 DEF LookupFinds
    <3>2. CASE Refuse \/ ForwardToRemote
      BY <3>2 DEF Refuse, ForwardToRemote, Idle
    <3> QED BY <1>8, <3>1, <3>2
  <2>2. UNCHANGED <<used, client>>
    BY <1>8 DEF LookupFinds, Refuse, ForwardToRemote, cmVars, tables
  <2> QED BY <2>1, <2>2
<1>9. ASSUME NEW c \in Clients, ReadFrom(c) PROVE CallIsOwn' /\ AddedOnceMade'
  BY <1>2, <1>9 DEF ReadFrom, Idle, cmVars, tables
<1>10. ASSUME NEW f \in Fwds, Reader(f) \/ RemoteAnswers(f) PROVE CallIsOwn' /\ AddedOnceMade'
  BY <1>10 DEF Reader, ReaderSelects, ReaderReads, ReaderDelivers, RemoteAnswers, cmVars, tables
<1>11. CASE UNCHANGED vars
  BY <1>11 DEF vars, cmVars, tables
<1> QED BY <1>3, <1>4, <1>5, <1>6, <1>7, <1>8, <1>9, <1>10, <1>11 DEF Next, HandleUDP, Crashed

\* The variables of the reader goroutines keep their types.
LEMMA RemoteTypedStep ==
    ASSUME Inv, [Next]_vars
    PROVE  RemoteTyped'
<1> USE DEF Inv, RemoteTyped, remoteSide
<1>1. h.f \in Fwds \/ h.at \notin {"add", "adding", "touch", "touching", "forward"}
  BY MadeAreFwds DEF RelayInv, HandlerTyped
<1>2. CASE NewSession
  BY <1>2 DEF NewSession
<1>3. CASE ForwardToRemote
  BY <1>1, <1>3 DEF ForwardToRemote
<1>4. CASE LookupFinds \/ Refuse \/ LockAdd \/ LockTouch \/ AddUDP \/ TouchUDP
  BY <1>4 DEF LookupFinds, Refuse, LockAdd, LockTouch, LockCache, AddUDP, TouchUDP
<1>5. CASE Background
  BY <1>5 DEF Background
<1>6. ASSUME NEW c \in Clients, ReadFrom(c) PROVE RemoteTyped'
  BY <1>6 DEF ReadFrom
<1>7. ASSUME NEW f \in Fwds, Reader(f) PROVE RemoteTyped'
  <2>1. CASE ReaderSelects(f)
    BY <2>1 DEF ReaderSelects
  <2>2. CASE ReaderReads(f)
    BY <2>2 DEF ReaderReads
  <2>3. CASE ReaderDelivers(f)
    BY <2>3 DEF ReaderDelivers
  <2> QED BY <1>7, <2>1, <2>2, <2>3 DEF Reader
<1>8. ASSUME NEW f \in Fwds, RemoteAnswers(f) PROVE RemoteTyped'
  <2>1. owed[f] - 1 \in Nat
    BY <1>8 DEF RemoteAnswers
  <2>2. owed' \in [Fwds -> Nat]
    BY <1>8, <2>1 DEF RemoteAnswers
  <2> QED BY <1>8, <2>2 DEF RemoteAnswers
<1>9. CASE UNCHANGED vars
  BY <1>9 DEF vars
<1> QED BY <1>2, <1>3, <1>4, <1>5, <1>6, <1>7, <1>8, <1>9 DEF Next, HandleUDP, Crashed

\* The select on f.done keeps a second late answer from the client.
LEMMA LateStep ==
    ASSUME Inv, [Next]_vars
    PROVE  LateInv'
<1> USE DEF Inv, LateInv, RemoteTyped, remoteSide
<1>1. \A f \in Fwds : Closed(f) => Closed(f)'
  BY ClosedStays
<1>2. ASSUME NEW g \in Fwds,
             \A f \in Fwds \ {g} : reader'[f] = reader[f] /\ late'[f] = late[f],
             late'[g] \in 0 .. 1,
             late'[g] > 0 => Closed(g) /\ reader'[g] \notin {"read", "deliver"}
      PROVE  LateInv'
  BY <1>1, <1>2
<1>3. CASE UNCHANGED <<reader, late>>
  BY <1>1, <1>3
<1>4. CASE NewSession
  <2>1. PICK g \in Fwds : reader' = [reader EXCEPT ![g] = "select"]
    BY <1>4 DEF NewSession
  <2> QED BY <1>2, <1>4, <2>1 DEF NewSession
<1>5. ASSUME NEW f \in Fwds, Reader(f) PROVE LateInv'
  <2>1. CASE ReaderSelects(f)
    BY <1>2, <2>1 DEF ReaderSelects
  <2>2. CASE ReaderReads(f)
    BY <1>2, <2>2 DEF ReaderReads
  <2>3. CASE ReaderDelivers(f)
    <3>1. late[f] = 0
      BY <2>3 DEF ReaderDelivers
    <3> QED BY <1>2, <2>3, <3>1 DEF ReaderDelivers
  <2> QED BY <1>5, <2>1, <2>2, <2>3 DEF Reader
<1>6. CASE LookupFinds \/ Refuse \/ LockAdd \/ LockTouch \/ AddUDP \/ TouchUDP \/ ForwardToRemote
  BY <1>3, <1>6
     DEF LookupFinds, Refuse, LockAdd, LockTouch, LockCache, AddUDP, TouchUDP, ForwardToRemote
<1>7. CASE Background
  BY <1>3, <1>7 DEF Background
<1>8. ASSUME NEW c \in Clients, ReadFrom(c) PROVE LateInv'
  BY <1>3, <1>8 DEF ReadFrom
<1>9. ASSUME NEW f \in Fwds, RemoteAnswers(f) PROVE LateInv'
  BY <1>3, <1>9 DEF RemoteAnswers
<1>10. CASE UNCHANGED vars
  BY <1>3, <1>10 DEF vars
<1> QED BY <1>4, <1>5, <1>6, <1>7, <1>8, <1>9, <1>10 DEF Next, HandleUDP, Crashed

\* The inductive invariant, of the relay and the manager together.
THEOREM Invariance == Spec => []Inv
<1>1. Init /\ RelayInv /\ CMP!Inv => Inv
  <2> SUFFICES ASSUME Init, RelayInv, CMP!Inv PROVE Inv
    OBVIOUS
  <2>1. Made = {} /\ h.at = "read"
    BY DEF Init, Made, Idle
  <2> QED BY <2>1 DEF Inv, Init, CallIsOwn, AddedOnceMade, RemoteTyped, LateInv
<1>2. Inv /\ RelayInv' /\ CMP!Inv' /\ [Next]_vars => Inv'
  BY CallsInv, RemoteTypedStep, LateStep DEF Inv
<1>3. Spec => [](RelayInv /\ CMP!Inv)
  BY RelayInvariant, DrivesManager, ManagerInvariant, PTL
<1> QED BY <1>1, <1>2, <1>3, PTL DEF Spec

\* Every variable of the relay keeps its type.
THEOREM TypeCorrect == Spec => []TypeOK
<1>1. CMP!TypeOK <=> CM!TypeOK
  BY DEF CM!TypeOK, CM!Keys, CM!KeysOf, CM!Proto, CM!Calls, CM!Ops, CM!NoTick, CM!PC,
         CM!SweepSteps, CM!VictimSteps, CM!HasVictim, CM!ToSet,
         CMP!TypeOK, CMP!Keys, CMP!KeysOf, CMP!Proto, CMP!Calls, CMP!Ops, CMP!NoTick, CMP!PC,
         CMP!SweepSteps, CMP!VictimSteps, CMP!HasVictim, CMP!ToSet
<1>2. Inv => TypeOK
  BY <1>1, MadeAreFwds
     DEF Inv, RelayInv, CMP!Inv, TypeOK, HandlerTyped, TablesTyped, RemoteTyped, Made
<1> QED BY <1>2, Invariance, PTL

\* No session outlives its timeout because the cleaner has lost it: a forwarder
\* that is open is in the cache, about to be added or about to be closed
\* (event/loop.go:381-391, lru/cache.go:170-198).
THEOREM TrackedWhileOpen == Spec => []OpenIsTracked
<1>1. Inv => OpenIsTracked
  <2> SUFFICES ASSUME Inv, NEW f \in Made, ~Closed(f), f \in used
               PROVE  f \in ToSet(li["udp"]) \/ (pc = "callback" /\ victim = f)
    BY DEF Inv, AddedOnceMade, OpenIsTracked
  <2>1. f \in used \cap CMP!KeysOf("udp") /\ "udp" \in CMP!Proto
    BY MadeAreFwds DEF Inv, RelayInv, CMP!KeysOf, CMP!Proto
  <2>2. CMP!ToSet(li["udp"]) = ToSet(li["udp"])
    BY DEF CMP!ToSet, ToSet
  <2> QED BY <2>1, <2>2 DEF Inv, CMP!Inv, CMP!CacheInv, CMP!CallbackIffRemoved, Closed
<1> QED BY <1>1, Invariance, PTL

\* A client gets at most one answer after its forwarder was closed
\* (forward/udp.go:83-115).
THEOREM AtMostOneLate == Spec => []OneLateDelivery
<1>1. Inv => OneLateDelivery
  BY DEF Inv, LateInv, OneLateDelivery
<1> QED BY <1>1, Invariance, PTL

=============================================================================
