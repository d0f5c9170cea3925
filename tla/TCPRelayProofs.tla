---------------------------- MODULE TCPRelayProofs ----------------------------
(***************************************************************************)
(* Proofs about TCPRelay, for any limit, timeout and ratio and any number  *)
(* of pairs.  The relay drives the cleanup manager as its callers may      *)
(* (DrivesManager), so that the invariant of CleanupManagerProofs holds in *)
(* it, and implements Sessions (RelayImplementsSessions).                  *)
(***************************************************************************)
EXTENDS TCPRelay, FiniteSetTheorems, TLAPS

\* The proofs about the manager, for the instance CM of TCPRelay.
CMP == INSTANCE CleanupManagerProofs WITH
        TCPKeys <- Sessions, UDPKeys <- {}, UDPTimeout <- TCPTimeout,
        MinClear <- 1, DisableClear <- FALSE

-----------------------------------------------------------------------------
\* The instance of the manager.

\* The assumptions of CleanupManager hold for it.
LEMMA ManagerParams ==
    /\ Sessions \cap {} = {} /\ NoKey \notin Sessions \cup {}
    /\ TCPTimeout \in Nat /\ TCPTimeout \in Nat
    /\ ClearRatio \in Nat \ {0} /\ 1 \in Nat \ {0}
    /\ MaxConns \in Nat /\ FALSE \in BOOLEAN
    /\ MaxTime \in Nat
BY MaxConnsPositive, TCPBounds, CleanerParams

\* CM and CMP are the same manager.
LEMMA SameManager == CM!Spec <=> CMP!Spec
<1>1. CM!Init <=> CMP!Init
  BY DEF CM!Init, CM!Proto, CM!Keys, CM!Free, CM!NoTick,
         CMP!Init, CMP!Proto, CMP!Keys, CMP!Free, CMP!NoTick
<1>2. \A s, k : CM!Without(s, k) = CMP!Without(s, k)
  BY DEF CM!Without, CM!ToSet, CM!RemoveAt, CMP!Without, CMP!ToSet, CMP!RemoveAt
<1>3. \A s, k : CM!MoveToFront(s, k) = CMP!MoveToFront(s, k)
  BY <1>2 DEF CM!MoveToFront, CM!PushFront, CM!ToSet, CMP!MoveToFront, CMP!PushFront, CMP!ToSet
<1>4. CM!Sweep <=> CMP!Sweep
  BY <1>2 DEF CM!Sweep, CM!SweepQuota, CM!SweepReturns, CM!SweepBack, CM!SweepCheck,
         CM!SweepUnmap, CM!SweepUnlink, CM!SweepCallback, CM!RunCallbacks, CM!Races,
         CM!Free, CM!CleanQuota, CM!Last, CM!Keys, CM!cacheVars, CM!stopVars,
         CMP!Sweep, CMP!SweepQuota, CMP!SweepReturns, CMP!SweepBack, CMP!SweepCheck,
         CMP!SweepUnmap, CMP!SweepUnlink, CMP!SweepCallback, CMP!RunCallbacks, CMP!Races,
         CMP!Free, CMP!CleanQuota, CMP!Last, CMP!Keys, CMP!cacheVars, CMP!stopVars
<1>5. ASSUME NEW p PROVE CM!Caller(p) <=> CMP!Caller(p)
  BY <1>2, <1>3
     DEF CM!Caller, CM!Lock, CM!Put, CM!Touch, CM!RemoveKey, CM!Unlock, CM!RunCallbacks,
         CM!PushFront, CM!Trimmed, CM!Evicted, CM!ToSet, CM!KeysOf, CM!TimeoutOf, CM!Keys,
         CM!Free, CM!Ops, CM!sweepVars, CM!stopVars,
         CMP!Caller, CMP!Lock, CMP!Put, CMP!Touch, CMP!RemoveKey, CMP!Unlock, CMP!RunCallbacks,
         CMP!PushFront, CMP!Trimmed, CMP!Evicted, CMP!ToSet, CMP!KeysOf, CMP!TimeoutOf, CMP!Keys,
         CMP!Free, CMP!Ops, CMP!sweepVars, CMP!stopVars
<1>6. CM!Next <=> CMP!Next
  BY <1>4, <1>5
     DEF CM!Next, CM!CleanupLoop, CM!LoopQuits, CM!LoopTicks, CM!ClockTick, CM!TickerFires,
         CM!Start, CM!StopCalled, CM!StopReturns, CM!Crashed, CM!Proto, CM!NoTick,
         CM!cacheVars, CM!sweepVars, CM!stopVars, CM!vars,
         CMP!Next, CMP!CleanupLoop, CMP!LoopQuits, CMP!LoopTicks, CMP!ClockTick, CMP!TickerFires,
         CMP!Start, CMP!StopCalled, CMP!StopReturns, CMP!Crashed, CMP!Proto, CMP!NoTick,
         CMP!cacheVars, CMP!sweepVars, CMP!stopVars, CMP!vars
<1>7. CM!vars = CMP!vars /\ CM!vars' = CMP!vars'
  BY DEF CM!cacheVars, CM!sweepVars, CM!stopVars, CM!vars,
         CMP!cacheVars, CMP!sweepVars, CMP!stopVars, CMP!vars
<1>8. [CM!Next]_(CM!vars) <=> [CMP!Next]_(CMP!vars)
  BY <1>6, <1>7
<1> QED BY <1>1, <1>8, PTL DEF CM!Spec, CMP!Spec

\* Its invariant, proved in CleanupManagerProofs.
LEMMA ManagerInvariant == CM!Spec => []CMP!Inv
<1>1. CMP!Spec => []CMP!Inv
  BY ManagerParams, CMP!Invariance
<1> QED BY <1>1, SameManager, PTL

-----------------------------------------------------------------------------
\* acceptTCP.

\* acceptTCP has started a forwarder for each pair it made, but for the one it
\* works on, and found room for it before it dialled.
AcceptInv ==
    /\ made \in 0 .. MaxSessions /\ made <= MaxConns
    /\ a \in [at : {"accept", "count", "dial", "add", "adding", "start"},
              s : (1 .. made) \cup {NoKey}]
    /\ a.at \in {"accept", "count", "dial"} => fwds = 1 .. made
    /\ a.at \in {"add", "adding", "start"} => a.s = made /\ made > 0 /\ fwds = 1 .. made - 1
    /\ a.at = "dial" => made < MaxConns

\* Each pair has its goroutines, which are active only once it was made.
SessionTyped ==
    /\ copier \in [Sessions -> [{Up, Down} -> {"none", "copying", "exited"}]]
    /\ \A s \in Sessions, d \in {Up, Down} : copier[s][d] # "none" => s \in fwds
    /\ fwds \subseteq 1 .. made
    /\ active \subseteq 1 .. made
    /\ accepts \in Nat

RelayInv == AcceptInv /\ SessionTyped

\* acceptTCP keeps its invariant: the check of the limit and the pair that is
\* made are a dial apart, but nobody else makes pairs.
LEMMA AcceptStep ==
    ASSUME RelayInv, AcceptTCP \/ Accepting
    PROVE  RelayInv'
<1> USE DEF RelayInv, AcceptInv, SessionTyped
<1>0. made \in Nat /\ MaxConns \in Nat /\ MaxSessions \in Nat
  BY TCPBounds, MaxConnsPositive
<1>1. CASE AcceptTCP
  <2>1. /\ UNCHANGED <<made, fwds, copier, active>> /\ accepts' = accepts + 1
        /\ a.at = "accept" /\ a' = [a EXCEPT !.at = "count"]
    BY <1>1 DEF AcceptTCP
  <2>2. AcceptInv'
    BY <2>1
  <2>3. accepts' \in Nat
    BY <2>1
  <2>4. SessionTyped'
    BY <2>1, <2>3
  <2> QED BY <2>2, <2>4
<1>2. CASE Refuse \/ DialFails
  BY <1>2 DEF Refuse, DialFails
<1>3. CASE BeginDial
  <2>1. Cardinality(1 .. made) = made
    BY <1>0, FS_Interval
  <2>2. made < MaxConns
    BY <1>3, <1>0, <2>1 DEF BeginDial, Full
  <2> QED BY <1>3, <2>2 DEF BeginDial
<1>4. CASE Dialled
  <2>1. made' = made + 1 /\ a' = [at |-> "add", s |-> made + 1] /\ fwds' = fwds
        /\ made + 1 \in Sessions /\ a.at = "dial"
    BY <1>4 DEF Dialled
  <2>2. AcceptInv'
    BY <1>0, <2>1 DEF Sessions
  <2>3. active' \subseteq 1 .. made' /\ 1 .. made \subseteq 1 .. made'
    BY <1>0, <1>4 DEF Dialled
  <2>4. SessionTyped'
    BY <1>4, <2>1, <2>3 DEF Dialled
  <2> QED BY <2>2, <2>4
<1>5. CASE LockAdd \/ AddTCP
  BY <1>5 DEF LockAdd, AddTCP
<1>6. CASE StartForwarder
  <2>1. fwds' = 1 .. made /\ fwds \subseteq fwds'
    BY <1>0, <1>6 DEF StartForwarder
  <2> QED BY <1>6, <2>1 DEF StartForwarder
<1> QED BY <1>1, <1>2, <1>3, <1>4, <1>5, <1>6 DEF Accepting

\* The goroutines of a pair keep the relay's invariant.
LEMMA SessionStep ==
    ASSUME RelayInv, NEW s \in Sessions, Session(s)
    PROVE  RelayInv'
<1> USE DEF RelayInv, SessionTyped
<1>1. UNCHANGED <<made, a, fwds>>
  BY DEF Session, Spawn, Copy, CopierEnds
<1>2. AcceptInv'
  BY <1>1 DEF AcceptInv
<1>3. CASE Spawn(s)
  <2>1. [d \in {Up, Down} |-> "copying"] \in [{Up, Down} -> {"none", "copying", "exited"}]
    OBVIOUS
  <2> QED BY <1>2, <1>3, <2>1 DEF Spawn
<1>4. ASSUME NEW d \in {Up, Down}, Copy(s, d) PROVE RelayInv'
  <2>1. s \in 1 .. made
    BY <1>4 DEF Copy
  <2> QED BY <1>2, <1>4, <2>1 DEF Copy
<1>5. ASSUME NEW d \in {Up, Down}, CopierEnds(s, d) PROVE RelayInv'
  BY <1>2, <1>5 DEF CopierEnds
<1> QED BY <1>3, <1>4, <1>5 DEF Session

\* The relay's invariant holds at the start and no step breaks it.
LEMMA RelayInvariant == Spec => []RelayInv
<1>1. Init => RelayInv
  <2> SUFFICES ASSUME Init PROVE RelayInv
    OBVIOUS
  <2>1. AcceptInv
    BY TCPBounds, MaxConnsPositive DEF Init, AcceptInv
  <2>2. [d \in {Up, Down} |-> "none"] \in [{Up, Down} -> {"none", "copying", "exited"}]
    OBVIOUS
  <2>3. SessionTyped
    BY <2>2 DEF Init, SessionTyped
  <2> QED BY <2>1, <2>3 DEF RelayInv
<1>2. RelayInv /\ [Next]_vars => RelayInv'
  <2> SUFFICES ASSUME RelayInv, [Next]_vars PROVE RelayInv'
    OBVIOUS
  <2>1. CASE AcceptTCP \/ Accepting
    BY <2>1, AcceptStep
  <2>2. ASSUME NEW s \in Sessions, Session(s) PROVE RelayInv'
    BY <2>2, SessionStep
  <2>3. CASE Background
    BY <2>3 DEF Background, RelayInv, AcceptInv, SessionTyped
  <2>4. CASE UNCHANGED vars
    BY <2>4 DEF vars, RelayInv, AcceptInv, SessionTyped
  <2> QED BY <2>1, <2>2, <2>3, <2>4 DEF Next, Crashed
<1> QED BY <1>1, <1>2, PTL DEF Spec

-----------------------------------------------------------------------------
\* The relay and the manager together.

\* The steps of the cleanup goroutine, of its ticker and of the clock are the
\* manager's own.
LEMMA BackgroundStep ==
    ASSUME Background
    PROVE  CM!Next /\ UNCHANGED <<used, exp, holder>>
<1>1. CM!Next
  BY DEF Background, CM!Next
<1>2. UNCHANGED <<used, exp, holder>>
  BY DEF Background, CM!ClockTick, CM!TickerFires, CM!Start, CM!CleanupLoop, CM!LoopQuits,
         CM!LoopTicks, CM!Sweep, CM!SweepQuota, CM!SweepBack, CM!SweepCheck, CM!SweepUnmap,
         CM!SweepUnlink, CM!SweepCallback, CM!cacheVars
<1> QED BY <1>1, <1>2

\* The steps that neither call the manager nor are its own.
LEMMA OwnStep ==
    ASSUME \/ AcceptTCP \/ Refuse \/ BeginDial \/ DialFails \/ Dialled \/ StartForwarder
           \/ \E s \in Sessions : Session(s)
           \/ UNCHANGED vars
    PROVE  UNCHANGED cmVars
BY DEF AcceptTCP, Refuse, BeginDial, DialFails, Dialled, StartForwarder,
       Session, Spawn, Copy, CopierEnds, vars

\* A step of the relay is a step of the manager or leaves it alone: the calls
\* of acceptTCP are for the pair it made last.
LEMMA ManagerStep == RelayInv /\ [Next]_vars => [CM!Next]_(CM!vars)
<1> SUFFICES ASSUME RelayInv, [Next]_vars PROVE CM!Next \/ UNCHANGED CM!vars
  OBVIOUS
<1>1. UNCHANGED cmVars => UNCHANGED CM!vars
  BY DEF cmVars, CM!vars, CM!cacheVars, CM!sweepVars, CM!stopVars
<1>2. CASE LockAdd
  <2>1. a.s \in CM!KeysOf("tcp")
    BY <1>2, TCPBounds DEF LockAdd, RelayInv, AcceptInv, Sessions, CM!KeysOf
  <2>2. "put" \in CM!Ops /\ CM!Lock("tcp", "put", a.s)
    BY <1>2 DEF LockAdd, CM!Ops
  <2> QED BY <2>1, <2>2 DEF CM!Next, CM!Caller, CM!Proto
<1>3. CASE AddTCP
  BY <1>3 DEF AddTCP, CM!Next, CM!Caller, CM!Proto
<1>4. CASE Background
  BY <1>4, BackgroundStep
<1>5. CASE \/ AcceptTCP \/ Refuse \/ BeginDial \/ DialFails \/ Dialled \/ StartForwarder
           \/ \E s \in Sessions : Session(s)
           \/ UNCHANGED vars
  BY <1>1, <1>5, OwnStep
<1> QED BY <1>2, <1>3, <1>4, <1>5 DEF Next, Accepting, Crashed

\* acceptTCP calls the cleanup manager (cleanup/manager.go) as its callers may:
\* the relay implements CleanupManager.
THEOREM DrivesManager == Spec => CM!Spec
<1>1. Init => CM!Init
  BY DEF Init
<1> QED BY <1>1, ManagerStep, RelayInvariant, PTL DEF Spec, CM!Spec

\* The call that acceptTCP makes inside the mutex is for its own pair.
CallIsOwn == a.at = "adding" => holder["tcp"].key = a.s

\* The cache has been given every pair but the one acceptTCP is about to add.
UsedOnceMade == used = IF a.at \in {"add", "adding"} THEN 1 .. made - 1 ELSE 1 .. made

\* The sweep compares deadlines with a time that has passed, and its victim
\* had reached its own.
SweepTimely ==
    /\ tick <= now /\ sweepNow <= now
    /\ pc \in {"unmap", "unlink", "callback"} => exp[victim] <= sweepNow

Inv == RelayInv /\ CMP!Inv /\ CallIsOwn /\ UsedOnceMade /\ SweepTimely

\* A pair that was not added has had no callback.
LEMMA UnusedOpen ==
    ASSUME CMP!Inv, NEW s \in Sessions, s \notin used
    PROVE  ~Closed(s)
BY DEF CMP!Inv, CMP!CacheInv, CMP!Fresh, CMP!Keys, Closed

\* acceptTCP's calls keep their key, and what it adds is in the history.
LEMMA CallsInv ==
    ASSUME Inv, [Next]_vars
    PROVE  CallIsOwn' /\ UsedOnceMade'
<1> USE DEF Inv, CallIsOwn, UsedOnceMade
<1>1. /\ holder \in [{"tcp", "udp"} -> CMP!Calls]
      /\ made \in Nat
      /\ a \in [at : {"accept", "count", "dial", "add", "adding", "start"},
                s : (1 .. made) \cup {NoKey}]
  BY DEF CMP!Inv, CMP!TypeOK, CMP!Proto, RelayInv, AcceptInv
<1>2. CASE LockAdd
  BY <1>1, <1>2 DEF LockAdd, CM!Lock
<1>3. CASE AddTCP
  <2>1. holder["tcp"].key = made /\ made > 0 /\ used = 1 .. made - 1 /\ a.at = "adding"
    BY <1>3 DEF AddTCP, RelayInv, AcceptInv
  <2>2. used' = used \cup {made} /\ made' = made /\ a'.at = "start"
    BY <1>1, <1>3, <2>1 DEF AddTCP, CM!Put
  <2> QED BY <1>1, <2>1, <2>2
<1>4. CASE Dialled
  BY <1>1, <1>4 DEF Dialled, cmVars
<1>5. CASE Background
  BY <1>5, BackgroundStep DEF Background
<1>6. CASE AcceptTCP \/ Refuse \/ BeginDial \/ DialFails
  <2>1. a.at \notin {"add", "adding"} /\ a'.at \notin {"add", "adding"}
    BY <1>1, <1>6 DEF AcceptTCP, Refuse, BeginDial, DialFails
  <2>2. UNCHANGED <<used, made>>
    BY <1>6 DEF AcceptTCP, Refuse, BeginDial, DialFails, cmVars
  <2> QED BY <2>1, <2>2
<1>7. CASE StartForwarder
  BY <1>7 DEF StartForwarder, cmVars
<1>8. CASE UNCHANGED <<a, made>> /\ UNCHANGED cmVars
  BY <1>8 DEF cmVars
<1>9. ASSUME NEW s \in Sessions, Session(s) PROVE UNCHANGED <<a, made>>
  BY <1>9 DEF Session, Spawn, Copy, CopierEnds
<1>10. CASE UNCHANGED vars
  BY <1>8, <1>10 DEF vars
<1> QED BY <1>2, <1>3, <1>4, <1>5, <1>6, <1>7, <1>8, <1>9, <1>10, OwnStep
        DEF Next, Accepting, Crashed

\* acceptTCP never touches a pair again, so that a victim keeps its deadline.
LEMMA VictimKeepsDeadline ==
    ASSUME Inv, [Next]_vars, pc \in {"check", "unmap", "unlink", "callback"}
    PROVE  exp'[victim] = exp[victim]
<1>1. victim \in used
  BY DEF Inv, CMP!Inv, CMP!CacheInv, CMP!VictimLeaves, CMP!HasVictim, CMP!VictimSteps
<1>2. CASE AddTCP
  <2>1. /\ holder["tcp"].key \notin used
        /\ exp \in [Sessions -> Nat]
    BY <1>2 DEF AddTCP, CM!Put, Inv, CMP!Inv, CMP!CacheInv, CMP!Fresh, CMP!TypeOK, CMP!Keys,
            CMP!Proto
  <2>2. victim \in Sessions /\ exp' = [exp EXCEPT ![holder["tcp"].key] = now + CM!TimeoutOf("tcp")]
    BY <1>1, <1>2 DEF AddTCP, CM!Put, Inv, CMP!Inv, CMP!TypeOK, CMP!Keys
  <2> QED BY <1>1, <2>1, <2>2
<1>3. CASE LockAdd
  BY <1>3 DEF LockAdd, CM!Lock
<1>4. CASE Background
  BY <1>4, BackgroundStep
<1> QED BY <1>2, <1>3, <1>4, OwnStep DEF Next, Accepting, Crashed, cmVars

\* A node is swept only if its deadline has passed by the time of the sweep.
LEMMA SweepTimelyStep ==
    ASSUME Inv, [Next]_vars
    PROVE  SweepTimely'
<1> USE DEF Inv, SweepTimely
<1>1. /\ now \in Nat /\ tick \in Nat \cup {-1} /\ sweepNow \in Nat
      /\ pc \in {"unmap", "unlink", "callback"} => exp[victim] <= sweepNow
      /\ pc \in {"check", "unmap", "unlink", "callback"} =>
             exp[victim] \in Nat /\ exp'[victim] = exp[victim]
  <2>1. now \in Nat /\ tick \in Nat \cup {-1} /\ sweepNow \in Nat /\ exp \in [Sessions -> Nat]
    BY DEF CMP!Inv, CMP!TypeOK, CMP!NoTick, CMP!Keys
  <2>2. pc \in {"check", "unmap", "unlink", "callback"} => victim \in Sessions
    BY DEF CMP!Inv, CMP!TypeOK, CMP!KeysOf, CMP!HasVictim, CMP!VictimSteps
  <2> QED BY <2>1, <2>2, VictimKeepsDeadline
<1>2. CASE UNCHANGED <<now, tick, sweepNow, pc, victim>>
  BY <1>1, <1>2
<1>3. CASE LockAdd \/ AddTCP
  BY <1>2, <1>3 DEF LockAdd, AddTCP, CM!Lock, CM!Put, CM!Unlock, CM!sweepVars
<1>4. CASE Background
  <2> SUFFICES ASSUME CM!ClockTick \/ CM!TickerFires \/ CM!Start \/ CM!CleanupLoop
               PROVE  SweepTimely'
    BY <1>4 DEF Background
  <2>1. CASE CM!ClockTick
    BY <1>1, <2>1 DEF CM!ClockTick, CM!sweepVars
  <2>2. CASE CM!TickerFires
    BY <1>1, <2>2 DEF CM!TickerFires, CM!sweepVars
  <2>3. CASE CM!Start \/ CM!LoopQuits
    BY <1>1, <2>3 DEF CM!Start, CM!LoopQuits
  <2>4. CASE CM!LoopTicks
    BY <1>1, <2>4 DEF CM!LoopTicks, CM!NoTick
  <2>5. CASE CM!SweepQuota
    BY <1>1, <2>5 DEF CM!SweepQuota, CM!SweepReturns
  <2>6. CASE CM!SweepBack
    <3>1. /\ pc' \in {"quota", "select", "check"}
          /\ sweepNow' = sweepNow \/ sweepNow' = 0
          /\ UNCHANGED <<now, tick>>
      BY <2>6, Zenon DEF CM!SweepBack, CM!SweepReturns
    <3> QED BY <1>1, <3>1
  <2>7. CASE CM!SweepCheck
    BY <1>1, <2>7 DEF CM!SweepCheck, CM!SweepReturns
  <2>8. CASE CM!SweepUnmap \/ CM!SweepUnlink \/ CM!SweepCallback
    BY <1>1, <2>8 DEF CM!SweepUnmap, CM!SweepUnlink, CM!SweepCallback
  <2> QED BY <2>1, <2>2, <2>3, <2>4, <2>5, <2>6, <2>7, <2>8 DEF CM!CleanupLoop, CM!Sweep
<1> QED BY <1>2, <1>3, <1>4, OwnStep DEF Next, Accepting, Crashed, cmVars

\* The inductive invariant, of the relay and the manager together.
THEOREM Invariance == Spec => []Inv
<1>1. Init /\ RelayInv /\ CMP!Inv => Inv
  BY DEF Init, Inv, CallIsOwn, UsedOnceMade, SweepTimely, CM!Init, CM!NoTick
<1>2. Inv /\ RelayInv' /\ CMP!Inv' /\ [Next]_vars => Inv'
  BY CallsInv, SweepTimelyStep DEF Inv
<1>3. Spec => [](RelayInv /\ CMP!Inv)
  BY RelayInvariant, DrivesManager, ManagerInvariant, PTL
<1> QED BY <1>1, <1>2, <1>3, PTL DEF Spec

\* Every variable of the relay keeps its type.
THEOREM TypeCorrect == Spec => []TypeOK
<1>1. CMP!TypeOK <=> CM!TypeOK
  BY DEF CM!TypeOK, CM!Keys, CM!KeysOf, CM!Proto, CM!Calls, CM!Ops, CM!NoTick, CM!PC,
         CM!SweepSteps, CM!VictimSteps, CM!HasVictim, CM!ToSet,
         CMP!TypeOK, CMP!Keys, CMP!KeysOf, CMP!Proto, CMP!Calls, CMP!Ops, CMP!NoTick, CMP!PC,
         CMP!SweepSteps, CMP!VictimSteps, CMP!HasVictim, CMP!ToSet
<1>2. Inv => TypeOK
  BY <1>1 DEF Inv, RelayInv, CMP!Inv, TypeOK, AcceptInv, SessionTyped
<1> QED BY <1>2, Invariance, PTL

\* No pair keeps its sockets because the cleaner has lost it: a pair that is
\* open is in the cache, about to be added or about to be closed
\* (event/loop.go:236-239, lru/cache.go:170-198).
THEOREM TrackedWhileOpen == Spec => []OpenIsTracked
<1>1. Inv => OpenIsTracked
  <2> SUFFICES ASSUME Inv, NEW s \in Open
               PROVE  \/ s \in ToSet(li["tcp"])
                      \/ a.s = s /\ a.at \in {"add", "adding"}
                      \/ pc = "callback" /\ victim = s
    BY DEF OpenIsTracked
  <2>1. s \in 1 .. made /\ made \in Nat /\ s \in Sessions /\ ~Closed(s)
    BY TCPBounds DEF Open, Inv, RelayInv, AcceptInv, Sessions
  <2>2. CASE s \notin used
    BY <2>1, <2>2 DEF Inv, UsedOnceMade, RelayInv, AcceptInv
  <2>3. CASE s \in used
    <3>1. s \in used \cap CMP!KeysOf("tcp") /\ "tcp" \in CMP!Proto
      BY <2>1, <2>3 DEF CMP!KeysOf, CMP!Proto
    <3>2. CMP!ToSet(li["tcp"]) = ToSet(li["tcp"])
      BY DEF CMP!ToSet, ToSet
    <3> QED BY <2>1, <3>1, <3>2 DEF Inv, CMP!Inv, CMP!CacheInv, CMP!CallbackIffRemoved, Closed
  <2> QED BY <2>2, <2>3
<1> QED BY <1>1, Invariance, PTL

-----------------------------------------------------------------------------
\* The refinement.

\* The size of the set of the first n pairs.
LEMMA IntervalSize ==
    ASSUME NEW n \in Nat
    PROVE  IsFiniteSet(1 .. n) /\ Cardinality(1 .. n) = n
BY FS_Interval

\* A list without duplicates over the first n pairs has at most n elements.
LEMMA DistinctBounded ==
    ASSUME NEW s \in Seq(Sessions), NEW n \in Nat,
           CMP!Distinct(s), CMP!ToSet(s) \subseteq 1 .. n
    PROVE  Len(s) <= n
<1>1. Len(s) \in Nat /\ DOMAIN s = 1 .. Len(s) /\ s \in [1 .. Len(s) -> Sessions]
  OBVIOUS
<1>2. s \in [1 .. Len(s) -> 1 .. n]
  BY <1>1 DEF CMP!ToSet
<1> SUFFICES ASSUME Len(s) > n PROVE FALSE
  BY <1>1
<1>3. /\ IsFiniteSet(1 .. Len(s)) /\ Cardinality(1 .. Len(s)) = Len(s)
      /\ IsFiniteSet(1 .. n) /\ Cardinality(1 .. n) = n
  BY <1>1, IntervalSize
<1>4. \E i, j \in 1 .. Len(s) : i # j /\ s[i] = s[j]
  BY <1>1, <1>2, <1>3, FS_PigeonHole
<1> QED BY <1>1, <1>4 DEF CMP!Distinct

\* PushFront of a pair that is not in the list.
LEMMA PushedList ==
    ASSUME NEW s \in Seq(Sessions), NEW k \in Sessions,
           CMP!Distinct(s), k \notin CMP!ToSet(s)
    PROVE  /\ CMP!PushFront(s, k) \in Seq(Sessions)
           /\ CMP!Distinct(CMP!PushFront(s, k))
           /\ CMP!ToSet(CMP!PushFront(s, k)) = CMP!ToSet(s) \cup {k}
BY ManagerParams, CMP!PushFrontProperties

\* Put evicts no pair: acceptTCP makes no more pairs than the cache has room
\* for.
LEMMA NothingEvicted ==
    ASSUME Inv, AddTCP
    PROVE  /\ a.s = made /\ made \in Sessions /\ made \notin used
           /\ UNCHANGED <<cleaned, now, made>>
           /\ used' = used \cup {made}
           /\ exp' = [exp EXCEPT ![made] = now + TCPTimeout]
<1> DEFINE pushed == CMP!PushFront(li["tcp"], made)
<1>1. /\ a.s = made /\ made > 0 /\ made \in Nat /\ made <= MaxConns
      /\ made \in Sessions /\ holder["tcp"].key = made
      /\ used = 1 .. made - 1
  BY DEF AddTCP, Inv, RelayInv, AcceptInv, CallIsOwn, UsedOnceMade, Sessions
<1>2. made \notin used
  BY <1>1
<1>3. /\ li["tcp"] \in Seq(Sessions) /\ CMP!Distinct(li["tcp"])
      /\ CMP!ToSet(li["tcp"]) \subseteq used
  BY DEF Inv, CMP!Inv, CMP!TypeOK, CMP!CacheInv, CMP!MapListAgree, CMP!Tracked, CMP!Proto, CMP!Keys
<1>4. /\ pushed \in Seq(Sessions) /\ CMP!Distinct(pushed)
      /\ CMP!ToSet(pushed) = CMP!ToSet(li["tcp"]) \cup {made}
  <2>1. li["tcp"] \in Seq(Sessions) /\ made \in Sessions /\ made \notin CMP!ToSet(li["tcp"])
    BY <1>1, <1>2, <1>3
  <2> QED BY <1>3, <2>1, PushedList
<1>5. CMP!ToSet(pushed) \subseteq 1 .. made
  BY <1>1, <1>3, <1>4
<1> HIDE DEF pushed
<1>6. Len(pushed) <= made
  BY <1>1, <1>4, <1>5, DistinctBounded
<1>7. CM!PushFront(li["tcp"], made) = pushed
  BY DEF pushed, CM!PushFront, CMP!PushFront
<1>8. CM!Evicted(pushed, MaxConns) = {}
  BY <1>1, <1>4, <1>6, MaxConnsPositive DEF CM!Evicted, CM!Trimmed
<1>9. /\ used' = used \cup {made}
      /\ exp' = [exp EXCEPT ![made] = now + CM!TimeoutOf("tcp")]
      /\ CM!RunCallbacks({})
      /\ UNCHANGED <<now, made>>
  BY <1>1, <1>7, <1>8 DEF AddTCP, CM!Put, CM!Unlock
<1>10. UNCHANGED cleaned
  BY <1>9 DEF CM!RunCallbacks, CM!Keys, Inv, CMP!Inv, CMP!TypeOK, CMP!Keys
<1> QED BY <1>1, <1>2, <1>9, <1>10 DEF CM!TimeoutOf

\* What Sessions sees of a pair.
PairState(s) ==
    IF s > made THEN "none"
    ELSE IF Closed(s) THEN "closed"
    ELSE IF s \in used THEN "tracked" ELSE "open"

State == [s \in Sessions |-> PairState(s)]

\* The instance S of TCPRelay, in these terms.
LEMMA MappedFrame ==
    /\ S!Init <=> State = [s \in Sessions |-> "none"] /\ exp = [s \in Sessions |-> 0] /\ now = 0
    /\ S!Tick <=> now < MaxTime /\ now' = now + 1 /\ UNCHANGED <<State, exp>>
    /\ UNCHANGED S!vars <=> UNCHANGED <<State, exp, now>>
BY DEF S!Init, S!Tick, S!vars, State, PairState

LEMMA MappedOpen ==
    ASSUME NEW s \in Sessions, State[s] = "none",
           Cardinality({t \in Sessions : State[t] \in {"open", "tracked"}}) < MaxConns,
           State' = [State EXCEPT ![s] = "open"],
           UNCHANGED <<exp, now>>
    PROVE  S!Open(s)
<1>1. \A T : S!Cardinality(T) = Cardinality(T)
  BY DEF S!Cardinality, Cardinality
<1> QED BY <1>1 DEF S!Open, State, PairState

LEMMA MappedTrack ==
    ASSUME NEW s \in Sessions, State[s] = "open",
           State' = [State EXCEPT ![s] = "tracked"],
           exp' = [exp EXCEPT ![s] = now + TCPTimeout],
           UNCHANGED now
    PROVE  S!Track(s)
BY DEF S!Track, State, PairState

LEMMA MappedClose ==
    ASSUME NEW s \in Sessions, State[s] = "tracked", exp[s] <= now,
           State' = [State EXCEPT ![s] = "closed"],
           UNCHANGED <<exp, now>>
    PROVE  S!Close(s)
BY DEF S!Close, State, PairState

\* The pairs of which Sessions says that they are open are pairs that were made.
LEMMA OpenAreMade ==
    ASSUME Inv
    PROVE  Cardinality({t \in Sessions : State[t] \in {"open", "tracked"}}) <= made
<1> DEFINE T == {t \in Sessions : State[t] \in {"open", "tracked"}}
<1>1. made \in Nat
  BY DEF Inv, RelayInv, AcceptInv
<1>2. T \subseteq 1 .. made
  BY <1>1, TCPBounds DEF State, PairState, Sessions
<1>3. IsFiniteSet(1 .. made) /\ Cardinality(1 .. made) = made
  BY <1>1, IntervalSize
<1> QED BY <1>2, <1>3, FS_Subset

\* A dial that ends well opens a pair within the limit.
LEMMA DialledOpens ==
    ASSUME Inv, Dialled, NEW s \in Sessions, s = made + 1
    PROVE  S!Open(s)
<1>1. /\ made \in Nat /\ made < MaxConns /\ made + 1 \in Sessions
      /\ made' = made + 1 /\ used = 1 .. made
      /\ UNCHANGED <<used, cleaned, exp, now>>
  BY DEF Dialled, Inv, RelayInv, AcceptInv, UsedOnceMade, cmVars
<1>2. ~Closed(made + 1) /\ made + 1 \notin used
  BY <1>1, UnusedOpen DEF Inv
<1>3. State[made + 1] = "none"
  BY <1>1 DEF State, PairState
<1>4. State' = [State EXCEPT ![made + 1] = "open"]
  <2>1. \A t \in Sessions : PairState(t)' = IF t = made + 1 THEN "open" ELSE PairState(t)
    BY <1>1, <1>2 DEF PairState, Closed, Sessions
  <2> QED BY <2>1 DEF State
<1>5. Cardinality({t \in Sessions : State[t] \in {"open", "tracked"}}) <= made
  BY OpenAreMade
<1>6. Cardinality({t \in Sessions : State[t] \in {"open", "tracked"}}) \in Nat
  <2>1. IsFiniteSet(Sessions)
    BY TCPBounds, FS_Interval DEF Sessions
  <2> QED BY <2>1, FS_Subset, FS_CardinalityType
<1>7. Cardinality({t \in Sessions : State[t] \in {"open", "tracked"}}) < MaxConns
  BY <1>1, <1>5, <1>6, MaxConnsPositive
<1>8. State[s] = "none" /\ State' = [State EXCEPT ![s] = "open"]
  BY <1>3, <1>4
<1> QED BY <1>1, <1>7, <1>8, MappedOpen

\* AddTCP gives the pair its deadline, and evicts no other.
LEMMA AddTCPTracks ==
    ASSUME Inv, AddTCP, NEW s \in Sessions, s = made
    PROVE  S!Track(s)
<1>1. /\ made \in Sessions /\ made \notin used
      /\ UNCHANGED <<cleaned, now, made>>
      /\ used' = used \cup {made}
      /\ exp' = [exp EXCEPT ![made] = now + TCPTimeout]
  BY NothingEvicted
<1>2. ~Closed(made)
  BY <1>1, UnusedOpen DEF Inv
<1>3. made \in Nat
  BY DEF Inv, RelayInv, AcceptInv
<1>4. State[made] = "open"
  BY <1>1, <1>2, <1>3 DEF State, PairState
<1>5. State' = [State EXCEPT ![made] = "tracked"]
  <2>1. \A t \in Sessions : PairState(t)' = IF t = made THEN "tracked" ELSE PairState(t)
    BY <1>1, <1>2, <1>3 DEF PairState, Closed, Sessions
  <2> QED BY <2>1 DEF State
<1>6. /\ State[s] = "open" /\ State' = [State EXCEPT ![s] = "tracked"]
      /\ exp' = [exp EXCEPT ![s] = now + TCPTimeout]
  BY <1>1, <1>4, <1>5
<1> QED BY <1>1, <1>6, MappedTrack

\* The sweep's callback closes a pair whose deadline has passed.
LEMMA CallbackCloses ==
    ASSUME Inv, CM!SweepCallback, UNCHANGED made, NEW s \in Sessions, s = victim
    PROVE  S!Close(s) \/ UNCHANGED S!vars
<1>1. /\ victim \in used /\ victim \in Sessions /\ exp[victim] <= sweepNow /\ sweepNow <= now
      /\ used \subseteq 1 .. made /\ made \in Nat
      /\ cleaned \in [Sessions -> Nat]
      /\ now \in Nat /\ sweepNow \in Nat /\ exp \in [Sessions -> Nat]
  <2>1. pc = "callback"
    BY DEF CM!SweepCallback
  <2>2. victim \in used /\ victim \in Sessions
    BY <2>1 DEF Inv, CMP!Inv, CMP!CacheInv, CMP!VictimLeaves, CMP!TypeOK, CMP!HasVictim,
            CMP!VictimSteps, CMP!Keys
  <2> QED BY <2>1, <2>2 DEF Inv, UsedOnceMade, SweepTimely, RelayInv, AcceptInv, CMP!Inv,
          CMP!TypeOK, CMP!Keys
<1>2. /\ cleaned' = [k \in Sessions |-> IF k = victim THEN cleaned[k] + 1 ELSE cleaned[k]]
      /\ UNCHANGED <<exp, used, now>>
  BY DEF CM!SweepCallback, CM!RunCallbacks, CM!Keys
<1>3. exp[victim] <= now
  BY <1>1
<1>4. victim <= made
  BY <1>1
<1>5. \A t \in Sessions : PairState(t)' = IF t = victim THEN "closed" ELSE PairState(t)
  BY <1>1, <1>2, <1>4 DEF PairState, Closed
<1>6. CASE Closed(victim)
  <2>1. \A t \in Sessions : PairState(t)' = PairState(t)
    BY <1>1, <1>4, <1>5, <1>6 DEF PairState, Sessions
  <2>2. UNCHANGED State
    BY <2>1 DEF State
  <2> QED BY <1>2, <2>2, MappedFrame
<1>7. CASE ~Closed(victim)
  <2>1. State[victim] = "tracked"
    BY <1>1, <1>4, <1>7 DEF State, PairState, Sessions
  <2>2. State' = [State EXCEPT ![victim] = "closed"]
    BY <1>5 DEF State
  <2>3. /\ State[s] = "tracked" /\ State' = [State EXCEPT ![s] = "closed"]
        /\ exp[s] <= now
    BY <1>3, <2>1, <2>2
  <2> QED BY <1>2, <2>3, MappedClose
<1> QED BY <1>6, <1>7

\* A step that makes, adds and closes no pair is invisible to Sessions.
LEMMA StateKept ==
    ASSUME UNCHANGED <<made, used, cleaned>>
    PROVE  UNCHANGED State
BY DEF State, PairState, Closed

\* Every step of the relay is one of Sessions, or invisible to it.
LEMMA SessionsStep == Inv /\ [Next]_vars => [S!Next]_(S!vars)
<1> SUFFICES ASSUME Inv, [Next]_vars PROVE S!Next \/ UNCHANGED S!vars
  OBVIOUS
<1>1. CASE Dialled
  <2>1. PICK s \in Sessions : s = made + 1
    BY <1>1 DEF Dialled
  <2>2. S!Open(s)
    BY <1>1, <2>1, DialledOpens
  <2> QED BY <2>2 DEF S!Next
<1>2. CASE AddTCP
  <2>1. PICK s \in Sessions : s = made
    BY <1>2, NothingEvicted
  <2>2. S!Track(s)
    BY <1>2, <2>1, AddTCPTracks
  <2> QED BY <2>2 DEF S!Next
<1>3. CASE UNCHANGED <<made, used, cleaned, exp, now>>
  BY <1>3, StateKept, MappedFrame
<1>4. CASE Background
  <2>0. CASE UNCHANGED <<cleaned, now>>
    BY <1>3, <1>4, <2>0, BackgroundStep DEF Background
  <2>1. CASE CM!ClockTick
    <3>1. UNCHANGED State
      BY <1>4, <2>1, StateKept DEF Background, CM!ClockTick, CM!cacheVars
    <3> QED BY <2>1, <3>1, MappedFrame DEF CM!ClockTick, CM!cacheVars, S!Next
  <2>2. CASE CM!SweepCallback
    <3>1. UNCHANGED made
      BY <1>4 DEF Background
    <3>2. PICK s \in Sessions : s = victim
      BY <2>2 DEF CM!SweepCallback, Inv, CMP!Inv, CMP!CacheInv, CMP!VictimLeaves, CMP!TypeOK,
              CMP!HasVictim, CMP!VictimSteps, CMP!Keys
    <3>3. S!Close(s) \/ UNCHANGED S!vars
      BY <2>2, <3>1, <3>2, CallbackCloses
    <3> QED BY <3>3 DEF S!Next
  <2>3. CASE CM!TickerFires \/ CM!Start \/ CM!LoopQuits \/ CM!LoopTicks
    BY <2>0, <2>3 DEF CM!TickerFires, CM!Start, CM!LoopQuits, CM!LoopTicks, CM!cacheVars
  <2>4. CASE CM!SweepQuota \/ CM!SweepBack \/ CM!SweepCheck \/ CM!SweepUnmap \/ CM!SweepUnlink
    BY <2>0, <2>4 DEF CM!SweepQuota, CM!SweepBack, CM!SweepCheck, CM!SweepUnmap, CM!SweepUnlink,
            CM!cacheVars
  <2> QED BY <1>4, <2>1, <2>2, <2>3, <2>4 DEF Background, CM!CleanupLoop, CM!Sweep
<1>5. CASE LockAdd
  BY <1>3, <1>5 DEF LockAdd, CM!Lock
<1>6. CASE \/ AcceptTCP \/ Refuse \/ BeginDial \/ DialFails \/ StartForwarder
           \/ \E s \in Sessions : Session(s)
           \/ UNCHANGED vars
  <2>1. UNCHANGED made
    BY <1>6 DEF AcceptTCP, Refuse, BeginDial, DialFails, StartForwarder,
            Session, Spawn, Copy, CopierEnds, vars
  <2> QED BY <1>3, <1>6, <2>1, OwnStep DEF cmVars
<1> QED BY <1>1, <1>2, <1>4, <1>5, <1>6 DEF Next, Accepting, Crashed

\* The TCP half keeps what Sessions promises: at most MaxConns pairs are open
\* at once although the limit is checked before the dial (event/loop.go:207,
\* 214, 239), and a pair is closed only after the deadline it was given.
THEOREM RelayImplementsSessions == Spec => ImplementsSessions
<1>1. Init => S!Init
  <2> SUFFICES ASSUME Init PROVE S!Init
    OBVIOUS
  <2>1. made = 0 /\ exp = [s \in Sessions |-> 0] /\ now = 0
    BY DEF Init, CM!Init, CM!Keys
  <2>2. State = [s \in Sessions |-> "none"]
    BY <2>1 DEF State, PairState, Sessions
  <2> QED BY <2>1, <2>2, MappedFrame
<1> QED BY <1>1, SessionsStep, Invariance, PTL DEF Spec, ImplementsSessions, S!Spec

=============================================================================
