-------------------------- MODULE LoopLifecycleProofs --------------------------
(***************************************************************************)
(* Theorems about LoopLifecycle: for any number of goroutines in Stop, any *)
(* of the two listeners enabled, and any moment at which one fails.        *)
(***************************************************************************)
EXTENDS LoopLifecycle, TLAPS

\* Only the Stop that took the flag from a running loop goes on to close
\* stopCh: while the flag is up nobody has, and nobody else is about to.
OneStopper ==
    /\ run = "call" => running = 0
    /\ run = "call" \/ running = 1 => closes = 0 /\ \A i \in Users : user[i] # "closing"
    /\ \A i \in Users : user[i] = "closing" => closes = 0
    /\ closes <= 1
    /\ \A i, j \in Users : user[i] = "closing" /\ user[j] = "closing" => i = j

\* Where Run is when it still has something to clean up.
OpenWhile ==
    /\ tcp = "open" => EnableTCP /\ run \in {"listenUDP", "serve", "closeUDP", "joinUDP", "closeTCP"}
    /\ udp = "open" => EnableUDP /\ run \in {"serve", "closeUDP"}
    /\ run \in {"reset", "returned"} => cleaner = "exited"
    /\ run = "returned" => running = 0

\* Who has taken a late connection or datagram looks at stopCh next.
LooksNext ==
    /\ lateAccepts <= 1 /\ lateDatagrams <= 1
    /\ lateAccepts > 0 => stopCh /\ accept \in {"dial", "select", "exited"}
    /\ lateDatagrams > 0 => stopCh /\ handle \in {"select", "exited"}

\* The listeners' goroutines are started once, when their sockets open.
StartedOnce ==
    /\ run \in {"call", "start", "listenTCP"} => accept = "none" /\ handle = "none"
    /\ run = "listenUDP" => handle = "none"

\* l.wg counts the two goroutines.
Counted ==
    wg = (IF accept \in Gone THEN 0 ELSE 1) + (IF handle \in Gone THEN 0 ELSE 1)

\* Unless a Stop came before them, Run's Adds meet nobody in Wait, and who is
\* released has a counter that stays zero.
Released ==
    ~early => /\ ~panicked
              /\ run \in Starting => \A i \in Users : user[i] = "idle"
              /\ \A i \in Users : user[i] \in {"woken", "done"} => wg = 0

Inv == TypeOK /\ OneStopper /\ OpenWhile /\ LooksNext /\ StartedOnce /\ Counted /\ Released

-----------------------------------------------------------------------------
\* What Add and Done do.
LEMMA AddEffect ==
    ASSUME Add
    PROVE  /\ wg' = wg + 1 /\ UNCHANGED user
           /\ panicked' \in BOOLEAN
           /\ panicked' => \E i \in Users : user[i] = "woken"
<1>1. panicked' \in {FALSE, \E i \in Users : user[i] = "woken"}
  BY DEF Add
<1>2. panicked' = FALSE \/ panicked' = (\E i \in Users : user[i] = "woken")
  BY <1>1, Zenon
<1>3. CASE panicked' = FALSE
  BY <1>3 DEF Add
<1>4. CASE panicked' = (\E i \in Users : user[i] = "woken")
  BY <1>4 DEF Add
<1> QED BY <1>2, <1>3, <1>4

LEMMA DoneEffect ==
    ASSUME Inv, Done, wg # 0
    PROVE  /\ wg' = wg - 1 /\ wg' \in {0, 1} /\ panicked' = FALSE
           /\ user' \in [Users -> {"idle", "closing", "waiting", "asleep", "woken", "done"}]
           /\ \A i \in Users : user'[i] = user[i] \/ (wg = 1 /\ user[i] = "asleep" /\ user'[i] = "woken")
<1>1. panicked' = FALSE
  BY Zenon DEF Done
<1>2. wg' = wg - 1 /\ wg' \in {0, 1}
  BY DEF Inv, TypeOK, Done
<1> QED BY <1>1, <1>2 DEF Inv, TypeOK, Done

-----------------------------------------------------------------------------
\* The initial state has the invariant.
LEMMA InitInv == Init => Inv
<1> SUFFICES ASSUME Init PROVE Inv
  OBVIOUS
<1>1. TypeOK
  BY DEF Init, TypeOK
<1>2. OneStopper
  BY DEF Init, OneStopper
<1>3. OpenWhile /\ LooksNext /\ StartedOnce
  BY DEF Init, OpenWhile, LooksNext, StartedOnce
<1>4. Counted /\ Released
  BY DEF Init, Counted, Released, Gone, Starting
<1> QED
  BY <1>1, <1>2, <1>3, <1>4 DEF Inv

\* Run, the only actor that opens, closes and joins.
LEMMA RunInv == Inv /\ Run => Inv'
<1> SUFFICES ASSUME Inv, Run PROVE Inv'
  OBVIOUS
<1> USE FlagsBoolean DEF Inv, flags, sockets, clean, group, late
<1>1. CASE RunClaims
  <2>1. TypeOK'
    BY <1>1 DEF RunClaims, TypeOK
  <2>2. OneStopper' /\ OpenWhile'
    BY <1>1 DEF RunClaims, TypeOK, OneStopper, OpenWhile
  <2>3. LooksNext' /\ StartedOnce'
    BY <1>1 DEF RunClaims, TypeOK, LooksNext, StartedOnce
  <2>4. Counted' /\ Released'
    BY <1>1 DEF RunClaims, TypeOK, OneStopper, OpenWhile,
             StartedOnce, Counted, Released, Gone, Starting
  <2> QED
    BY <2>1, <2>2, <2>3, <2>4
<1>2. CASE RunStartsCleaner
  <2>1. TypeOK'
    BY <1>2 DEF RunStartsCleaner, TypeOK
  <2>2. OneStopper' /\ OpenWhile'
    BY <1>2 DEF RunStartsCleaner, TypeOK, OneStopper, OpenWhile
  <2>3. LooksNext' /\ StartedOnce'
    BY <1>2 DEF RunStartsCleaner, TypeOK, LooksNext, StartedOnce
  <2>4. Counted' /\ Released'
    BY <1>2 DEF RunStartsCleaner, TypeOK, OneStopper, OpenWhile,
             StartedOnce, Counted, Released, Gone, Starting
  <2> QED
    BY <2>1, <2>2, <2>3, <2>4
<1>3. CASE RunListensTCP
  <2>1. TypeOK'
    BY <1>3, AddEffect DEF RunListensTCP, TypeOK, StartedOnce, Counted, Gone
  <2>2. OneStopper' /\ OpenWhile'
    BY <1>3, AddEffect DEF RunListensTCP, TypeOK, OneStopper, OpenWhile
  <2>3. LooksNext' /\ StartedOnce'
    BY <1>3 DEF RunListensTCP, TypeOK, LooksNext, StartedOnce
  <2>4. Counted' /\ Released'
    BY <1>3, AddEffect DEF RunListensTCP, TypeOK, OneStopper, OpenWhile,
             StartedOnce, Counted, Released, Gone, Starting
  <2> QED
    BY <2>1, <2>2, <2>3, <2>4
<1>4. CASE RunListensUDP
  <2>1. TypeOK'
    BY <1>4, AddEffect DEF RunListensUDP, TypeOK, StartedOnce, Counted, Gone
  <2>2. OneStopper' /\ OpenWhile'
    BY <1>4, AddEffect DEF RunListensUDP, TypeOK, OneStopper, OpenWhile
  <2>3. LooksNext' /\ StartedOnce'
    BY <1>4 DEF RunListensUDP, TypeOK, LooksNext, StartedOnce
  <2>4. Counted' /\ Released'
    BY <1>4, AddEffect DEF RunListensUDP, TypeOK, OneStopper, OpenWhile,
             StartedOnce, Counted, Released, Gone, Starting
  <2> QED
    BY <2>1, <2>2, <2>3, <2>4
<1>5. CASE RunWakes
  <2>1. TypeOK'
    BY <1>5 DEF RunWakes, TypeOK
  <2>2. OneStopper' /\ OpenWhile'
    BY <1>5 DEF RunWakes, TypeOK, OneStopper, OpenWhile
  <2>3. LooksNext' /\ StartedOnce'
    BY <1>5 DEF RunWakes, TypeOK, LooksNext, StartedOnce
  <2>4. Counted' /\ Released'
    BY <1>5 DEF RunWakes, TypeOK, OneStopper, OpenWhile,
             StartedOnce, Counted, Released, Gone, Starting
  <2> QED
    BY <2>1, <2>2, <2>3, <2>4
<1>6. CASE RunClosesUDP
  <2>1. TypeOK'
    BY <1>6 DEF RunClosesUDP, TypeOK
  <2>2. OneStopper' /\ OpenWhile'
    BY <1>6 DEF RunClosesUDP, TypeOK, OneStopper, OpenWhile
  <2>3. LooksNext' /\ StartedOnce'
    BY <1>6 DEF RunClosesUDP, TypeOK, LooksNext, StartedOnce
  <2>4. Counted' /\ Released'
    BY <1>6 DEF RunClosesUDP, TypeOK, OneStopper, OpenWhile,
             StartedOnce, Counted, Released, Gone, Starting
  <2> QED
    BY <2>1, <2>2, <2>3, <2>4
<1>7. CASE RunJoinsUDP
  <2>1. TypeOK'
    BY <1>7 DEF RunJoinsUDP, TypeOK
  <2>2. OneStopper' /\ OpenWhile'
    BY <1>7 DEF RunJoinsUDP, TypeOK, OneStopper, OpenWhile
  <2>3. LooksNext' /\ StartedOnce'
    BY <1>7 DEF RunJoinsUDP, TypeOK, LooksNext, StartedOnce
  <2>4. Counted' /\ Released'
    BY <1>7 DEF RunJoinsUDP, TypeOK, OneStopper, OpenWhile,
             StartedOnce, Counted, Released, Gone, Starting
  <2> QED
    BY <2>1, <2>2, <2>3, <2>4
<1>8. CASE RunClosesTCP
  <2>1. TypeOK'
    BY <1>8 DEF RunClosesTCP, TypeOK
  <2>2. OneStopper' /\ OpenWhile'
    BY <1>8 DEF RunClosesTCP, TypeOK, OneStopper, OpenWhile
  <2>3. LooksNext' /\ StartedOnce'
    BY <1>8 DEF RunClosesTCP, TypeOK, LooksNext, StartedOnce
  <2>4. Counted' /\ Released'
    BY <1>8 DEF RunClosesTCP, TypeOK, OneStopper, OpenWhile,
             StartedOnce, Counted, Released, Gone, Starting
  <2> QED
    BY <2>1, <2>2, <2>3, <2>4
<1>9. CASE RunStopsCleaner
  <2>1. TypeOK'
    BY <1>9 DEF RunStopsCleaner, TypeOK
  <2>2. OneStopper' /\ OpenWhile'
    BY <1>9 DEF RunStopsCleaner, TypeOK, OneStopper, OpenWhile
  <2>3. LooksNext' /\ StartedOnce'
    BY <1>9 DEF RunStopsCleaner, TypeOK, LooksNext, StartedOnce
  <2>4. Counted' /\ Released'
    BY <1>9 DEF RunStopsCleaner, TypeOK, OneStopper, OpenWhile,
             StartedOnce, Counted, Released, Gone, Starting
  <2> QED
    BY <2>1, <2>2, <2>3, <2>4
<1>10. CASE RunJoinsCleaner
  <2>1. TypeOK'
    BY <1>10 DEF RunJoinsCleaner, TypeOK
  <2>2. OneStopper' /\ OpenWhile'
    BY <1>10 DEF RunJoinsCleaner, TypeOK, OneStopper, OpenWhile
  <2>3. LooksNext' /\ StartedOnce'
    BY <1>10 DEF RunJoinsCleaner, TypeOK, LooksNext, StartedOnce
  <2>4. Counted' /\ Released'
    BY <1>10 DEF RunJoinsCleaner, TypeOK, OneStopper, OpenWhile,
             StartedOnce, Counted, Released, Gone, Starting
  <2> QED
    BY <2>1, <2>2, <2>3, <2>4
<1>11. CASE RunReturns
  <2>1. TypeOK'
    BY <1>11 DEF RunReturns, TypeOK
  <2>2. OneStopper' /\ OpenWhile'
    BY <1>11 DEF RunReturns, TypeOK, OneStopper, OpenWhile
  <2>3. LooksNext' /\ StartedOnce'
    BY <1>11 DEF RunReturns, TypeOK, LooksNext, StartedOnce
  <2>4. Counted' /\ Released'
    BY <1>11 DEF RunReturns, TypeOK, OneStopper, OpenWhile,
             StartedOnce, Counted, Released, Gone, Starting
  <2> QED
    BY <2>1, <2>2, <2>3, <2>4
<1> QED
  BY <1>1, <1>2, <1>3, <1>4, <1>5, <1>6, <1>7, <1>8, <1>9, <1>10, <1>11 DEF Run

\* The cleanup goroutine, acceptTCP and handleUDP.
LEMMA WorkerInv ==
    Inv /\ (CleanerExits \/ AcceptTCP \/ Accepts \/ HandleUDP \/ ReadsDatagram) => Inv'
<1> SUFFICES ASSUME Inv,
                    CleanerExits \/ AcceptTCP \/ Accepts \/ HandleUDP \/ ReadsDatagram
             PROVE Inv'
  OBVIOUS
<1> USE DEF Inv, flags, sockets, clean, late
<1>1. CASE CleanerExits
  BY <1>1 DEF CleanerExits, group, TypeOK, OneStopper, OpenWhile, LooksNext, StartedOnce,
              Counted, Released
<1>2. CASE AcceptTCP /\ UNCHANGED group
  <2>1. /\ UNCHANGED <<flags, run, sockets, handle, clean, group, early, late>>
        /\ accept \notin Gone
        /\ accept' \in {"select", "accept"} \/ (accept' = "exited" /\ Done)
        /\ accept' = "accept" => accept = "select" /\ ~stopCh
    BY <1>2 DEF AcceptTCP, AcceptSelects, AcceptTimesOut, AcceptFails, DialEnds, Gone
  <2>2. accept' \in {"select", "accept"}
    BY <2>1 DEF group, TypeOK, Done
  <2> QED
    BY <2>1, <2>2 DEF TypeOK, OneStopper, OpenWhile, LooksNext, StartedOnce, Counted, Released,
                      group, Gone
<1>3. CASE AcceptTCP /\ ~UNCHANGED group
  <2>1. /\ UNCHANGED <<flags, run, sockets, handle, clean, early, late>>
        /\ accept \notin Gone /\ accept' = "exited"
        /\ stopCh \/ tcp = "closed"
    BY <1>3 DEF AcceptTCP, AcceptSelects, AcceptTimesOut, AcceptFails, DialEnds, Gone
  <2>2. Done /\ wg # 0
    BY <1>3, <2>1 DEF AcceptTCP, AcceptSelects, AcceptTimesOut, AcceptFails, DialEnds,
                      Counted, TypeOK
  <2>3. /\ wg' = wg - 1 /\ wg' \in {0, 1} /\ panicked' = FALSE
        /\ user' \in [Users -> {"idle", "closing", "waiting", "asleep", "woken", "done"}]
        /\ \A i \in Users : user'[i] = user[i] \/ (wg = 1 /\ user[i] = "asleep" /\ user'[i] = "woken")
    BY <2>1, <2>2, DoneEffect
  <2> HIDE DEF Inv
  <2>4. TypeOK'
    <3>1. panicked' \in BOOLEAN
      BY <2>3, Zenon
    <3>2. wg' \in {0, 1, 2}
      BY <2>3
    <3> QED BY <2>1, <2>3, <3>1, <3>2 DEF Inv, TypeOK
  <2>5. OneStopper'
    BY <2>1, <2>3 DEF Inv, OneStopper
  <2>6. OpenWhile' /\ LooksNext' /\ StartedOnce'
    BY <2>1 DEF Inv, OpenWhile, LooksNext, StartedOnce, Gone
  <2>7. Counted'
    BY <2>1, <2>3 DEF Inv, TypeOK, Counted, Gone
  <2>8. Released'
    <3> SUFFICES ASSUME ~early PROVE Released'
      BY <2>1 DEF Released
    <3>1. \A i \in Users : user[i] \notin {"woken", "done"}
      BY <2>2 DEF Inv, Released
    <3>2. \A i \in Users : user'[i] \in {"woken", "done"} => wg' = 0
      BY <2>3, <3>1
    <3>3. run \in Starting => \A i \in Users : user'[i] = "idle"
      BY <2>3 DEF Inv, Released
    <3> QED BY <2>1, <2>3, <3>2, <3>3 DEF Released
  <2> QED BY <2>4, <2>5, <2>6, <2>7, <2>8 DEF Inv
<1>4. CASE Accepts
  BY <1>4 DEF Accepts, group, TypeOK, OneStopper, OpenWhile, LooksNext, StartedOnce,
              Counted, Released, Gone
<1>5. CASE HandleUDP /\ UNCHANGED group
  <2>1. /\ UNCHANGED <<flags, run, sockets, accept, clean, group, early, late>>
        /\ handle \notin Gone
        /\ handle' \in {"select", "read", "recv"} \/ (handle' = "exited" /\ Done)
        /\ handle' = "read" => ~stopCh
        /\ handle' = "recv" => handle = "read"
    BY <1>5 DEF HandleUDP, HandleSelects, HandleReads, HandleStopsReading, Gone
  <2>2. handle' \in {"select", "read", "recv"}
    BY <2>1 DEF group, TypeOK, Done
  <2> QED
    BY <2>1, <2>2 DEF TypeOK, OneStopper, OpenWhile, LooksNext, StartedOnce, Counted, Released,
                      group, Gone
<1>6. CASE HandleUDP /\ ~UNCHANGED group
  <2>1. /\ UNCHANGED <<flags, run, sockets, accept, clean, early, late>>
        /\ handle \notin Gone /\ handle' = "exited"
        /\ Done
    BY <1>6 DEF HandleUDP, HandleSelects, HandleReads, HandleStopsReading, Gone
  <2>2. wg # 0
    BY <2>1 DEF Counted, TypeOK
  <2>3. /\ wg' = wg - 1 /\ wg' \in {0, 1} /\ panicked' = FALSE
        /\ user' \in [Users -> {"idle", "closing", "waiting", "asleep", "woken", "done"}]
        /\ \A i \in Users : user'[i] = user[i] \/ (wg = 1 /\ user[i] = "asleep" /\ user'[i] = "woken")
    BY <2>1, <2>2, DoneEffect
  <2> HIDE DEF Inv
  <2>4. TypeOK'
    <3>1. panicked' \in BOOLEAN
      BY <2>3, Zenon
    <3>2. wg' \in {0, 1, 2}
      BY <2>3
    <3> QED BY <2>1, <2>3, <3>1, <3>2 DEF Inv, TypeOK
  <2>5. OneStopper'
    BY <2>1, <2>3 DEF Inv, OneStopper
  <2>6. OpenWhile' /\ LooksNext' /\ StartedOnce'
    BY <2>1 DEF Inv, OpenWhile, LooksNext, StartedOnce, Gone
  <2>7. Counted'
    BY <2>1, <2>3 DEF Inv, TypeOK, Counted, Gone
  <2>8. Released'
    <3> SUFFICES ASSUME ~early PROVE Released'
      BY <2>1 DEF Released
    <3>1. \A i \in Users : user[i] \notin {"woken", "done"}
      BY <2>2 DEF Inv, Released
    <3>2. \A i \in Users : user'[i] \in {"woken", "done"} => wg' = 0
      BY <2>3, <3>1
    <3>3. run \in Starting => \A i \in Users : user'[i] = "idle"
      BY <2>3 DEF Inv, Released
    <3> QED BY <2>1, <2>3, <3>2, <3>3 DEF Released
  <2> QED BY <2>4, <2>5, <2>6, <2>7, <2>8 DEF Inv
<1>7. CASE ReadsDatagram
  <2> USE DEF group
  <2>1. blocking' \in BOOLEAN
    BY <1>7, Zenon DEF ReadsDatagram, TypeOK
  <2>2. UNCHANGED <<flags, run, tcp, udp, accept, clean, group, early, lateAccepts>>
    BY <1>7 DEF ReadsDatagram
  <2>3. handle' = "select" /\ lateDatagrams' = IF stopCh THEN lateDatagrams + 1 ELSE lateDatagrams
    BY <1>7 DEF ReadsDatagram
  <2>4. lateDatagrams = 0 /\ handle = "recv"
    BY <1>7 DEF ReadsDatagram, LooksNext, TypeOK
  <2>5. TypeOK' /\ LooksNext'
    BY <2>1, <2>2, <2>3, <2>4 DEF TypeOK, LooksNext
  <2>6. Counted' /\ Released'
    BY <2>2, <2>3, <2>4 DEF Counted, Released, Gone
  <2> QED
    BY <2>2, <2>3, <2>5, <2>6, <1>7 DEF ReadsDatagram, OneStopper, OpenWhile, StartedOnce
<1> QED
  BY <1>1, <1>2, <1>3, <1>4, <1>5, <1>6, <1>7

\* The goroutines in Stop and Wait.
LEMMA UserInv ==
    ASSUME Inv, NEW i \in Users, StopSwaps(i) \/ StopAndWait(i)
    PROVE  Inv'
<1> USE DEF Inv, flags, sockets, clean, late
<1>1. CASE StopSwaps(i)
  <2>1. early' <=> early \/ run \in Starting
    BY <1>1, Zenon DEF StopSwaps
  <2>2. early' \in BOOLEAN
    BY <1>1, Zenon DEF StopSwaps
  <2>3. TypeOK'
    BY <1>1, <2>2 DEF StopSwaps, TypeOK
  <2>4. OneStopper' /\ OpenWhile' /\ LooksNext' /\ StartedOnce' /\ Counted'
    BY <1>1 DEF StopSwaps, TypeOK, OneStopper, OpenWhile, LooksNext, StartedOnce, Counted
  <2>5. Released'
    BY <1>1, <2>1 DEF StopSwaps, TypeOK, Released
  <2> QED BY <2>3, <2>4, <2>5
<1>2. CASE StopCloses(i)
  BY <1>2 DEF StopCloses, TypeOK, OneStopper, OpenWhile, LooksNext, StartedOnce, Counted, Released
<1>3. CASE WaitLooks(i)
  BY <1>3 DEF WaitLooks, TypeOK, OneStopper, OpenWhile, LooksNext, StartedOnce, Counted, Released
<1>4. CASE WaitWakes(i)
  <2>1. panicked' => early
    BY <1>4 DEF WaitWakes, TypeOK, Released
  <2>2. TypeOK'
    <3>1. panicked' \in BOOLEAN
      BY <1>4, Zenon DEF WaitWakes, TypeOK
    <3>2. UNCHANGED wg /\ user' \in [Users -> {"idle", "closing", "waiting", "asleep", "woken", "done"}]
      BY <1>4 DEF WaitWakes, TypeOK
    <3> QED BY <1>4, <3>1, <3>2 DEF WaitWakes, TypeOK
  <2>3. OneStopper' /\ OpenWhile'
    BY <1>4 DEF WaitWakes, TypeOK, OneStopper, OpenWhile
  <2>4. LooksNext' /\ StartedOnce' /\ Counted'
    BY <1>4 DEF WaitWakes, LooksNext, StartedOnce, Counted
  <2>5. Released'
    BY <1>4, <2>1 DEF WaitWakes, TypeOK, Released
  <2> QED BY <2>2, <2>3, <2>4, <2>5
<1> QED
  BY <1>1, <1>2, <1>3, <1>4 DEF StopAndWait

\* Every step keeps the invariant.
LEMMA StepInv == Inv /\ [Next]_vars => Inv'
<1> SUFFICES ASSUME Inv, [Next]_vars PROVE Inv'
  OBVIOUS
<1>1. CASE UNCHANGED vars
  BY <1>1 DEF Inv, TypeOK, OneStopper, OpenWhile, LooksNext, StartedOnce, Counted, Released,
              vars, flags, sockets, clean, group, late
<1>2. CASE Next
  BY <1>2, RunInv, WorkerInv, UserInv DEF Next
<1> QED
  BY <1>1, <1>2

\* The inductive invariant of the loop.
THEOREM Invariance == Spec => []Inv
  BY InitInv, StepInv, PTL DEF Spec

-----------------------------------------------------------------------------
\* Every variable keeps its type.
THEOREM TypeCorrect == Spec => []TypeOK
<1>1. Inv => TypeOK
  BY DEF Inv
<1> QED
  BY <1>1, Invariance, PTL

\* stopCh is closed at most once (loop.go:399-406), so that Stop never panics.
THEOREM ClosedAtMostOnce == Spec => []ClosedOnce
<1>1. Inv => ClosedOnce
  BY DEF Inv, OneStopper, ClosedOnce
<1> QED
  BY <1>1, Invariance, PTL

\* Run returns with both listening sockets closed, the cleanup goroutine ended
\* and the flag reset (loop.go:115-152), stopped or failed.
THEOREM CleanedUp == Spec => []RunCleansUp
<1>1. Inv => RunCleansUp
  BY DEF Inv, OpenWhile, RunCleansUp
<1> QED
  BY <1>1, Invariance, PTL

\* One late connection and one late datagram at most (loop.go:182, 286).
THEOREM FewLateInputs == Spec => []OneLateInput
<1>1. Inv => OneLateInput
  BY DEF Inv, LooksNext, OneLateInput
<1> QED
  BY <1>1, Invariance, PTL

\* However many goroutines stop the loop and wait for it, none panics and each
\* Wait is for acceptTCP and handleUDP, unless a Stop was called before both
\* listeners had been started (loop.go:169, 270, 411).
THEOREM WaitsForAll == Spec => []WaitWaitsUnlessEarly
<1>1. Inv => WaitWaitsUnlessEarly
  BY DEF Inv, TypeOK, Counted, Released, WaitWaitsUnlessEarly, Gone
<1> QED
  BY <1>1, Invariance, PTL

=============================================================================
