----------------------------- MODULE LoopLifecycle -----------------------------
(***************************************************************************)
(* How the event loop starts and stops (event/loop.go): one call of Run,   *)
(* the goroutines it starts (acceptTCP, handleUDP and the cleanup          *)
(* goroutine), and the goroutines that call Stop and then Wait, as main    *)
(* does when a signal arrives.                                             *)
(*                                                                         *)
(* What acceptTCP and handleUDP do with a connection or a datagram is one  *)
(* step here; TCPRelay and UDPRelay have the detail.  One thing a datagram *)
(* leaves behind is kept: for a new client handleUDP calls File().Fd() on  *)
(* the listening socket, and Fd puts the descriptor, and with it the       *)
(* socket the two share, in blocking mode (Go on Unix).  A Read of such a  *)
(* socket returns when a datagram comes: neither its deadline nor Close    *)
(* wakes it, and Close waits for it.                                       *)
(*                                                                         *)
(* l.wg is a sync.WaitGroup: a Wait that finds the counter above zero      *)
(* sleeps, the Done that takes it to zero releases all sleepers, and who   *)
(* then wakes to a counter that an Add has raised again panics.  A panic   *)
(* ends the process: after it nothing moves.                               *)
(***************************************************************************)
EXTENDS Integers, FiniteSets

CONSTANTS
    Users,     \* goroutines that call Stop and then Wait
    EnableTCP, \* cfg.EnableTCP
    EnableUDP  \* cfg.EnableUDP

ASSUME FlagsBoolean == EnableTCP \in BOOLEAN /\ EnableUDP \in BOOLEAN

VARIABLES
    running,      \* the atomic flag
    stopCh,       \* stopCh is closed
    closes,       \* history: how often close(stopCh) was called; the second panics
    run,          \* the goroutine in Run
    tcp, udp,     \* the listening sockets
    blocking,     \* udp is in blocking mode
    accept,       \* the goroutine acceptTCP
    handle,       \* the goroutine handleUDP
    cleaner,      \* the cleanup goroutine
    cleanStop,    \* the stopCh of the cleanup manager is closed
    user,         \* user[i]: the goroutine i in Stop and Wait
    wg,           \* the counter of l.wg
    panicked,     \* the process has panicked
    early,        \* history: Stop was called before Run had started the listeners
    lateAccepts,  \* history: connections accepted after stopCh was closed
    lateDatagrams \* history: datagrams read after that

flags   == <<running, stopCh, closes>>
sockets == <<tcp, udp, blocking>>
clean   == <<cleaner, cleanStop>>
group   == <<user, wg, panicked>>
late    == <<lateAccepts, lateDatagrams>>
vars == <<flags, run, sockets, accept, handle, clean, group, early, late>>

Starting == {"call", "start", "listenTCP", "listenUDP"}
Gone     == {"none", "exited"}

Init ==
    /\ running = 0
    /\ stopCh = FALSE
    /\ closes = 0
    /\ run = "call"
    /\ tcp = "none" /\ udp = "none" /\ blocking = FALSE
    /\ accept = "none" /\ handle = "none"
    /\ cleaner = "none"
    /\ cleanStop = FALSE
    /\ user = [i \in Users |-> "idle"]
    /\ wg = 0 /\ panicked = FALSE
    /\ early = FALSE
    /\ lateAccepts = 0 /\ lateDatagrams = 0

\* l.wg.Add(1), for acceptTCP and handleUDP; Run is not in l.wg.  While a Wait
\* is being released Add may itself find that it is too early, and panic.
Add ==
    /\ wg' = wg + 1
    /\ panicked' \in {FALSE, \E i \in Users : user[i] = "woken"}
    /\ UNCHANGED user

\* l.wg.Done, which panics when the counter would be negative.
Done ==
    /\ wg' = wg - 1
    /\ panicked' = (wg = 0)
    /\ user' = [i \in Users |-> IF wg = 1 /\ user[i] = "asleep" THEN "woken" ELSE user[i]]

-----------------------------------------------------------------------------
\* Run.

RunClaims ==
    /\ run = "call"
    /\ run' = "start"
    /\ running' = 1
    /\ UNCHANGED <<stopCh, closes, sockets, accept, handle, clean, group, early, late>>

RunStartsCleaner ==
    /\ run = "start"
    /\ run' = "listenTCP"
    /\ cleaner' = "running"
    /\ UNCHANGED <<flags, sockets, accept, handle, cleanStop, group, early, late>>

\* startTCPListener; when it fails Run returns through the defers it has made.
RunListensTCP ==
    /\ run = "listenTCP"
    /\ \/ /\ ~EnableTCP
          /\ run' = "listenUDP"
          /\ UNCHANGED <<tcp, accept, group>>
       \/ /\ EnableTCP
          /\ run' = "listenUDP" /\ tcp' = "open" /\ accept' = "select"
          /\ Add
       \/ /\ EnableTCP
          /\ run' = "stopCleaner"
          /\ UNCHANGED <<tcp, accept, group>>
    /\ UNCHANGED <<flags, udp, blocking, handle, clean, early, late>>

\* Mutant of RunListensUDP: its failure leaves the TCP listener open.
FailureKeepsTCP ==
    /\ run = "listenUDP"
    /\ \/ /\ ~EnableUDP
          /\ run' = "serve"
          /\ UNCHANGED <<udp, handle, group>>
       \/ /\ EnableUDP
          /\ run' = "serve" /\ udp' = "open" /\ handle' = "select"
          /\ Add
       \/ /\ EnableUDP
          /\ run' = "stopCleaner"
          /\ UNCHANGED <<udp, handle, group>>
    /\ UNCHANGED <<flags, tcp, blocking, accept, clean, early, late>>

\* Mutant of RunListensUDP: startUDPListener forgets its wg.Add(1).
UDPForgetsAdd ==
    /\ run = "listenUDP"
    /\ \/ /\ ~EnableUDP
          /\ run' = "serve"
          /\ UNCHANGED <<udp, handle>>
       \/ /\ EnableUDP
          /\ run' = "serve" /\ udp' = "open" /\ handle' = "select"
       \/ /\ EnableUDP
          /\ run' = "closeTCP"
          /\ UNCHANGED <<udp, handle>>
    /\ UNCHANGED <<flags, tcp, blocking, accept, clean, group, early, late>>

\* startUDPListener; when it fails the TCP listener is closed again.
RunListensUDP ==
    /\ run = "listenUDP"
    /\ \/ /\ ~EnableUDP
          /\ run' = "serve"
          /\ UNCHANGED <<udp, handle, group>>
       \/ /\ EnableUDP
          /\ run' = "serve" /\ udp' = "open" /\ handle' = "select"
          /\ Add
       \/ /\ EnableUDP
          /\ run' = "closeTCP"
          /\ UNCHANGED <<udp, handle, group>>
    /\ UNCHANGED <<flags, tcp, blocking, accept, clean, early, late>>

\* <-l.stopCh
RunWakes ==
    /\ run = "serve"
    /\ stopCh
    /\ run' = "closeUDP"
    /\ UNCHANGED <<flags, sockets, accept, handle, clean, group, early, late>>

\* The defers, the last one first.
RunClosesUDP ==
    /\ run = "closeUDP"
    /\ run' = "joinUDP"
    /\ udp' = IF EnableUDP THEN "closed" ELSE udp
    /\ UNCHANGED <<flags, tcp, blocking, accept, handle, clean, group, early, late>>

\* Close returns when no Read is under way.
RunJoinsUDP ==
    /\ run = "joinUDP"
    /\ handle # "recv"
    /\ run' = "closeTCP"
    /\ UNCHANGED <<flags, sockets, accept, handle, clean, group, early, late>>

RunClosesTCP ==
    /\ run = "closeTCP"
    /\ run' = "stopCleaner"
    /\ tcp' = IF EnableTCP THEN "closed" ELSE tcp
    /\ UNCHANGED <<flags, udp, blocking, accept, handle, clean, group, early, late>>

\* cleanupMgr.Stop closes its channel and waits for the cleanup goroutine.
RunStopsCleaner ==
    /\ run = "stopCleaner"
    /\ run' = "joinCleaner"
    /\ cleanStop' = TRUE
    /\ UNCHANGED <<flags, sockets, accept, handle, cleaner, group, early, late>>

RunJoinsCleaner ==
    /\ run = "joinCleaner"
    /\ cleaner = "exited"
    /\ run' = "reset"
    /\ UNCHANGED <<flags, sockets, accept, handle, clean, group, early, late>>

RunReturns ==
    /\ run = "reset"
    /\ run' = "returned"
    /\ running' = 0
    /\ UNCHANGED <<stopCh, closes, sockets, accept, handle, clean, group, early, late>>

Run ==
    /\ ~panicked
    /\ \/ RunClaims \/ RunStartsCleaner \/ RunListensTCP \/ RunListensUDP
       \/ RunWakes \/ RunClosesUDP \/ RunJoinsUDP \/ RunClosesTCP
       \/ RunStopsCleaner \/ RunJoinsCleaner \/ RunReturns

\* cleanupLoop sees its channel closed, after the sweep it may be in.
CleanerExits ==
    /\ ~panicked
    /\ cleaner = "running"
    /\ cleanStop
    /\ cleaner' = "exited"
    /\ UNCHANGED <<flags, run, sockets, accept, handle, cleanStop, group, early, late>>

-----------------------------------------------------------------------------
\* acceptTCP.

AcceptSelects ==
    /\ accept = "select"
    /\ \/ stopCh /\ accept' = "exited" /\ Done
       \/ ~stopCh /\ accept' = "accept" /\ UNCHANGED group
    /\ UNCHANGED <<flags, run, sockets, handle, clean, early, late>>

\* The deadline of 100 ms, or a temporary error.
AcceptTimesOut ==
    /\ accept = "accept"
    /\ tcp = "open"
    /\ accept' = "select"
    /\ UNCHANGED <<flags, run, sockets, handle, clean, group, early, late>>

Accepts ==
    /\ ~panicked
    /\ accept = "accept"
    /\ tcp = "open"
    /\ accept' = "dial"
    /\ lateAccepts' = IF stopCh THEN lateAccepts + 1 ELSE lateAccepts
    /\ UNCHANGED <<flags, run, sockets, handle, clean, group, early, lateDatagrams>>

\* The listener is closed.
AcceptFails ==
    /\ accept = "accept"
    /\ tcp = "closed"
    /\ accept' = "exited"
    /\ Done
    /\ UNCHANGED <<flags, run, sockets, handle, clean, early, late>>

\* Mutant of DialEnds: the loop goes on without the select.
DialSkipsSelect ==
    /\ accept = "dial"
    /\ accept' = "accept"
    /\ UNCHANGED <<flags, run, sockets, handle, clean, group, early, late>>

\* The connection is refused, its dial fails, or its pair is started.
DialEnds ==
    /\ accept = "dial"
    /\ accept' = "select"
    /\ UNCHANGED <<flags, run, sockets, handle, clean, group, early, late>>

AcceptTCP == ~panicked /\ (AcceptSelects \/ AcceptTimesOut \/ AcceptFails \/ DialEnds)

-----------------------------------------------------------------------------
\* handleUDP.

HandleSelects ==
    /\ handle = "select"
    /\ \/ stopCh /\ handle' = "exited" /\ Done
       \/ ~stopCh /\ handle' = "read" /\ UNCHANGED group
    /\ UNCHANGED <<flags, run, sockets, accept, clean, early, late>>

HandleReads ==
    /\ handle = "read"
    /\ \/ udp = "open" /\ handle' = "recv" /\ UNCHANGED group
       \/ udp # "open" /\ handle' = "exited" /\ Done
    /\ UNCHANGED <<flags, run, sockets, accept, clean, early, late>>

\* A datagram; it is handled before the next select.  That of a new client
\* makes the socket blocking, when it is not closed.
ReadsDatagram ==
    /\ ~panicked
    /\ handle = "recv"
    /\ udp = "open" \/ blocking
    /\ handle' = "select"
    /\ blocking' \in {blocking, udp = "open" \/ blocking}
    /\ lateDatagrams' = IF stopCh THEN lateDatagrams + 1 ELSE lateDatagrams
    /\ UNCHANGED <<flags, run, tcp, udp, accept, clean, group, early, lateAccepts>>

\* The deadline of one minute passes, or the socket is closed.
HandleStopsReading ==
    /\ handle = "recv" /\ ~blocking
    /\ \/ udp = "open" /\ handle' = "select" /\ UNCHANGED group
       \/ udp # "open" /\ handle' = "exited" /\ Done
    /\ UNCHANGED <<flags, run, sockets, accept, clean, early, late>>

HandleUDP == ~panicked /\ (HandleSelects \/ HandleReads \/ HandleStopsReading)

-----------------------------------------------------------------------------
\* Stop and Wait.

\* Mutant of StopSwaps: the flag is read and not swapped.
StopLoads(i) ==
    /\ ~panicked
    /\ user[i] = "idle"
    /\ user' = [user EXCEPT ![i] = IF running = 1 THEN "closing" ELSE "waiting"]
    /\ early' = (early \/ run \in Starting)
    /\ UNCHANGED <<flags, run, sockets, accept, handle, clean, wg, panicked, late>>

\* Mutant of StopSwaps: the flag is decremented.
StopDecrements(i) ==
    /\ ~panicked
    /\ user[i] = "idle"
    /\ user' = [user EXCEPT ![i] = IF running = 1 THEN "closing" ELSE "waiting"]
    /\ running' = running - 1
    /\ early' = (early \/ run \in Starting)
    /\ UNCHANGED <<stopCh, closes, run, sockets, accept, handle, clean, wg, panicked, late>>

\* The compare-and-swap of Stop.  When it fails Stop does nothing.
StopSwaps(i) ==
    /\ ~panicked
    /\ user[i] = "idle"
    /\ user' = [user EXCEPT ![i] = IF running = 1 THEN "closing" ELSE "waiting"]
    /\ running' = 0
    /\ early' = (early \/ run \in Starting)
    /\ UNCHANGED <<stopCh, closes, run, sockets, accept, handle, clean, wg, panicked, late>>

\* Mutant of StopCloses: only the context is cancelled, and nobody looks at it.
StopCancels(i) ==
    /\ user[i] = "closing"
    /\ user' = [user EXCEPT ![i] = "waiting"]
    /\ UNCHANGED <<flags, run, sockets, accept, handle, clean, wg, panicked, early, late>>

StopCloses(i) ==
    /\ user[i] = "closing"
    /\ user' = [user EXCEPT ![i] = "waiting"]
    /\ stopCh' = TRUE
    /\ closes' = closes + 1
    /\ UNCHANGED <<running, run, sockets, accept, handle, clean, wg, panicked, early, late>>

\* Wait, at a counter of zero and above it.
WaitLooks(i) ==
    /\ user[i] = "waiting"
    /\ user' = [user EXCEPT ![i] = IF wg = 0 THEN "done" ELSE "asleep"]
    /\ UNCHANGED <<flags, run, sockets, accept, handle, clean, wg, panicked, early, late>>

\* Who was released looks at the counter once more.
WaitWakes(i) ==
    /\ user[i] = "woken"
    /\ \/ /\ wg = 0
          /\ user' = [user EXCEPT ![i] = "done"]
          /\ UNCHANGED panicked
       \/ /\ wg # 0
          /\ panicked' = TRUE
          /\ UNCHANGED user
    /\ UNCHANGED <<flags, run, sockets, accept, handle, clean, wg, early, late>>

StopAndWait(i) == ~panicked /\ (StopCloses(i) \/ WaitLooks(i) \/ WaitWakes(i))

-----------------------------------------------------------------------------
Next ==
    \/ Run
    \/ CleanerExits
    \/ AcceptTCP \/ Accepts
    \/ HandleUDP \/ ReadsDatagram
    \/ \E i \in Users : StopSwaps(i) \/ StopAndWait(i)

Spec == Init /\ [][Next]_vars

\* Goroutines are scheduled, deadlines pass, a dial ends.  Nobody has to call
\* Stop, and no client has to send anything.
Fairness ==
    /\ WF_vars(Run)
    /\ WF_vars(CleanerExits)
    /\ WF_vars(AcceptTCP)
    /\ WF_vars(HandleUDP)
    /\ \A i \in Users : WF_vars(StopAndWait(i))

FairSpec == Spec /\ Fairness

-----------------------------------------------------------------------------
\* Every variable keeps its type.
TypeOK ==
    /\ running \in {0, 1}
    /\ stopCh \in BOOLEAN /\ cleanStop \in BOOLEAN
    /\ closes \in Nat
    /\ run \in {"call", "start", "listenTCP", "listenUDP", "serve", "closeUDP", "joinUDP",
                "closeTCP", "stopCleaner", "joinCleaner", "reset", "returned"}
    /\ tcp \in {"none", "open", "closed"} /\ udp \in {"none", "open", "closed"}
    /\ blocking \in BOOLEAN
    /\ accept \in {"none", "select", "accept", "dial", "exited"}
    /\ handle \in {"none", "select", "read", "recv", "exited"}
    /\ cleaner \in {"none", "running", "exited"}
    /\ user \in [Users -> {"idle", "closing", "waiting", "asleep", "woken", "done"}]
    /\ wg \in {0, 1, 2} /\ panicked \in BOOLEAN /\ early \in BOOLEAN
    /\ lateAccepts \in Nat /\ lateDatagrams \in Nat

\* However many goroutines call Stop, and whether or not Run is failing at the
\* same time, stopCh is closed at most once: the second close would panic.
ClosedOnce == closes <= 1

\* When Run has returned, stopped or because a listener failed, no listening
\* socket is open, the cleanup goroutine has ended and the flag is reset.  The
\* pairs and sessions that are open then stay open, and nobody cleans them.
RunCleansUp ==
    run = "returned" => tcp # "open" /\ udp # "open" /\ cleaner = "exited" /\ running = 0

\* A stopped loop takes at most one more connection and one more datagram: each
\* goroutine looks at stopCh between two of them.
OneLateInput == lateAccepts <= 1 /\ lateDatagrams <= 1

\* A Wait that follows a Stop waits for acceptTCP and handleUDP, and nobody
\* panics: l.wg counts the two (loop.go:169, 270), it is not raised again while a
\* Wait is being released, and it is not lowered below zero.  All of that needs
\* the Stop to come when Run has started its listeners: after an earlier one Wait
\* may find nothing to wait for, or meet Run's Add and panic.
WaitWaitsUnlessEarly ==
    ~early => /\ ~panicked
              /\ \A i \in Users : user[i] = "done" => accept \in Gone /\ handle \in Gone

Unwound ==
    /\ run = "returned" /\ cleaner = "exited" /\ wg = 0
    /\ \A i \in Users : user[i] \in {"idle", "done"}

\* Once a Stop has found the loop running, every goroutine of the loop ends,
\* Run returns, and so does every Wait, unless a Wait panics, which only a Stop
\* before the end of Run's start can bring about (WaitWaitsUnlessEarly), or
\* handleUDP stays for ever in the Read of a socket that a session has made
\* blocking.
StopUnwinds ==
    []<>~(blocking /\ handle = "recv") =>
        \A i \in Users : (user[i] = "closing") ~> (Unwound \/ panicked)

\* The comments at loop.go:398, 409: Stop stops the event loop, and Wait waits
\* for it to finish.  Nothing more than Stop is needed for that.
StopNeedsNoDatagram == \A i \in Users : (user[i] = "closing") ~> Unwound

\* The comment at loop.go:398: Stop stops the event loop.  Who has called Stop
\* comes back from Wait.
StopStops == \A i \in Users : (user[i] = "waiting") ~> (user[i] = "done")

=============================================================================
