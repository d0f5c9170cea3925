------------------------------- MODULE TCPRelay -------------------------------
(***************************************************************************)
(* The TCP half of the port mapper: acceptTCP (event/loop.go) accepts a    *)
(* connection, dials the remote, tracks the pair in the cleanup manager    *)
(* and starts a TCPForwarder (forward/tcp.go), whose two goroutines copy   *)
(* the two directions; the cleanup goroutine (CleanupManager) closes the   *)
(* pairs whose deadline has passed.                                        *)
(*                                                                         *)
(* A session is a TCPConn with its forwarder.  The callback of the TCP     *)
(* cache is TCPConn.Close, so that a pair is closed when its callback has  *)
(* run.  Nothing else closes a pair: TCPForwarder.Wait, the only caller of *)
(* TCPForwarder.Close, is never called, and with it neither is the onClose *)
(* that removes a forwarder from the manager.  TouchTCP has no caller.     *)
(***************************************************************************)
EXTENDS Integers, SequencesExt

CONSTANTS
    MaxSessions, \* bound: pairs that can be made
    MaxAccepts,  \* bound on the connections accepted
    MaxConns,    \* cfg.MaxConnections; Validate wants it positive
    TCPTimeout,  \* cfg.TCPTimeout
    ClearRatio,  \* cfg.ClearRatio
    NoKey,       \* nil
    MaxTime      \* bound on the clock

ASSUME MaxConnsPositive == MaxConns \in Nat \ {0}
ASSUME TCPBounds == MaxSessions \in Nat /\ MaxAccepts \in Nat /\ MaxTime \in Nat

Sessions == 1 .. MaxSessions

\* Validate rejects a ratio that is not positive.  It does not look at the
\* timeouts: a negative one is left out.
ASSUME CleanerParams ==
    TCPTimeout \in Nat /\ ClearRatio \in Nat \ {0} /\ NoKey \notin Sessions

Up   == "copySrcToDst"
Down == "copyDstToSrc"

VARIABLES
    li, mp, exp, used, holder, cleaned, now, tick, pc, sweepNow,
    proto, quota, victim, stopped, stopper, crashed, \* of CM
    made,     \* how many pairs were made
    a,        \* acceptTCP: its place in the loop and the pair it works on
    fwds,     \* tcpForwarders.forwarders
    copier,   \* copier[s][d]: the goroutine of direction d of s
    active,   \* history: pairs made, or that moved data, since the last tick of the clock
    accepts   \* bound: connections accepted

CM == INSTANCE CleanupManager WITH
        TCPKeys <- Sessions, UDPKeys <- {}, UDPTimeout <- TCPTimeout,
        MinClear <- 1, DisableClear <- FALSE

cmVars == <<li, mp, exp, used, holder, cleaned, now, tick, pc, sweepNow,
            proto, quota, victim, stopped, stopper, crashed>>
vars == <<cmVars, made, a, fwds, copier, active, accepts>>

\* TCPConn.Close ran.
Closed(s) == cleaned[s] > 0

Open == {s \in 1 .. made : ~Closed(s)}

Init ==
    /\ CM!Init
    /\ made = 0
    /\ a = [at |-> "accept", s |-> NoKey]
    /\ fwds = {}
    /\ copier = [s \in Sessions |-> [d \in {Up, Down} |-> "none"]]
    /\ active = {}
    /\ accepts = 0

-----------------------------------------------------------------------------
\* acceptTCP.

AcceptTCP ==
    /\ ~crashed
    /\ a.at = "accept"
    /\ accepts < MaxAccepts
    /\ accepts' = accepts + 1
    /\ a' = [a EXCEPT !.at = "count"]
    /\ UNCHANGED <<cmVars, made, fwds, copier, active>>

\* Mutant of Full: off by one.
FullLate == Cardinality(fwds) > MaxConns

Full == Cardinality(fwds) >= MaxConns

\* The accepted connection is closed again.
Refuse ==
    /\ ~crashed
    /\ a.at = "count" /\ Full
    /\ a' = [a EXCEPT !.at = "accept"]
    /\ UNCHANGED <<cmVars, made, fwds, copier, active, accepts>>

BeginDial ==
    /\ ~crashed
    /\ a.at = "count" /\ ~Full
    /\ a' = [a EXCEPT !.at = "dial"]
    /\ UNCHANGED <<cmVars, made, fwds, copier, active, accepts>>

\* DialTCP fails: the accepted connection is closed.
DialFails ==
    /\ ~crashed
    /\ a.at = "dial"
    /\ a' = [a EXCEPT !.at = "accept"]
    /\ UNCHANGED <<cmVars, made, fwds, copier, active, accepts>>

\* Mutant of Dialled: the pair is not added to the cleanup manager.
DialledUntracked ==
    /\ ~crashed
    /\ a.at = "dial"
    /\ made + 1 \in Sessions
    /\ made' = made + 1
    /\ active' = active \cup {made + 1}
    /\ a' = [at |-> "start", s |-> made + 1]
    /\ UNCHANGED <<cmVars, fwds, copier, accepts>>

\* NewTCPConn and NewTCPForwarder.
Dialled ==
    /\ ~crashed
    /\ a.at = "dial"
    /\ made + 1 \in Sessions
    /\ made' = made + 1
    /\ active' = active \cup {made + 1}
    /\ a' = [at |-> "add", s |-> made + 1]
    /\ UNCHANGED <<cmVars, fwds, copier, accepts>>

\* cleanupMgr.AddTCP.
LockAdd ==
    /\ a.at = "add"
    /\ CM!Lock("tcp", "put", a.s)
    /\ a' = [a EXCEPT !.at = "adding"]
    /\ UNCHANGED <<made, fwds, copier, active, accepts>>

AddTCP ==
    /\ a.at = "adding"
    /\ CM!Put("tcp")
    /\ a' = [a EXCEPT !.at = "start"]
    /\ UNCHANGED <<made, fwds, copier, active, accepts>>

\* tcpForwarders.Start: Add, then a goroutine that calls TCPForwarder.Start.
StartForwarder ==
    /\ ~crashed
    /\ a.at = "start"
    /\ fwds' = fwds \cup {a.s}
    /\ a' = [at |-> "accept", s |-> NoKey]
    /\ UNCHANGED <<cmVars, made, copier, active, accepts>>

Accepting ==
    \/ Refuse \/ BeginDial \/ DialFails \/ Dialled
    \/ LockAdd \/ AddTCP \/ StartForwarder

-----------------------------------------------------------------------------
\* The goroutines of a session.

\* TCPForwarder.Start.
Spawn(s) ==
    /\ ~crashed
    /\ s \in fwds
    /\ copier[s] = [d \in {Up, Down} |-> "none"]
    /\ copier' = [copier EXCEPT ![s] = [d \in {Up, Down} |-> "copying"]]
    /\ UNCHANGED <<cmVars, made, a, fwds, active, accepts>>

\* A Read and its Write succeed.  A read timeout changes nothing.  When
\* copyDstToSrc returns it calls dst.CloseWrite, and copySrcToDst has nowhere
\* to write.
Copy(s, d) ==
    /\ ~crashed
    /\ copier[s][d] = "copying"
    /\ ~Closed(s)
    /\ d = Up => copier[s][Down] = "copying"
    /\ active' = active \cup {s}
    /\ UNCHANGED <<cmVars, made, a, fwds, copier, accepts>>

\* Mutant of CopierEnds: an error of a closed connection is retried.
CopierRetries(s, d) ==
    /\ ~crashed
    /\ ~Closed(s)
    /\ copier[s][d] = "copying"
    /\ copier' = [copier EXCEPT ![s][d] = "exited"]
    /\ UNCHANGED <<cmVars, made, a, fwds, active, accepts>>

\* The peer ends or resets its side, or the pair was closed: the goroutine
\* returns, and leaves pair and forwarder as they are.
CopierEnds(s, d) ==
    /\ ~crashed
    /\ copier[s][d] = "copying"
    /\ copier' = [copier EXCEPT ![s][d] = "exited"]
    /\ UNCHANGED <<cmVars, made, a, fwds, active, accepts>>

Session(s) ==
    \/ Spawn(s)
    \/ \E d \in {Up, Down} : Copy(s, d) \/ CopierEnds(s, d)

-----------------------------------------------------------------------------
\* The cleanup goroutine, its ticker and the clock.
Background ==
    /\ CM!ClockTick \/ CM!TickerFires \/ CM!Start \/ CM!CleanupLoop
    /\ active' = IF now' = now THEN active ELSE {}
    /\ UNCHANGED <<made, a, fwds, copier, accepts>>

Crashed == crashed /\ UNCHANGED vars

Next ==
    \/ AcceptTCP
    \/ Accepting
    \/ \E s \in Sessions : Session(s)
    \/ Background
    \/ Crashed

Spec == Init /\ [][Next]_vars

\* Goroutines are scheduled, a dial ends, the ticker keeps firing; nobody
\* makes a peer send or end.  A closed pair makes Read and Write fail.
Fairness ==
    /\ WF_vars(Accepting)
    /\ WF_vars(\E s \in Sessions : Spawn(s))
    /\ WF_vars(\E s \in Sessions, d \in {Up, Down} : Closed(s) /\ CopierEnds(s, d))
    /\ WF_vars(Background /\ CM!Start)
    /\ WF_vars(Background /\ CM!TickerFires)
    /\ WF_vars(Background /\ CM!CleanupLoop)

FairSpec == Spec /\ Fairness

-----------------------------------------------------------------------------
\* Every variable of the relay keeps its type (CM!TypeOK has the others).
TypeOK ==
    /\ CM!TypeOK
    /\ made \in 0 .. MaxSessions
    /\ a.at \in {"accept", "count", "dial", "add", "adding", "start"}
    /\ a.s \in (1 .. made) \cup {NoKey}
    /\ fwds \subseteq 1 .. made
    /\ copier \in [Sessions -> [{Up, Down} -> {"none", "copying", "exited"}]]
    /\ active \subseteq 1 .. made
    /\ accepts \in Nat

\* A pair that is open is tracked by the cache, unless acceptTCP is about to
\* add it or the sweep about to close it: a pair whose goroutines have both
\* returned keeps its two sockets until the cleaner comes, and no other.
OpenIsTracked ==
    \A s \in Open :
        \/ s \in ToSet(li["tcp"])
        \/ a.s = s /\ a.at \in {"add", "adding"}
        \/ pc = "callback" /\ victim = s

S == INSTANCE Sessions WITH
        Pairs <- Sessions, Limit <- MaxConns, Timeout <- TCPTimeout,
        state <- [s \in Sessions |->
                    IF s > made THEN "none"
                    ELSE IF Closed(s) THEN "closed"
                    ELSE IF s \in used THEN "tracked" ELSE "open"],
        deadline <- exp

\* The relay implements Sessions.  The limit holds for the pairs that are open
\* although its check (loop.go:207) and the insertion (loop.go:239) are a dial
\* apart; a pair is closed once, after its own deadline, by no eviction and no
\* other pair's sweep.
ImplementsSessions == S!Spec

\* The pair whose deadline has passed is closed, whatever its peers do.
ExpiredSessionCloses ==
    \A s \in Sessions : (s \in ToSet(li["tcp"]) /\ exp[s] <= now) ~> (Closed(s) \/ crashed)

\* Both goroutines of a closed pair return, even those started after the
\* sweep had closed it.
CopiersExit ==
    \A s \in Sessions :
        (s \in fwds /\ Closed(s))
            ~> (crashed \/ \A d \in {Up, Down} : copier[s][d] = "exited")

\* --max-connections is the maximum number of connections: one more is refused
\* only while that many are open.
RefusedOnlyWhenFull == [][Refuse => Cardinality(Open) >= MaxConns]_vars

\* README.md: it is the connections that time out which are cleaned up.  A pair
\* that is closed has moved no data since the clock ticked last, let alone for
\* the whole of tcp-timeout.
OnlyIdleClosed ==
    [][TCPTimeout > 0 => \A s \in active : cleaned'[s] = cleaned[s]]_vars

=============================================================================
