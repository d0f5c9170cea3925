------------------------------- MODULE UDPRelay -------------------------------
(***************************************************************************)
(* The UDP half of the port mapper: handleUDP (event/loop.go) reads the    *)
(* datagrams of all clients from one socket and keeps one UDPForwarder per *)
(* client; each forwarder has a goroutine, forwardFromRemote               *)
(* (forward/udp.go), that reads the answers of the remote from a socket of *)
(* its own and sends them to the client; the cleanup goroutine             *)
(* (CleanupManager) closes the forwarders of idle clients.                 *)
(*                                                                         *)
(* The forwarders are the keys of CM's UDP cache, and the callback of that *)
(* cache is UDPForwarder.Close: a forwarder is closed when its callback    *)
(* has run.  Nothing in the program removes a forwarder from the tables    *)
(* or closes its sockets.                                                  *)
(*                                                                         *)
(* A new session calls File().Fd() on both its sockets.  Fd puts the       *)
(* descriptor, and with it the socket the two share, in blocking mode (Go  *)
(* on Unix), where the deadline that the reader sets does not end a Read:  *)
(* it returns with an answer or an error and no sooner.                    *)
(***************************************************************************)
EXTENDS Integers, SequencesExt

CONSTANTS
    Clients,        \* client addresses
    MaxFwds,        \* bound: forwarders that can be made
    MaxConns,       \* cfg.MaxConnections; Validate wants it positive
    UDPTimeout,     \* cfg.UDPTimeout
    ClearRatio,     \* cfg.ClearRatio
    NoKey,          \* nil
    MaxTime,        \* bound on the clock
    MaxDatagrams    \* bound on the datagrams of the clients

ASSUME MaxConnsPositive == MaxConns \in Nat \ {0}
ASSUME RelayBounds == MaxFwds \in Nat /\ MaxDatagrams \in Nat /\ MaxTime \in Nat

Fwds == 1 .. MaxFwds

\* Validate rejects a ratio that is not positive.  It does not look at the
\* timeouts: a negative one is left out.
ASSUME CleanerParams ==
    UDPTimeout \in Nat /\ ClearRatio \in Nat \ {0} /\ NoKey \notin Fwds

VARIABLES
    li, mp, exp, used, holder, cleaned, now, tick, pc, sweepNow,
    proto, quota, victim, stopped, stopper, crashed, \* of CM
    table,     \* udpForwarders: client -> forwarder
    conns,     \* udpManager: clients with a UDPConn
    client,    \* client[f]: the client of f, for the forwarders made
    h,         \* handleUDP: its place in the loop, the datagram's client, the forwarder
    reader,    \* reader[f]: the place of f's forwardFromRemote
    net,       \* net[f]: what f's socket holds for its next Read
    owed,      \* owed[f]: datagrams the remote got from f and has not answered
    sent,      \* bound: datagrams the clients sent
    late       \* history: datagrams f's reader delivered after Close

CM == INSTANCE CleanupManager WITH
        TCPKeys <- {}, UDPKeys <- Fwds, TCPTimeout <- UDPTimeout,
        MinClear <- 1, DisableClear <- FALSE

cmVars == <<li, mp, exp, used, holder, cleaned, now, tick, pc, sweepNow,
            proto, quota, victim, stopped, stopper, crashed>>
tables == <<table, conns, client>>
remoteSide == <<reader, net, owed, late>>
vars == <<cmVars, tables, h, remoteSide, sent>>

Idle == [at |-> "read", c |-> NoKey, f |-> NoKey]

Made == DOMAIN client

\* UDPForwarder.Close ran.
Closed(f) == cleaned[f] > 0

Init ==
    /\ CM!Init
    /\ table = <<>>
    /\ conns = {}
    /\ client = <<>>
    /\ h = Idle
    /\ reader = [f \in Fwds |-> "none"]
    /\ net = [f \in Fwds |-> "empty"]
    /\ owed = [f \in Fwds |-> 0]
    /\ sent = 0
    /\ late = [f \in Fwds |-> 0]

\* A table with an entry added.
With(entries, key, entry) ==
    [k \in DOMAIN entries \cup {key} |-> IF k = key THEN entry ELSE entries[k]]

-----------------------------------------------------------------------------
\* handleUDP.

\* ReadFrom returns a datagram of client c.
ReadFrom(c) ==
    /\ ~crashed
    /\ h = Idle
    /\ sent < MaxDatagrams
    /\ sent' = sent + 1
    /\ h' = [h EXCEPT !.at = "lookup", !.c = c]
    /\ UNCHANGED <<cmVars, tables, remoteSide>>

Known == h.c \in DOMAIN table
Full  == Cardinality(DOMAIN table) >= MaxConns

\* udpForwarders.Get finds the client's forwarder.
LookupFinds ==
    /\ ~crashed
    /\ h.at = "lookup" /\ Known
    /\ h' = [h EXCEPT !.at = "touch", !.f = table[h.c]]
    /\ UNCHANGED <<cmVars, tables, remoteSide, sent>>

\* Too many connections, or DialUDP, a File() or udpManager.Add fails: the
\* datagram is dropped.
Refuse ==
    /\ ~crashed
    /\ h.at = "lookup" /\ ~Known
    /\ h' = Idle
    /\ UNCHANGED <<cmVars, tables, remoteSide, sent>>

\* Mutant of NewSession: udpForwarders.Add is forgotten.
NewSessionNotListed ==
    LET f == Cardinality(Made) + 1 IN
    /\ ~crashed
    /\ h.at = "lookup" /\ ~Known /\ ~Full
    /\ f \in Fwds
    /\ conns' = conns \cup {h.c}
    /\ client' = With(client, f, h.c)
    /\ reader' = [reader EXCEPT ![f] = "select"]
    /\ h' = [h EXCEPT !.at = "add", !.f = f]
    /\ UNCHANGED <<cmVars, table, net, owed, late, sent>>

\* A new session: udpManager.Add, Start of the reader, udpForwarders.Add.
\* Only this goroutine writes the two tables, so that their order does not
\* matter; the reader runs from here on.
NewSession ==
    LET f == Cardinality(Made) + 1 IN
    /\ ~crashed
    /\ h.at = "lookup" /\ ~Known /\ ~Full
    /\ f \in Fwds
    /\ Cardinality(conns) < MaxConns /\ h.c \notin conns
    /\ conns' = conns \cup {h.c}
    /\ client' = With(client, f, h.c)
    /\ table' = With(table, h.c, f)
    /\ reader' = [reader EXCEPT ![f] = "select"]
    /\ h' = [h EXCEPT !.at = "add", !.f = f]
    /\ UNCHANGED <<cmVars, net, owed, late, sent>>

\* cleanupMgr.AddUDP and then TouchUDP: each locks the cache, then does its work.
LockCache(at, op, next) ==
    /\ h.at = at
    /\ CM!Lock("udp", op, h.f)
    /\ h' = [h EXCEPT !.at = next]
    /\ UNCHANGED <<tables, remoteSide, sent>>

LockAdd   == LockCache("add", "put", "adding")
LockTouch == LockCache("touch", "touch", "touching")

AddUDP ==
    /\ h.at = "adding"
    /\ CM!Put("udp")
    /\ h' = [h EXCEPT !.at = "touch"]
    /\ UNCHANGED <<tables, remoteSide, sent>>

TouchUDP ==
    /\ h.at = "touching"
    /\ CM!Touch("udp")
    /\ h' = [h EXCEPT !.at = "forward"]
    /\ UNCHANGED <<tables, remoteSide, sent>>

\* ForwardToRemote: the remote gets the datagram or the network loses it.
\* A pending ICMP error makes Write fail instead, which consumes the error
\* and is ignored.
ForwardToRemote ==
    /\ ~crashed
    /\ h.at = "forward"
    /\ h' = Idle
    /\ IF net[h.f] = "refused"
         THEN net' = [net EXCEPT ![h.f] = "empty"] /\ UNCHANGED owed
         ELSE /\ owed' \in {owed, [owed EXCEPT ![h.f] = @ + 1]}
              /\ UNCHANGED net
    /\ UNCHANGED <<cmVars, tables, reader, late, sent>>

HandleUDP ==
    \/ LookupFinds \/ Refuse \/ NewSession
    \/ LockAdd \/ AddUDP \/ LockTouch \/ TouchUDP
    \/ ForwardToRemote

-----------------------------------------------------------------------------
\* forwardFromRemote of forwarder f.

\* Mutant of ReaderSelects: f.done is not looked at.
ReaderGoesOn(f) ==
    /\ ~crashed
    /\ reader[f] = "select"
    /\ reader' = [reader EXCEPT ![f] = "read"]
    /\ UNCHANGED <<cmVars, tables, h, net, owed, late, sent>>

\* The select on f.done.
ReaderSelects(f) ==
    /\ ~crashed
    /\ reader[f] = "select"
    /\ reader' = [reader EXCEPT ![f] = IF Closed(f) THEN "exited" ELSE "read"]
    /\ UNCHANGED <<cmVars, tables, h, net, owed, late, sent>>

\* Read returns a datagram, or ECONNREFUSED, which is not temporary.
ReaderReads(f) ==
    /\ ~crashed
    /\ reader[f] = "read"
    /\ net[f] # "empty"
    /\ reader' = [reader EXCEPT ![f] = IF net[f] = "reply" THEN "deliver" ELSE "exited"]
    /\ net' = [net EXCEPT ![f] = "empty"]
    /\ UNCHANGED <<cmVars, tables, h, owed, late, sent>>

\* Mutant of ReaderDelivers: the loop goes on without the select.
ReaderSkipsSelect(f) ==
    /\ ~crashed
    /\ reader[f] = "deliver"
    /\ reader' = [reader EXCEPT ![f] = "read"]
    /\ late' = [late EXCEPT ![f] = IF Closed(f) THEN @ + 1 ELSE @]
    /\ UNCHANGED <<cmVars, tables, h, net, owed, sent>>

\* WriteTo the client; a failure changes nothing.
ReaderDelivers(f) ==
    /\ ~crashed
    /\ reader[f] = "deliver"
    /\ reader' = [reader EXCEPT ![f] = "select"]
    /\ late' = [late EXCEPT ![f] = IF Closed(f) THEN @ + 1 ELSE @]
    /\ UNCHANGED <<cmVars, tables, h, net, owed, sent>>

Reader(f) == ReaderSelects(f) \/ ReaderReads(f) \/ ReaderDelivers(f)

\* The remote answers a datagram, or its host answers with an ICMP error.
RemoteAnswers(f) ==
    /\ ~crashed
    /\ owed[f] > 0
    /\ net[f] = "empty"
    /\ owed' = [owed EXCEPT ![f] = @ - 1]
    /\ \E answer \in {"reply", "refused"} : net' = [net EXCEPT ![f] = answer]
    /\ UNCHANGED <<cmVars, tables, h, reader, late, sent>>

-----------------------------------------------------------------------------
\* The cleanup goroutine, its ticker and the clock.
Background ==
    /\ CM!ClockTick \/ CM!TickerFires \/ CM!Start \/ CM!CleanupLoop
    /\ UNCHANGED <<tables, h, remoteSide, sent>>

Crashed == crashed /\ UNCHANGED vars

Next ==
    \/ \E c \in Clients : ReadFrom(c)
    \/ HandleUDP
    \/ \E f \in Fwds : Reader(f) \/ RemoteAnswers(f)
    \/ Background
    \/ Crashed

Spec == Init /\ [][Next]_vars

\* Run calls CM!Start before handleUDP; goroutines are scheduled; the ticker
\* keeps firing.
Fairness ==
    /\ WF_vars(HandleUDP)
    /\ \A f \in Fwds : WF_vars(Reader(f))
    /\ WF_vars(Background /\ CM!Start)
    /\ WF_vars(Background /\ CM!TickerFires)
    /\ WF_vars(Background /\ CM!CleanupLoop)

FairSpec == Spec /\ Fairness

-----------------------------------------------------------------------------
\* Every variable of the relay keeps its type (CM!TypeOK has the others).
TypeOK ==
    /\ CM!TypeOK
    /\ DOMAIN table \subseteq Clients /\ \A c \in DOMAIN table : table[c] \in Fwds
    /\ conns \subseteq Clients
    /\ DOMAIN client \subseteq Fwds /\ \A f \in DOMAIN client : client[f] \in Clients
    /\ h.at \in {"read", "lookup", "add", "adding", "touch", "touching", "forward"}
    /\ h.c \in Clients \cup {NoKey}
    /\ h.f \in Made \cup {NoKey}
    /\ reader \in [Fwds -> {"none", "select", "read", "deliver", "exited"}]
    /\ net \in [Fwds -> {"empty", "reply", "refused"}]
    /\ owed \in [Fwds -> Nat]
    /\ sent \in Nat
    /\ late \in [Fwds -> Nat]

\* udpForwarders, udpManager and the forwarders agree: a client has one
\* forwarder at most, the one the table finds, whatever datagrams race with
\* the cleanup; a second one would leak its goroutine and split the session.
OneForwarderPerClient ==
    /\ DOMAIN table = conns
    /\ Cardinality(conns) <= MaxConns
    /\ \A f \in Made : client[f] \in conns /\ table[client[f]] = f

\* A forwarder that is open is tracked by the cache, unless handleUDP is about
\* to add it or the sweep about to close it: no session can outlive its
\* timeout because the cleaner has lost it.
OpenIsTracked ==
    \A f \in Made :
        \/ Closed(f)
        \/ f \in ToSet(li["udp"])
        \/ h.f = f /\ h.at \in {"add", "adding"}
        \/ pc = "callback" /\ victim = f

\* A forwarder's reader looks at f.done between two datagrams: after Close at
\* most one more answer reaches the client.
OneLateDelivery == \A f \in Fwds : late[f] <= 1

\* A session whose deadline has passed and that is not touched again is closed.
IdleSessionCloses ==
    \A f \in Fwds :
        (f \in ToSet(li["udp"]) /\ exp[f] <= now)
            ~> (Closed(f) \/ exp[f] > now \/ crashed)

\* The goroutine of a closed forwarder ends as soon as an answer brings it out
\* of the Read that Close does not interrupt.  (An error may not: the Write of a
\* later datagram of the client can take it first.)
ReaderExitsOnceAwake ==
    \A f \in Fwds :
        (f \in Made /\ Closed(f) /\ (reader[f] # "read" \/ net[f] = "reply"))
            ~> (reader[f] = "exited" \/ crashed)

\* A session that was closed leaves the table, so that its client's next
\* datagram opens a new one.
ClosedSessionLeavesTable ==
    \A f \in Fwds :
        (f \in Made /\ Closed(f)) ~> (\A c \in DOMAIN table : table[c] # f)

=============================================================================
