----------------------------- MODULE TCPForwarding -----------------------------
(***************************************************************************)
(* The TCP half.  Its three modules are three views of forward/tcp.go that *)
(* share no state: the life of the pairs (TCPRelay), the bytes of one pair *)
(* (TCPCopy) and the whole interface of the manager (TCPForwarderManager). *)
(* Init chooses the one that moves (part), so that the behaviours are      *)
(* those of the three modules, side by side.                               *)
(***************************************************************************)
EXTENDS TCPRelay

CONSTANTS
    BufSize, MaxSent, Faults, \* of B
    Fwds, Callers             \* of M

\* NewTCPForwarder makes no buffer that is empty (forward/tcp.go:32-34).
ASSUME CopyParams ==
    /\ BufSize \in Nat \ {0}
    /\ MaxSent \in [{Up, Down} -> Nat]
    /\ Faults \subseteq {"timedout", "down"}

ASSUME ForwarderParams == IsFiniteSet(Fwds) /\ NoKey \notin Fwds \cup Callers

VARIABLES
    part,                                                          \* the view that moves
    sent, eof, got, taken, status, pairClosed, dstShut,            \* of B
    buf, copyPC, n, w, overlap, echoed,
    table, mu, todo, wg, panicked, via, starter, copying, closed,  \* of M
    called, call, removed

bVars == <<sent, eof, got, taken, status, pairClosed, dstShut, buf, copyPC, n, w, overlap, echoed>>
mVars == <<table, mu, todo, wg, panicked, via, starter, copying, closed, called, call, removed>>

B == INSTANCE TCPCopy WITH pc <- copyPC, closed <- pairClosed

M == INSTANCE TCPForwarderManager WITH Nobody <- NoKey

ForwardingInit ==
    /\ part \in {"relay", "bytes", "manager"}
    /\ Init /\ B!Init /\ M!Init

ForwardingNext ==
    /\ UNCHANGED part
    /\ \/ part = "relay" /\ Next /\ UNCHANGED <<bVars, mVars>>
       \/ part = "bytes" /\ B!Next /\ UNCHANGED <<vars, mVars>>
       \/ part = "manager" /\ M!Next /\ UNCHANGED <<vars, bVars>>

\* The fairness of each view, where it is the one that moves.  TCPRelay: its
\* Fairness.  TCPCopy: its two goroutines run, and the peers take what is
\* written to them.  TCPForwarderManager: its goroutines run, the copying ends
\* (CopiersExit), and a mutex that comes free again and again is got (Go's
\* starvation mode).
ForwardingFairness ==
    /\ WF_vars(part = "relay" /\ Accepting)
    /\ WF_vars(part = "relay" /\ \E s \in Sessions : Spawn(s))
    /\ WF_vars(part = "relay" /\ \E s \in Sessions, d \in {Up, Down} : Closed(s) /\ CopierEnds(s, d))
    /\ WF_vars(part = "relay" /\ Background /\ CM!Start)
    /\ WF_vars(part = "relay" /\ Background /\ CM!TickerFires)
    /\ WF_vars(part = "relay" /\ Background /\ CM!CleanupLoop)
    /\ \A d \in B!Dirs : WF_bVars(part = "bytes" /\ B!Copier(d))
    /\ \A c \in Callers : SF_mVars(part = "manager" /\ (M!Works(c) \/ M!Locks(c)))
    /\ WF_mVars(part = "manager" /\ \E f \in Fwds : M!Forwarder(f))

ForwardingSpec == ForwardingInit /\ [][ForwardingNext]_<<part, vars, bVars, mVars>> /\ ForwardingFairness

\* Every variable of the three modules keeps its type.
ForwardingTypeOK == TypeOK /\ B!TypeOK /\ M!TypeOK

\* TCPCopy: a byte goes astray only through the shared buffer or through
\* handlePartialWrite (forward/tcp.go:77, 125, 160).
IntactUnlessShared == B!IntactUnlessShared

\* TCPCopy: what is sent arrives, unless the connection is cut
\* (forward/tcp.go:68-103, 116-150).
DeliveredUnlessCut == B!DeliveredUnlessCut

\* TCPForwarderManager: onClose runs once (forward/tcp.go:182).
OnCloseOnce == M!OnCloseOnce

\* TCPForwarderManager: a forwarder is in the table until it is closed, and not
\* longer (forward/tcp.go:256-261, 271-279, 291-295).
InTableUntilClosed == M!InTableUntilClosed

\* TCPForwarderManager: every call returns, unless CloseAll has locked itself
\* out (forward/tcp.go:271-279) or a Start has met a WaitAll that was being
\* released (forward/tcp.go:283, 296).
CallsReturn == M!CallsReturn

=============================================================================
