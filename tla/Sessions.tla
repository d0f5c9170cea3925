------------------------------- MODULE Sessions -------------------------------
(***************************************************************************)
(* What the TCP half promises of its connection pairs, without the caches, *)
(* tables and goroutines it is made of: at most Limit pairs are open; a    *)
(* pair gets a deadline when it is tracked; only a pair that is tracked,   *)
(* and whose deadline has passed, is closed, and it stays closed.          *)
(***************************************************************************)
EXTENDS Naturals, FiniteSets

CONSTANTS
    Pairs,   \* connection pairs
    Limit,   \* how many may be open
    Timeout, \* from the tracking of a pair to its deadline
    MaxTime  \* bound on the clock

VARIABLES
    state,    \* state[s]: "none", "open", "tracked" or "closed"
    deadline, \* deadline[s] of a pair that is tracked
    now       \* the clock

vars == <<state, deadline, now>>

Init ==
    /\ state = [s \in Pairs |-> "none"]
    /\ deadline = [s \in Pairs |-> 0]
    /\ now = 0

Open(s) ==
    /\ state[s] = "none"
    /\ Cardinality({t \in Pairs : state[t] \in {"open", "tracked"}}) < Limit
    /\ state' = [state EXCEPT ![s] = "open"]
    /\ UNCHANGED <<deadline, now>>

Track(s) ==
    /\ state[s] = "open"
    /\ state' = [state EXCEPT ![s] = "tracked"]
    /\ deadline' = [deadline EXCEPT ![s] = now + Timeout]
    /\ UNCHANGED now

Close(s) ==
    /\ state[s] = "tracked"
    /\ deadline[s] <= now
    /\ state' = [state EXCEPT ![s] = "closed"]
    /\ UNCHANGED <<deadline, now>>

Tick ==
    /\ now < MaxTime
    /\ now' = now + 1
    /\ UNCHANGED <<state, deadline>>

Next == Tick \/ \E s \in Pairs : Open(s) \/ Track(s) \/ Close(s)

Spec == Init /\ [][Next]_vars

=============================================================================
