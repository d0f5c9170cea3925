-------------------------- MODULE TCPForwarderManager --------------------------
(***************************************************************************)
(* TCPForwarderManager of forward/tcp.go and the life of the TCPForwarders *)
(* it holds, called from several goroutines.  Its mutex is held across     *)
(* steps by CloseAll only; Add and Remove are one step each, taken when    *)
(* the mutex is free.                                                      *)
(*                                                                         *)
(* The program calls Start and Count (TCPRelay); here all of it is called. *)
(* A forwarder is given to Start or to Add, once, and is not closed or     *)
(* waited for before that call has returned.  The bytes are in TCPCopy.    *)
(* The pool is made and never used.                                        *)
(*                                                                         *)
(* m.wg is a sync.WaitGroup: the Done that takes its counter to zero       *)
(* releases the goroutines in WaitAll, and who then wakes to a counter     *)
(* that Start's Add has raised again panics.  A panic ends the process.    *)
(***************************************************************************)
EXTENDS Naturals, FiniteSets

CONSTANTS
    Fwds,    \* forwarders
    Callers, \* goroutines that use the manager
    Nobody   \* nil

VARIABLES
    table,    \* forwarders
    mu,       \* who holds mu in CloseAll
    todo,     \* the forwarders CloseAll has not visited
    wg,       \* the counter of the manager's WaitGroup
    panicked, \* the process has panicked
    via,      \* via[f]: "none", "Add", or "Start", which wraps onClose
    starter,  \* starter[f]: the goroutine that Start makes
    copying,  \* copying[f]: f.wg is not zero
    closed,   \* closed[f]: f.closed, and f.done is closed
    called,   \* called[f]: how often the onClose of f's owner has run
    call,     \* call[c]: where c is, and the forwarder it works on
    removed   \* history: the forwarders that a call of Remove took out

held  == <<table, removed>>
group == <<wg, panicked>>
vars == <<held, mu, todo, group, via, starter, copying, closed, called, call>>

Idle == [at |-> "idle", f |-> Nobody]

Init ==
    /\ table = {}
    /\ mu = Nobody
    /\ todo = {}
    /\ wg = 0 /\ panicked = FALSE
    /\ via = [f \in Fwds |-> "none"]
    /\ starter = [f \in Fwds |-> "none"]
    /\ copying = [f \in Fwds |-> FALSE]
    /\ closed = [f \in Fwds |-> FALSE]
    /\ called = [f \in Fwds |-> 0]
    /\ call = [c \in Callers |-> Idle]
    /\ removed = {}

Goes(c, at, f) == call' = [call EXCEPT ![c] = [at |-> at, f |-> f]]

\* The call of Start or Add with f has returned.
Given(f) ==
    /\ via[f] # "none"
    /\ \A c \in Callers : call[c].f = f => call[c].at \notin {"add", "spawn"}

-----------------------------------------------------------------------------
\* Start and Add.

CallStart(c, f) ==
    /\ call[c] = Idle /\ via[f] = "none"
    /\ via' = [via EXCEPT ![f] = "Start"]
    /\ Goes(c, "add", f)
    /\ UNCHANGED <<held, mu, todo, group, starter, copying, closed, called>>

\* Mutant of StartAdds: m.Add(f) is left out.
StartForgetsAdd(c) ==
    /\ call[c].at = "add" /\ mu = Nobody
    /\ Goes(c, "spawn", call[c].f)
    /\ UNCHANGED <<held, mu, todo, group, via, starter, copying, closed, called>>

StartAdds(c) ==
    /\ call[c].at = "add" /\ mu = Nobody
    /\ table' = table \cup {call[c].f}
    /\ Goes(c, "spawn", call[c].f)
    /\ UNCHANGED <<removed, mu, todo, group, via, starter, copying, closed, called>>

\* wg.Add and the new goroutine.  While a WaitAll is being released Add may
\* itself find that it is too early, and panic.
StartSpawns(c) ==
    /\ call[c].at = "spawn"
    /\ wg' = wg + 1
    /\ panicked' \in {FALSE, \E d \in Callers : call[d].at = "woken"}
    /\ starter' = [starter EXCEPT ![call[c].f] = "go"]
    /\ call' = [call EXCEPT ![c] = Idle]
    /\ UNCHANGED <<held, mu, todo, via, copying, closed, called>>

\* TCPForwarder.Start: both directions, whether f is closed or not.
StarterStarts(f) ==
    /\ starter[f] = "go"
    /\ starter' = [starter EXCEPT ![f] = "started"]
    /\ copying' = [copying EXCEPT ![f] = TRUE]
    /\ UNCHANGED <<held, mu, todo, group, via, closed, called, call>>

\* Mutant of StarterEnds: wg.Done is left out.
StarterForgets(f) ==
    /\ starter[f] = "started"
    /\ starter' = [starter EXCEPT ![f] = "ended"]
    /\ UNCHANGED <<held, mu, todo, group, via, copying, closed, called, call>>

StarterEnds(f) ==
    /\ starter[f] = "started"
    /\ starter' = [starter EXCEPT ![f] = "ended"]
    /\ wg' = wg - 1
    /\ panicked' = (wg = 0)
    /\ call' = [c \in Callers |-> IF wg = 1 /\ call[c].at = "waitAll"
                                 THEN [call[c] EXCEPT !.at = "woken"] ELSE call[c]]
    /\ UNCHANGED <<held, mu, todo, via, copying, closed, called>>

\* The later of the two directions returns.
CopiersEnd(f) ==
    /\ copying[f]
    /\ copying' = [copying EXCEPT ![f] = FALSE]
    /\ UNCHANGED <<held, mu, todo, group, via, starter, closed, called, call>>

Add(c, f) ==
    /\ call[c] = Idle /\ via[f] = "none" /\ mu = Nobody
    /\ via' = [via EXCEPT ![f] = "Add"]
    /\ table' = table \cup {f}
    /\ UNCHANGED <<removed, mu, todo, group, starter, copying, closed, called, call>>

Remove(c, f) ==
    /\ call[c] = Idle /\ mu = Nobody /\ f \in table
    /\ table' = table \ {f}
    /\ removed' = removed \cup {f}
    /\ UNCHANGED <<mu, todo, group, via, starter, copying, closed, called, call>>

-----------------------------------------------------------------------------
\* TCPForwarder.Wait, and Close by its owner, by Wait or by CloseAll.

CallClose(c, f) ==
    /\ call[c] = Idle /\ Given(f)
    /\ Goes(c, "close", f)
    /\ UNCHANGED <<held, mu, todo, group, via, starter, copying, closed, called>>

CallWait(c, f) ==
    /\ call[c] = Idle /\ Given(f)
    /\ Goes(c, "wait", f)
    /\ UNCHANGED <<held, mu, todo, group, via, starter, copying, closed, called>>

\* f.wg is also zero before the goroutine of Start has called f.Start.
WaitEnds(c) ==
    /\ call[c].at = "wait" /\ ~copying[call[c].f]
    /\ Goes(c, "close", call[c].f)
    /\ UNCHANGED <<held, mu, todo, group, via, starter, copying, closed, called>>

\* Close returns: to CloseAll when c is in it.
CloseReturns(c) == call' = [call EXCEPT ![c] = IF mu = c THEN [Idle EXCEPT !.at = "sweep"] ELSE Idle]

\* Mutant of CloseSwaps: a load and a store instead of the compare-and-swap.
CloseLoads(c) ==
    LET f == call[c].f IN
    /\ call[c].at = "close"
    /\ closed' = [closed EXCEPT ![f] = TRUE]
    /\ Goes(c, IF via[f] = "Start" THEN "remove" ELSE "callback", f)
    /\ UNCHANGED <<held, mu, todo, group, via, starter, copying, called>>

\* The first Close goes on to onClose, which Start has wrapped.
CloseSwaps(c) ==
    LET f == call[c].f IN
    /\ call[c].at = "close" /\ ~closed[f]
    /\ closed' = [closed EXCEPT ![f] = TRUE]
    /\ Goes(c, IF via[f] = "Start" THEN "remove" ELSE "callback", f)
    /\ UNCHANGED <<held, mu, todo, group, via, starter, copying, called>>

AlreadyClosed(c) ==
    /\ call[c].at = "close" /\ closed[call[c].f]
    /\ CloseReturns(c)
    /\ UNCHANGED <<held, mu, todo, group, via, starter, copying, closed, called>>

\* Mutant of OnCloseRemoves: the wrapper calls the owner's onClose only.
OnCloseKeeps(c) ==
    /\ call[c].at = "remove"
    /\ Goes(c, "callback", call[c].f)
    /\ UNCHANGED <<held, mu, todo, group, via, starter, copying, closed, called>>

\* m.Remove(f) waits for mu, even when c itself holds it in CloseAll.
OnCloseRemoves(c) ==
    /\ call[c].at = "remove" /\ mu = Nobody
    /\ table' = table \ {call[c].f}
    /\ Goes(c, "callback", call[c].f)
    /\ UNCHANGED <<removed, mu, todo, group, via, starter, copying, closed, called>>

OnClose(c) ==
    /\ call[c].at = "callback"
    /\ called' = [called EXCEPT ![call[c].f] = @ + 1]
    /\ CloseReturns(c)
    /\ UNCHANGED <<held, mu, todo, group, via, starter, copying, closed>>

-----------------------------------------------------------------------------
\* CloseAll and WaitAll.

CloseAll(c) ==
    /\ call[c] = Idle /\ mu = Nobody
    /\ mu' = c
    /\ todo' = table
    /\ Goes(c, "sweep", Nobody)
    /\ UNCHANGED <<held, group, via, starter, copying, closed, called>>

CloseNext(c) ==
    /\ call[c].at = "sweep"
    /\ \E f \in todo : todo' = todo \ {f} /\ Goes(c, "close", f)
    /\ UNCHANGED <<held, mu, group, via, starter, copying, closed, called>>

CloseAllEnds(c) ==
    /\ call[c].at = "sweep" /\ todo = {}
    /\ table' = {}
    /\ mu' = Nobody
    /\ call' = [call EXCEPT ![c] = Idle]
    /\ UNCHANGED <<removed, todo, group, via, starter, copying, closed, called>>

\* WaitAll sleeps; at a counter of zero it returns at once.
CallWaitAll(c) ==
    /\ call[c] = Idle /\ wg # 0
    /\ Goes(c, "waitAll", Nobody)
    /\ UNCHANGED <<held, mu, todo, group, via, starter, copying, closed, called>>

\* Who was released looks at the counter once more.
WaitAllWakes(c) ==
    /\ call[c].at = "woken"
    /\ \/ /\ wg = 0
          /\ call' = [call EXCEPT ![c] = Idle]
          /\ UNCHANGED panicked
       \/ /\ wg # 0
          /\ panicked' = TRUE
          /\ UNCHANGED call
    /\ UNCHANGED <<held, mu, todo, wg, via, starter, copying, closed, called>>

-----------------------------------------------------------------------------
Calls(c) ==
    /\ ~panicked
    /\ \/ \E f \in Fwds :
          CallStart(c, f) \/ Add(c, f) \/ Remove(c, f) \/ CallClose(c, f) \/ CallWait(c, f)
       \/ CloseAll(c)
       \/ CallWaitAll(c)

\* What c does inside a call, but for the waits for mu.
Works(c) ==
    /\ ~panicked
    /\ \/ StartSpawns(c) \/ WaitEnds(c)
       \/ CloseSwaps(c) \/ AlreadyClosed(c) \/ OnClose(c)
       \/ CloseNext(c) \/ CloseAllEnds(c) \/ WaitAllWakes(c)

Locks(c) == ~panicked /\ (StartAdds(c) \/ OnCloseRemoves(c))

Forwarder(f) == ~panicked /\ (StarterStarts(f) \/ StarterEnds(f) \/ CopiersEnd(f))

Next ==
    \/ \E c \in Callers : Calls(c) \/ Works(c) \/ Locks(c)
    \/ \E f \in Fwds : Forwarder(f)

Spec == Init /\ [][Next]_vars

-----------------------------------------------------------------------------
\* Every variable keeps its type.
TypeOK ==
    /\ table \subseteq Fwds /\ todo \subseteq Fwds /\ removed \subseteq Fwds
    /\ mu \in Callers \cup {Nobody}
    /\ wg \in 0 .. Cardinality(Fwds) /\ panicked \in BOOLEAN
    /\ via \in [Fwds -> {"none", "Add", "Start"}]
    /\ starter \in [Fwds -> {"none", "go", "started", "ended"}]
    /\ copying \in [Fwds -> BOOLEAN]
    /\ closed \in [Fwds -> BOOLEAN]
    /\ called \in [Fwds -> Nat]
    /\ call \in [Callers -> [f : Fwds \cup {Nobody},
                             at : {"idle", "add", "spawn", "wait", "close", "remove",
                                   "callback", "sweep", "waitAll", "woken"}]]

\* Somebody is between the first Close of f and its onClose.
Closing(f) == \E c \in Callers : call[c].f = f /\ call[c].at \in {"remove", "callback"}

\* However many goroutines close, wait for and sweep a forwarder, its owner's
\* onClose runs once, and no sooner than it is closed.
OnCloseOnce == \A f \in Fwds : called[f] = IF closed[f] /\ ~Closing(f) THEN 1 ELSE 0

\* A forwarder that was given to Start or Add stays in the table until it is
\* closed, unless its owner removes it: CloseAll empties the table of closed ones
\* only.  One that was given to Start has left it when its Close is over.
InTableUntilClosed ==
    \A f \in Fwds :
        /\ Given(f) /\ ~closed[f] => f \in table \cup removed
        /\ via[f] = "Start" /\ closed[f] /\ f \in table => Closing(f)

\* CloseAll closes a forwarder whose onClose wants the mutex it holds.
SelfLocked == \E c \in Callers : call[c].at = "remove" /\ mu = c

\* A WaitAll was being released when a Start raised the counter again, and one of
\* the two has panicked.
Reused == panicked /\ \E c \in Callers : call[c].at = "woken"

\* Every call returns, once the copying has ended, unless CloseAll has locked
\* itself out (Close in CloseAll is the only wait that nothing ends) or a Start
\* has met a WaitAll that was about to return.
CallsReturn == \A c \in Callers : call[c] # Idle ~> (call[c] = Idle \/ SelfLocked \/ Reused)

=============================================================================
