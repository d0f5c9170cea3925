---------------------------- MODULE SignalHandler ----------------------------
(***************************************************************************)
(* Handler of internal/signal/handler.go: the goroutine in Run, goroutines *)
(* that call Stop, and the signals of the process.  The channel of signals *)
(* holds one, and os/signal drops what does not fit.  main does not use    *)
(* the handler: it has a channel of its own (LoopLifecycle).               *)
(*                                                                         *)
(* A signal that ends the process is TERM (SIGTERM, SIGINT); PIPE is       *)
(* SIGPIPE.  Signals that come before Notify are not the handler's.        *)
(***************************************************************************)
EXTENDS Naturals, Sequences

CONSTANTS
    Stoppers, \* goroutines that call Stop
    Runner,   \* the goroutine that calls Run
    Nobody    \* nil

Goroutines == Stoppers \cup {Runner}

VARIABLES
    notified, \* signal.Notify is in force
    sigCh,    \* the channel of signals
    chClosed, \* close(sigCh) ran
    quit,     \* quit is closed
    quits,    \* history: how often close(quit) ran; the second panics
    closeMu,  \* who holds closeMu
    at        \* at[g]: where g is

vars == <<notified, sigCh, chClosed, quit, quits, closeMu, at>>

Init ==
    /\ notified = FALSE
    /\ sigCh = <<>>
    /\ chClosed = FALSE
    /\ quit = FALSE
    /\ quits = 0
    /\ closeMu = Nobody
    /\ at = [g \in Goroutines |-> "idle"]

Goes(g, place) == at' = [at EXCEPT ![g] = place]

\* os/signal never blocks: a signal that finds the channel full is lost.
Deliver(sig) ==
    /\ notified
    /\ sigCh' = IF Len(sigCh) < 1 THEN Append(sigCh, sig) ELSE sigCh
    /\ UNCHANGED <<notified, chClosed, quit, quits, closeMu, at>>

-----------------------------------------------------------------------------
\* safeCloseQuit, by Run's handle or by Stop.

\* Mutant of LockClose: no mutex.
EnterClose(g) ==
    /\ at[g] = "lock"
    /\ Goes(g, "check")
    /\ UNCHANGED <<notified, sigCh, chClosed, quit, quits, closeMu>>

LockClose(g) ==
    /\ at[g] = "lock" /\ closeMu = Nobody
    /\ closeMu' = g
    /\ Goes(g, "check")
    /\ UNCHANGED <<notified, sigCh, chClosed, quit, quits>>

After(g) == IF g = Runner THEN "select" ELSE "stopped"

AlreadyClosed(g) ==
    /\ at[g] = "check" /\ quit
    /\ closeMu' = Nobody
    /\ Goes(g, After(g))
    /\ UNCHANGED <<notified, sigCh, chClosed, quit, quits>>

NotYetClosed(g) ==
    /\ at[g] = "check" /\ ~quit
    /\ Goes(g, "close")
    /\ UNCHANGED <<notified, sigCh, chClosed, quit, quits, closeMu>>

CloseQuit(g) ==
    /\ at[g] = "close"
    /\ quit' = TRUE
    /\ quits' = quits + 1
    /\ closeMu' = Nobody
    /\ Goes(g, After(g))
    /\ UNCHANGED <<notified, sigCh, chClosed>>

SafeCloseQuit(g) == LockClose(g) \/ AlreadyClosed(g) \/ NotYetClosed(g) \/ CloseQuit(g)

Stop(g) ==
    /\ g \in Stoppers /\ at[g] = "idle"
    /\ Goes(g, "lock")
    /\ UNCHANGED <<notified, sigCh, chClosed, quit, quits, closeMu>>

-----------------------------------------------------------------------------
\* Run.

RunNotifies ==
    /\ at[Runner] = "idle"
    /\ notified' = TRUE
    /\ Goes(Runner, "select")
    /\ UNCHANGED <<sigCh, chClosed, quit, quits, closeMu>>

\* Mutant of RunHandles: TERM is only logged.
RunLogs ==
    /\ at[Runner] = "select" /\ sigCh # <<>>
    /\ sigCh' = Tail(sigCh)
    /\ Goes(Runner, "select")
    /\ UNCHANGED <<notified, chClosed, quit, quits, closeMu>>

\* case sig := <-sigCh
RunHandles ==
    /\ at[Runner] = "select" /\ sigCh # <<>>
    /\ sigCh' = Tail(sigCh)
    /\ Goes(Runner, IF Head(sigCh) = "TERM" THEN "lock" ELSE "select")
    /\ UNCHANGED <<notified, chClosed, quit, quits, closeMu>>

\* case <-quit: signal.Stop; no signal is delivered once it has returned.
RunQuits ==
    /\ at[Runner] = "select" /\ quit
    /\ notified' = FALSE
    /\ Goes(Runner, "closing")
    /\ UNCHANGED <<sigCh, chClosed, quit, quits, closeMu>>

\* close(sigCh), and the deferred close(exited).
RunExits ==
    /\ at[Runner] = "closing"
    /\ chClosed' = TRUE
    /\ Goes(Runner, "exited")
    /\ UNCHANGED <<notified, sigCh, quit, quits, closeMu>>

Run == RunHandles \/ RunQuits \/ RunExits

Next ==
    \/ \E sig \in {"TERM", "PIPE"} : Deliver(sig)
    \/ \E g \in Goroutines : SafeCloseQuit(g) \/ Stop(g)
    \/ RunNotifies \/ Run

Spec == Init /\ [][Next]_vars

-----------------------------------------------------------------------------
\* Every variable keeps its type.
TypeOK ==
    /\ sigCh \in Seq({"TERM", "PIPE"})
    /\ {notified, chClosed, quit} \subseteq BOOLEAN
    /\ quits \in Nat
    /\ closeMu \in Goroutines \cup {Nobody}
    /\ at \in [Goroutines -> {"idle", "lock", "check", "close", "stopped", "select",
                              "closing", "exited"}]

\* However many goroutines call Stop while Run handles a signal, quit is closed
\* once, and nothing is sent to a sigCh that is closed: either would panic.
ClosedSafely == quits <= 1 /\ ~(chClosed /\ notified)

\* Somebody wants the handler to exit.
Wanted ==
    \/ \E i \in DOMAIN sigCh : sigCh[i] = "TERM"
    \/ \E g \in Stoppers : at[g] = "lock"

\* A TERM that has reached the channel, or a Stop, makes a handler that runs
\* exit, so that Wait returns; and no Stop stays behind.
HandlerExits ==
    (Wanted /\ at[Runner] # "idle")
        ~> (at[Runner] = "exited" /\ \A g \in Stoppers : at[g] \in {"idle", "stopped"})

=============================================================================
