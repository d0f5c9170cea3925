------------------------------- MODULE Lifecycle -------------------------------
(***************************************************************************)
(* How the parts of the process begin, go on and end.  The four modules    *)
(* share no state: the event loop (LoopLifecycle), the cleaner             *)
(* (CleanupManager), the signal handler (SignalHandler) and the            *)
(* configuration (Startup).  Init chooses the one that moves (part), so    *)
(* that the behaviours are those of the four modules, side by side.        *)
(***************************************************************************)
EXTENDS LoopLifecycle

CONSTANTS
    TCPKeys, UDPKeys, TCPTimeout, UDPTimeout, ClearRatio, MinClear, \* of K
    MaxConns, DisableClear, NoKey, MaxTime,
    Stoppers, Runner, Nobody,                                       \* of H
    FlagSettings, FileSettings                                      \* of C

\* What CleanupManager assumes.
ASSUME CleanerParams ==
    /\ TCPKeys \cap UDPKeys = {} /\ NoKey \notin TCPKeys \cup UDPKeys
    /\ TCPTimeout \in Nat /\ UDPTimeout \in Nat
    /\ ClearRatio \in Nat \ {0} /\ MinClear \in Nat \ {0}
    /\ MaxConns \in Nat /\ DisableClear \in BOOLEAN
    /\ MaxTime \in Nat

ASSUME HandlerParams == Nobody \notin Stoppers \cup {Runner}

VARIABLES
    part,                                                   \* the one that moves
    li, mp, exp, used, holder, cleaned, now, tick, pc,      \* of K
    sweepNow, proto, quota, victim, stopped, stopper, crashed,
    notified, sigCh, chClosed, quit, quits, closeMu, place, \* of H
    args, configFile, cfg, progress                         \* of C

hVars == <<notified, sigCh, chClosed, quit, quits, closeMu, place>>
kVars == <<li, mp, exp, used, holder, cleaned, now, tick, pc,
           sweepNow, proto, quota, victim, stopped, stopper, crashed>>
cVars == <<args, configFile, cfg, progress>>

K == INSTANCE CleanupManager

H == INSTANCE SignalHandler WITH at <- place

C == INSTANCE Startup WITH flags <- args, file <- configFile, pc <- progress

ASSUME SettingsLegal == \A s \in FlagSettings \cup FileSettings : C!LegalSetting(s)

\* The files and command lines differ only where the configuration moves.
LifecycleInit ==
    /\ part \in {"loop", "cleaner", "handler", "startup"}
    /\ Init /\ K!Init /\ H!Init
    /\ IF part = "startup" THEN C!Init
       ELSE args = <<>> /\ configFile = <<>> /\ cfg = <<>> /\ progress = "flags"

LifecycleNext ==
    /\ UNCHANGED part
    /\ \/ part = "loop" /\ Next /\ UNCHANGED <<kVars, hVars, cVars>>
       \/ part = "cleaner" /\ K!Next /\ UNCHANGED <<vars, hVars, cVars>>
       \/ part = "handler" /\ H!Next /\ UNCHANGED <<vars, kVars, cVars>>
       \/ part = "startup" /\ C!Next /\ UNCHANGED <<vars, kVars, hVars>>

\* LoopLifecycle and CleanupManager: their Fairness.  SignalHandler: goroutines
\* run, and select does not pass over a closed quit for ever.
LifecycleFairness ==
    /\ WF_vars(part = "loop" /\ Run)
    /\ WF_vars(part = "loop" /\ CleanerExits)
    /\ WF_vars(part = "loop" /\ AcceptTCP)
    /\ WF_vars(part = "loop" /\ HandleUDP)
    /\ \A i \in Users : WF_vars(part = "loop" /\ StopAndWait(i))
    /\ \A p \in K!Proto : WF_kVars(part = "cleaner" /\ (K!Put(p) \/ K!Touch(p) \/ K!RemoveKey(p)))
    /\ WF_kVars(part = "cleaner" /\ K!TickerFires)
    /\ WF_kVars(part = "cleaner" /\ K!CleanupLoop)
    /\ SF_kVars(part = "cleaner" /\ K!LoopTicks)
    /\ SF_kVars(part = "cleaner" /\ K!LoopQuits)
    /\ WF_kVars(part = "cleaner" /\ K!StopReturns)
    /\ \A g \in Stoppers \cup {Runner} : WF_hVars(part = "handler" /\ H!SafeCloseQuit(g))
    /\ WF_hVars(part = "handler" /\ H!Run)
    /\ SF_hVars(part = "handler" /\ H!RunQuits)

LifecycleSpec ==
    LifecycleInit /\ [][LifecycleNext]_<<part, vars, kVars, hVars, cVars>> /\ LifecycleFairness

\* Every variable of the four modules keeps its type.
LifecycleTypeOK == TypeOK /\ K!TypeOK /\ H!TypeOK /\ (part = "startup" => C!TypeOK)

\* CleanupManager: an expired connection is cleaned (lru/cache.go:170-198).
ExpiredEventuallyCleaned == K!ExpiredEventuallyCleaned

\* CleanupManager: Stop returns (cleanup/manager.go:63-89).
StopEventuallyReturns == K!StopEventuallyReturns

\* SignalHandler: quit is closed once, and sigCh not while signals come
\* (signal/handler.go:43-44, 79-88).
ClosedSafely == H!ClosedSafely

\* SignalHandler: a TERM or a Stop ends the handler (signal/handler.go:40-49).
HandlerExits == H!HandlerExits

\* Startup: no panic but NewTicker's and NewUDPManager's, for the two values that
\* Validate lets through (config/config.go:85-113, cleanup/manager.go:78,
\* conn/udp.go:99).
PanicsOnlyUnchecked == part = "startup" => C!PanicsOnlyUnchecked

\* Startup: a flag is lost only to a viper default (config/config.go:217-226).
LostOnlyToDefaults == part = "startup" => C!LostOnlyToDefaults

=============================================================================
