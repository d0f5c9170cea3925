---------------------------- MODULE LifecycleProofs ----------------------------
(***************************************************************************)
(* Theorems about Lifecycle, for any goroutines that stop the handler, any *)
(* command lines and files, any connections, timeouts and ratio: about the *)
(* handler (H), the configuration (C), the cleaner (K) and their           *)
(* composition with the loop.                                              *)
(***************************************************************************)
EXTENDS Lifecycle, LoopLifecycleProofs, Sequences

\* The proofs about the cleaner, for the instance K of Lifecycle.
KP == INSTANCE CleanupManagerProofs

-----------------------------------------------------------------------------
\* The cleaner.

\* K and KP are the same manager.
LEMMA SameCleaner == K!Spec <=> KP!Spec
<1>1. K!Init <=> KP!Init
  BY DEF K!Init, K!Proto, K!Keys, K!Free, K!NoTick,
         KP!Init, KP!Proto, KP!Keys, KP!Free, KP!NoTick
<1>2. \A s, k : K!Without(s, k) = KP!Without(s, k)
  BY DEF K!Without, K!ToSet, K!RemoveAt, KP!Without, KP!ToSet, KP!RemoveAt
<1>3. \A s, k : K!MoveToFront(s, k) = KP!MoveToFront(s, k)
  BY <1>2 DEF K!MoveToFront, K!PushFront, K!ToSet, KP!MoveToFront, KP!PushFront, KP!ToSet
<1>4. K!Sweep <=> KP!Sweep
  BY <1>2 DEF K!Sweep, K!SweepQuota, K!SweepReturns, K!SweepBack, K!SweepCheck,
         K!SweepUnmap, K!SweepUnlink, K!SweepCallback, K!RunCallbacks, K!Races,
         K!Free, K!CleanQuota, K!Last, K!Keys, K!cacheVars, K!stopVars,
         KP!Sweep, KP!SweepQuota, KP!SweepReturns, KP!SweepBack, KP!SweepCheck,
         KP!SweepUnmap, KP!SweepUnlink, KP!SweepCallback, KP!RunCallbacks, KP!Races,
         KP!Free, KP!CleanQuota, KP!Last, KP!Keys, KP!cacheVars, KP!stopVars
<1>5. ASSUME NEW p PROVE K!Caller(p) <=> KP!Caller(p)
  BY <1>2, <1>3
     DEF K!Caller, K!Lock, K!Put, K!Touch, K!RemoveKey, K!Unlock, K!RunCallbacks,
         K!PushFront, K!Trimmed, K!Evicted, K!ToSet, K!KeysOf, K!TimeoutOf, K!Keys,
         K!Free, K!Ops, K!sweepVars, K!stopVars,
         KP!Caller, KP!Lock, KP!Put, KP!Touch, KP!RemoveKey, KP!Unlock, KP!RunCallbacks,
         KP!PushFront, KP!Trimmed, KP!Evicted, KP!ToSet, KP!KeysOf, KP!TimeoutOf, KP!Keys,
         KP!Free, KP!Ops, KP!sweepVars, KP!stopVars
<1>6. K!Next <=> KP!Next
  BY <1>4, <1>5
     DEF K!Next, K!CleanupLoop, K!LoopQuits, K!LoopTicks, K!ClockTick, K!TickerFires,
         K!Start, K!StopCalled, K!StopReturns, K!Crashed, K!Proto, K!NoTick,
         K!cacheVars, K!sweepVars, K!stopVars, K!vars,
         KP!Next, KP!CleanupLoop, KP!LoopQuits, KP!LoopTicks, KP!ClockTick, KP!TickerFires,
         KP!Start, KP!StopCalled, KP!StopReturns, KP!Crashed, KP!Proto, KP!NoTick,
         KP!cacheVars, KP!sweepVars, KP!stopVars, KP!vars
<1>7. K!vars = KP!vars /\ K!vars' = KP!vars'
  BY DEF K!cacheVars, K!sweepVars, K!stopVars, K!vars,
         KP!cacheVars, KP!sweepVars, KP!stopVars, KP!vars
<1>8. [K!Next]_(K!vars) <=> [KP!Next]_(KP!vars)
  BY <1>6, <1>7
<1> QED BY <1>1, <1>8, PTL DEF K!Spec, KP!Spec

\* Its invariant, proved in CleanupManagerProofs.
LEMMA CleanerInvariant == K!Spec => []KP!Inv
<1>1. KP!Spec => []KP!Inv
  BY CleanerParams, KP!Invariance
<1> QED BY <1>1, SameCleaner, PTL

-----------------------------------------------------------------------------
\* The signal handler.

\* closeMu: who is between the lock and the unlock of safeCloseQuit holds it,
\* so that what it has seen of quit stays true.
HExcluded ==
    /\ \A g \in H!Goroutines : place[g] \in {"check", "close"} <=> closeMu = g
    /\ \A g \in H!Goroutines : place[g] = "close" => ~quit
    /\ quits = IF quit THEN 1 ELSE 0

\* Run gives sigCh up before it closes it, and never takes it again.
HGivenUp ==
    /\ place[Runner] \in {"closing", "exited"} => ~notified
    /\ chClosed => place[Runner] = "exited"

HInv == H!TypeOK /\ HExcluded /\ HGivenUp

-----------------------------------------------------------------------------
\* The initial state has the invariant.
LEMMA HInitInv == H!Init => HInv
<1> SUFFICES ASSUME H!Init PROVE HInv
  OBVIOUS
<1>1. sigCh \in Seq({"TERM", "PIPE"}) /\ quits \in Nat /\ closeMu = Nobody
  BY DEF H!Init
<1>2. {notified, chClosed, quit} \subseteq BOOLEAN
  BY DEF H!Init
<1>3. place \in [H!Goroutines -> {"idle"}]
  BY DEF H!Init
<1>4. H!TypeOK
  BY <1>1, <1>2, <1>3 DEF H!TypeOK
<1>5. HExcluded /\ HGivenUp
  BY HandlerParams DEF H!Init, HExcluded, HGivenUp, H!Goroutines
<1> QED
  BY <1>4, <1>5 DEF HInv

\* safeCloseQuit, in Run or in Stop.
LEMMA SafeCloseQuitInv ==
    ASSUME HInv, NEW g \in H!Goroutines, H!SafeCloseQuit(g)
    PROVE  HInv'
<1> USE HandlerParams DEF HInv, H!Goes, H!After, H!Goroutines
<1>1. CASE H!LockClose(g)
  BY <1>1 DEF H!LockClose, H!TypeOK, HExcluded, HGivenUp
<1>2. CASE H!AlreadyClosed(g)
  BY <1>2 DEF H!AlreadyClosed, H!TypeOK, HExcluded, HGivenUp
<1>3. CASE H!NotYetClosed(g)
  BY <1>3 DEF H!NotYetClosed, H!TypeOK, HExcluded, HGivenUp
<1>4. CASE H!CloseQuit(g)
  BY <1>4 DEF H!CloseQuit, H!TypeOK, HExcluded, HGivenUp
<1> QED
  BY <1>1, <1>2, <1>3, <1>4 DEF H!SafeCloseQuit

\* Run's own steps.
LEMMA HRunInv ==
    ASSUME HInv, H!RunNotifies \/ H!Run
    PROVE  HInv'
<1> USE HandlerParams DEF HInv, H!Goes, H!Goroutines
<1>1. CASE H!RunNotifies
  BY <1>1 DEF H!RunNotifies, H!TypeOK, HExcluded, HGivenUp
<1>2. CASE H!RunHandles
  <2>1. sigCh' \in Seq({"TERM", "PIPE"})
    BY <1>2 DEF H!RunHandles, H!TypeOK
  <2> QED
    BY <1>2, <2>1 DEF H!RunHandles, H!TypeOK, HExcluded, HGivenUp
<1>3. CASE H!RunQuits
  BY <1>3 DEF H!RunQuits, H!TypeOK, HExcluded, HGivenUp
<1>4. CASE H!RunExits
  BY <1>4 DEF H!RunExits, H!TypeOK, HExcluded, HGivenUp
<1> QED
  BY <1>1, <1>2, <1>3, <1>4 DEF H!Run

\* The signals, and the calls of Stop.
LEMMA HEnvironmentInv ==
    ASSUME HInv,
           \/ \E sig \in {"TERM", "PIPE"} : H!Deliver(sig)
           \/ \E g \in H!Goroutines : H!Stop(g)
    PROVE  HInv'
<1> USE HandlerParams DEF HInv, H!Goes, H!Goroutines
<1>1. ASSUME NEW sig \in {"TERM", "PIPE"}, H!Deliver(sig) PROVE HInv'
  <2>1. sigCh' \in Seq({"TERM", "PIPE"})
    BY <1>1 DEF H!Deliver, H!TypeOK
  <2> QED
    BY <1>1, <2>1 DEF H!Deliver, H!TypeOK, HExcluded, HGivenUp
<1>2. ASSUME NEW g \in H!Goroutines, H!Stop(g) PROVE HInv'
  BY <1>2 DEF H!Stop, H!TypeOK, HExcluded, HGivenUp
<1> QED
  BY <1>1, <1>2

\* Every step keeps the invariant.
LEMMA HStepInv == HInv /\ [H!Next]_(H!vars) => HInv'
<1> SUFFICES ASSUME HInv, [H!Next]_(H!vars) PROVE HInv'
  OBVIOUS
<1>1. CASE UNCHANGED H!vars
  BY <1>1 DEF HInv, H!TypeOK, HExcluded, HGivenUp, H!vars
<1>2. CASE H!Next
  BY <1>2, SafeCloseQuitInv, HRunInv, HEnvironmentInv DEF H!Next
<1> QED
  BY <1>1, <1>2

\* The inductive invariant of the handler.
THEOREM HInvariance == H!Spec => []HInv
BY HInitInv, HStepInv, PTL DEF H!Spec

-----------------------------------------------------------------------------
\* The configuration.

\* What the user wrote is legal, and a value is bad only where it can be.
Written ==
    /\ C!LegalSetting(args)
    /\ configFile = C!NoFile \/ C!LegalSetting(configFile)

\* Only a max-connections is huge, and no switch is bad.
InRange(v, o) == (v = "bad" => o \in C!CanBeBad) /\ (v = "huge" => o \in C!CanBeHuge)

Loaded ==
    /\ C!TypeOK
    /\ \A o \in C!Options : InRange(cfg[o], o)

\* How far the value that Load has for o is what was asked for.
AskedOrLost(o) ==
    \/ cfg[o] = C!Asked(o)
    \/ /\ configFile # C!NoFile /\ o \notin DOMAIN configFile /\ o \in C!ViperDefaults
       /\ cfg[o] = "default"

\* What each stage of the start has made of the settings, and looked at.
Staged ==
    /\ progress = "flags" => cfg = C!Default
    /\ progress = "file" => cfg = C!Overlay(args, C!Default)
    /\ progress \in {"validate", "newLoop", "run", "running", "panic"} =>
        \A o \in C!Options : AskedOrLost(o)
    /\ progress \in {"newLoop", "run", "running", "panic"} => C!Valid
    /\ progress \in {"run", "running", "panic"} => \A o \in C!Addresses : cfg[o] # "bad"
    /\ progress = "panic" => cfg["clear-interval"] = "bad" \/ cfg["max-connections"] = "huge"
    /\ progress \in {"run", "running"} => cfg["max-connections"] \notin {"bad", "huge"}
    /\ progress = "running" => cfg["clear-interval"] # "bad"

StartInv == Written /\ Loaded /\ Staged

\* What an overlay is made of.
LEMMA OverlayProperties ==
    ASSUME NEW s, NEW c, C!LegalSetting(s), c \in [C!Options -> C!Values],
           \A o \in C!Options : InRange(c[o], o)
    PROVE  /\ C!Overlay(s, c) \in [C!Options -> C!Values]
           /\ \A o \in C!Options : C!Overlay(s, c)[o] = IF o \in DOMAIN s THEN s[o] ELSE c[o]
           /\ \A o \in C!Options : InRange(C!Overlay(s, c)[o], o)
<1>1. DOMAIN s \cup DOMAIN c = C!Options
  BY DEF C!LegalSetting
<1>2. C!Overlay(s, c) = [o \in C!Options |-> IF o \in DOMAIN s THEN s[o] ELSE c[o]]
  BY <1>1 DEF C!Overlay
<1>3. \A o \in DOMAIN s : s[o] \in C!Values /\ InRange(s[o], o)
  BY DEF C!LegalSetting, InRange
<1> QED BY <1>2, <1>3

\* The initial state has the invariant, whatever is set.
LEMMA StartInit == C!Init => StartInv
<1> SUFFICES ASSUME C!Init PROVE StartInv
  OBVIOUS
<1>1. Written
  BY SettingsLegal DEF C!Init, Written
<1>2. Loaded /\ Staged
  BY DEF C!Init, Loaded, Staged, C!TypeOK, C!Default, C!Values, InRange
<1> QED BY <1>1, <1>2 DEF StartInv

\* Load: the flags, then the file.
LEMMA LoadInv ==
    ASSUME StartInv, C!LoadFlags \/ C!LoadFile
    PROVE  StartInv'
<1>1. CASE C!LoadFlags
  <2>1. /\ C!Default \in [C!Options -> C!Values]
        /\ \A o \in C!Options : InRange(C!Default[o], o)
    BY DEF C!Default, C!Values, InRange
  <2>2. /\ progress' = "file" /\ cfg' = C!Overlay(args, C!Default)
        /\ UNCHANGED <<args, configFile>>
    BY <1>1 DEF C!LoadFlags
  <2>3. Loaded'
    BY <2>1, <2>2, OverlayProperties DEF StartInv, Written, Loaded, C!TypeOK
  <2> QED BY <2>2, <2>3 DEF StartInv, Written, Staged
<1>2. CASE C!LoadFile
  <2> DEFINE base == [o \in C!Options |-> IF o \in C!ViperDefaults THEN "default" ELSE cfg[o]]
  <2>1. /\ progress = "file" /\ progress' = "validate" /\ UNCHANGED <<args, configFile>>
        /\ cfg' = IF configFile = C!NoFile THEN cfg ELSE C!Overlay(configFile, base)
    BY <1>2 DEF C!LoadFile
  <2>2. \A o \in C!Options : cfg[o] = IF o \in DOMAIN args THEN args[o] ELSE "default"
    <3>1. /\ C!Default \in [C!Options -> C!Values]
          /\ \A o \in C!Options : C!Default[o] = "default"
      BY DEF C!Default, C!Values
    <3>2. cfg = C!Overlay(args, C!Default) /\ C!LegalSetting(args)
      BY <2>1 DEF StartInv, Written, Staged
    <3>3. \A o \in C!Options : InRange(C!Default[o], o)
      BY <3>1 DEF InRange
    <3> QED BY <3>1, <3>2, <3>3, OverlayProperties
  <2>3. /\ base \in [C!Options -> C!Values]
        /\ \A o \in C!Options : InRange(base[o], o)
        /\ \A o \in C!Options : base[o] = IF o \in C!ViperDefaults THEN "default" ELSE cfg[o]
    BY DEF StartInv, Loaded, C!TypeOK, C!Values, InRange
  <2> HIDE DEF base
  <2>4. CASE configFile = C!NoFile
    <3>1. \A o \in C!Options : AskedOrLost(o)'
      BY <2>1, <2>2, <2>4 DEF AskedOrLost, C!Asked
    <3> QED BY <2>1, <2>4, <3>1 DEF StartInv, Written, Loaded, Staged, C!TypeOK
  <2>5. CASE configFile # C!NoFile
    <3>1. C!LegalSetting(configFile)
      BY <2>5 DEF StartInv, Written
    <3>2. /\ cfg' \in [C!Options -> C!Values]
          /\ \A o \in C!Options :
                cfg'[o] = IF o \in DOMAIN configFile THEN configFile[o] ELSE base[o]
          /\ \A o \in C!Options : InRange(cfg'[o], o)
      BY <2>1, <2>3, <2>5, <3>1, OverlayProperties
    <3>3. \A o \in C!Options : AskedOrLost(o)'
      BY <2>1, <2>2, <2>3, <2>5, <3>2 DEF AskedOrLost, C!Asked
    <3> QED BY <2>1, <3>2, <3>3 DEF StartInv, Written, Loaded, Staged, C!TypeOK
  <2> QED BY <2>4, <2>5
<1> QED BY <1>1, <1>2

\* Validate, NewLoop and the cleanup goroutine change no value.
LEMMA CheckInv ==
    ASSUME StartInv, C!FileUnreadable \/ C!Validate \/ C!NewLoop \/ C!CleanupLoop
    PROVE  StartInv'
<1>1. UNCHANGED <<args, configFile, cfg>>
  BY DEF C!FileUnreadable, C!Validate, C!NewLoop, C!CleanupLoop
<1>2. Written' /\ UNCHANGED C!Valid /\ \A o \in C!Options : AskedOrLost(o)' = AskedOrLost(o)
  BY <1>1 DEF StartInv, Written, C!Valid, AskedOrLost, C!Asked
<1>3. CASE C!FileUnreadable
  BY <1>1, <1>2, <1>3 DEF C!FileUnreadable, StartInv, Loaded, Staged, C!TypeOK
<1>4. CASE C!Validate
  BY <1>1, <1>2, <1>4 DEF C!Validate, StartInv, Loaded, Staged, C!TypeOK
<1>5. CASE C!NewLoop
  <2>1. cfg["max-connections"] # "bad"
    BY <1>5 DEF C!NewLoop, StartInv, Staged, C!Valid, C!Numbers
  <2> QED BY <1>1, <1>2, <1>5, <2>1 DEF C!NewLoop, StartInv, Loaded, Staged, C!TypeOK
<1>6. CASE C!CleanupLoop
  BY <1>1, <1>2, <1>6 DEF C!CleanupLoop, StartInv, Loaded, Staged, C!TypeOK
<1> QED BY <1>3, <1>4, <1>5, <1>6

\* Every step keeps the invariant.
LEMMA StartStep == StartInv /\ [C!Next]_(C!vars) => StartInv'
<1> SUFFICES ASSUME StartInv, [C!Next]_(C!vars) PROVE StartInv'
  OBVIOUS
<1>1. CASE UNCHANGED C!vars
  BY <1>1 DEF C!vars, StartInv, Written, Loaded, Staged, AskedOrLost, C!Asked, C!TypeOK, C!Valid
<1> QED BY <1>1, LoadInv, CheckInv DEF C!Next

-----------------------------------------------------------------------------
\* The composition.

\* Each part behaves as it does on its own, the configuration where it is the
\* one that moves: a step of the composition is a step of one of the four, or
\* invisible to it.
LEMMA LifecycleStep ==
    [LifecycleNext]_<<part, vars, kVars, hVars, cVars>>
        => /\ UNCHANGED part
           /\ [Next]_vars /\ [K!Next]_(K!vars) /\ [H!Next]_(H!vars) /\ [C!Next]_(C!vars)
<1> SUFFICES ASSUME [LifecycleNext]_<<part, vars, kVars, hVars, cVars>>
             PROVE  /\ UNCHANGED part
                    /\ [Next]_vars /\ [K!Next]_(K!vars) /\ [H!Next]_(H!vars) /\ [C!Next]_(C!vars)
  OBVIOUS
<1>1. /\ UNCHANGED kVars => UNCHANGED K!vars
      /\ UNCHANGED hVars => UNCHANGED H!vars
      /\ UNCHANGED cVars => UNCHANGED C!vars
  BY DEF kVars, K!vars, K!cacheVars, K!sweepVars, K!stopVars, hVars, H!vars, cVars, C!vars
<1> QED BY <1>1 DEF LifecycleNext

THEOREM LifecycleCompose == LifecycleSpec => Spec /\ K!Spec /\ H!Spec
<1>1. LifecycleInit => Init /\ K!Init /\ H!Init
  BY DEF LifecycleInit
<1> QED BY <1>1, LifecycleStep, PTL DEF LifecycleSpec, Spec, K!Spec, H!Spec

\* The invariant of the configuration, whatever is set on the command line and
\* in the file.
THEOREM StartInvariance == LifecycleSpec => [](part = "startup" => StartInv)
<1>1. LifecycleInit => (part = "startup" => StartInv)
  BY StartInit DEF LifecycleInit
<1>2. (part = "startup" => StartInv) /\ [LifecycleNext]_<<part, vars, kVars, hVars, cVars>>
        => (part = "startup" => StartInv)'
  BY LifecycleStep, StartStep
<1> QED BY <1>1, <1>2, PTL DEF LifecycleSpec

\* SignalHandler: quit is closed once, and sigCh only when no signal is sent to
\* it any more (signal/handler.go:43-44, 78-89), however many goroutines call Stop.
THEOREM NeverPanics == LifecycleSpec => []ClosedSafely
<1>1. HInv => ClosedSafely
  BY DEF HInv, HExcluded, HGivenUp, ClosedSafely, H!ClosedSafely
<1> QED BY <1>1, LifecycleCompose, HInvariance, PTL

\* Startup: whatever is set where, the only values out of range that end in a
\* panic are the interval's, which nobody checks, and a max-connections too large
\* for a slice, for which Validate has no bound; any other ends in an error or, a
\* timeout, runs (config/config.go:85-113, cleanup/manager.go:78, conn/udp.go:99).
THEOREM OnlyUncheckedPanics == LifecycleSpec => []PanicsOnlyUnchecked
<1>1. StartInv => C!PanicsOnlyUnchecked
  <2> SUFFICES ASSUME StartInv, progress = "running", NEW o \in C!Options \ C!Timeouts
               PROVE  cfg[o] \in {"default", "given"}
    BY DEF StartInv, Staged, C!PanicsOnlyUnchecked
  <2>1. InRange(cfg[o], o) /\ cfg[o] \in C!Values
    BY DEF StartInv, Loaded, C!TypeOK
  <2>2. cfg[o] # "bad"
    <3>1. o \in C!Addresses \cup C!Switches \cup C!Numbers \cup {"clear-interval"}
      BY DEF C!Options
    <3>2. o \in C!Switches => o \notin C!CanBeBad
      BY DEF C!CanBeBad
    <3> QED BY <2>1, <3>1, <3>2 DEF StartInv, Staged, C!Valid, InRange
  <2>3. cfg[o] # "huge"
    BY <2>1 DEF StartInv, Staged, InRange, C!CanBeHuge
  <2> QED BY <2>1, <2>2, <2>3 DEF C!Values
<1> QED BY <1>1, StartInvariance, PTL DEF PanicsOnlyUnchecked

\* Startup: a program that runs has every value it was asked for, but for flags
\* that a file's load sets back to their viper default
\* (config/config.go:217-226).
THEOREM LostToDefaultsOnly == LifecycleSpec => []LostOnlyToDefaults
<1>1. StartInv => C!LostOnlyToDefaults
  BY DEF StartInv, Staged, AskedOrLost, C!LostOnlyToDefaults
<1> QED BY <1>1, StartInvariance, PTL DEF LostOnlyToDefaults

\* The variables of the four modules keep their types.
THEOREM LifecycleTypeCorrect == LifecycleSpec => []LifecycleTypeOK
<1>1. KP!Inv => K!TypeOK
  BY DEF KP!Inv, K!TypeOK, K!Keys, K!KeysOf, K!Proto, K!Calls, K!Ops, K!NoTick, K!PC,
         K!SweepSteps, K!VictimSteps, K!HasVictim, K!ToSet,
         KP!TypeOK, KP!Keys, KP!KeysOf, KP!Proto, KP!Calls, KP!Ops, KP!NoTick, KP!PC,
         KP!SweepSteps, KP!VictimSteps, KP!HasVictim, KP!ToSet
<1>2. Inv /\ KP!Inv /\ HInv /\ (part = "startup" => StartInv) => LifecycleTypeOK
  BY <1>1 DEF Inv, HInv, StartInv, Loaded, LifecycleTypeOK
<1> QED
  BY <1>2, LifecycleCompose, Invariance, CleanerInvariant, HInvariance, StartInvariance, PTL

=============================================================================
