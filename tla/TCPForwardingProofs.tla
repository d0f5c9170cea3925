-------------------------- MODULE TCPForwardingProofs --------------------------
(***************************************************************************)
(* Theorems about TCPForwarding, for any forwarders, goroutines, buffers   *)
(* and faults: about the manager (M), the bytes (B) and their composition  *)
(* with the relay.                                                         *)
(***************************************************************************)
EXTENDS TCPForwarding, TCPRelayProofs, FiniteSetTheorems, TLAPS

\* The manager.

MAt == {"idle", "add", "spawn", "wait", "close", "remove", "callback", "sweep", "waitAll",
        "woken"}

\* What the proofs need of the types.
MTyped ==
    /\ table \subseteq Fwds /\ todo \subseteq Fwds /\ removed \subseteq Fwds
    /\ closed \in [Fwds -> BOOLEAN]
    /\ called \in [Fwds -> Nat]
    /\ via \in [Fwds -> {"none", "Add", "Start"}]
    /\ call \in [Callers -> [f : Fwds \cup {NoKey}, at : MAt]]
    /\ \A c \in Callers :
        call[c].at \in {"add", "spawn", "wait", "close", "remove", "callback"}
            => call[c].f \in Fwds

\* The compare-and-swap lets one goroutine past: nobody else is between it and
\* the onClose of the same forwarder.
OneCloser ==
    /\ \A c \in Callers : call[c].at \in {"remove", "callback"} => closed[call[c].f]
    /\ \A c, d \in Callers :
        /\ call[c].at \in {"remove", "callback"} /\ call[d].at \in {"remove", "callback"}
        /\ call[c].f = call[d].f
        => c = d

\* A forwarder that its Start has not put into the table yet is nobody's yet:
\* not swept, not waited for, not closed.
Untouched(f) ==
    /\ f \notin table /\ f \notin todo /\ ~closed[f]
    /\ \A c \in Callers : call[c].f = f => call[c].at \notin {"wait", "close", "remove", "callback"}

Unadded ==
    /\ \A f \in Fwds : via[f] = "none" =>
        /\ Untouched(f)
        /\ \A c \in Callers : call[c].f = f => call[c].at \notin {"add", "spawn"}
    /\ \A c \in Callers : call[c].at = "add" => Untouched(call[c].f)
    /\ \A c, d \in Callers :
        /\ call[c].at \in {"add", "spawn"} /\ call[d].at \in {"add", "spawn"}
        /\ call[c].f = call[d].f
        => c = d

\* onClose has removed the forwarder by the time it calls the owner's.
Dropped ==
    \A c \in Callers :
        call[c].at = "callback" /\ via[call[c].f] = "Start" => call[c].f \notin table

\* A closed forwarder of Start's that is in the table is being closed.
HasLeft == \A f \in table : via[f] = "Start" => ~closed[f] \/ M!Closing(f)

\* While CloseAll has the mutex it is at its sweep or in a Close, and of the
\* table it has closed what it has visited.
Swept ==
    /\ \A c \in Callers : call[c].at = "sweep" => mu = c
    /\ \A c \in Callers : mu = c =>
        /\ call[c].at \in {"sweep", "close", "remove", "callback"}
        /\ \A f \in table \ todo : closed[f] \/ (call[c].at = "close" /\ call[c].f = f)

\* An open forwarder is in the table once it has been added.
Kept ==
    \A f \in Fwds :
        /\ via[f] # "none" /\ ~closed[f] /\ f \notin removed
        /\ \A c \in Callers : call[c].f = f => call[c].at # "add"
        => f \in table

MInv ==
    /\ MTyped /\ OneCloser /\ Unadded /\ Dropped
    /\ M!OnCloseOnce /\ HasLeft /\ Swept /\ Kept

-----------------------------------------------------------------------------
\* The initial state has the invariant.
LEMMA MInitInv == M!Init => MInv
BY ForwarderParams DEF M!Init, MInv, MTyped, OneCloser, Unadded, Untouched, Dropped, M!OnCloseOnce, M!Closing,
       HasLeft, Swept, Kept, M!Idle, MAt

\* The calls with a forwarder.
LEMMA GivenCallInv ==
    ASSUME MInv, NEW c \in Callers, NEW f \in Fwds,
           \/ M!CallStart(c, f)
           \/ M!Add(c, f)
           \/ M!Remove(c, f)
           \/ M!CallClose(c, f)
           \/ M!CallWait(c, f)
    PROVE  MInv'
<1> USE ForwarderParams DEF MInv, M!Goes, M!Idle, MAt, M!held, M!group
<1>1. CASE M!CallStart(c, f)
  <2>1. MTyped' /\ OneCloser'
    BY <1>1 DEF M!CallStart, MTyped, OneCloser
  <2>2. Unadded' /\ Dropped'
    BY <1>1 DEF M!CallStart, MTyped, OneCloser, Unadded, Untouched, Dropped
  <2>3. M!OnCloseOnce'
    BY <1>1 DEF M!CallStart, MTyped, OneCloser, M!OnCloseOnce, M!Closing
  <2>4. HasLeft'
    BY <1>1 DEF M!CallStart, MTyped, OneCloser, Unadded, Untouched, Dropped,
               HasLeft, M!Closing
  <2>5. Swept'
    BY <1>1 DEF M!CallStart, MTyped, OneCloser, Unadded, Untouched, Swept
  <2>6. Kept'
    BY <1>1 DEF M!CallStart, MTyped, OneCloser, Unadded, Untouched, Swept, Kept
  <2> QED
    BY <2>1, <2>2, <2>3, <2>4, <2>5, <2>6
<1>2. CASE M!Add(c, f)
  <2>1. MTyped' /\ OneCloser'
    BY <1>2 DEF M!Add, MTyped, OneCloser
  <2>2. Unadded' /\ Dropped'
    BY <1>2 DEF M!Add, MTyped, OneCloser, Unadded, Untouched, Dropped
  <2>3. M!OnCloseOnce'
    BY <1>2 DEF M!Add, MTyped, OneCloser, M!OnCloseOnce, M!Closing
  <2>4. HasLeft'
    BY <1>2 DEF M!Add, MTyped, OneCloser, Unadded, Untouched, Dropped,
               HasLeft, M!Closing
  <2>5. Swept'
    BY <1>2 DEF M!Add, MTyped, OneCloser, Unadded, Untouched, Swept
  <2>6. Kept'
    BY <1>2 DEF M!Add, MTyped, OneCloser, Unadded, Untouched, Swept, Kept
  <2> QED
    BY <2>1, <2>2, <2>3, <2>4, <2>5, <2>6
<1>3. CASE M!Remove(c, f)
  <2>1. MTyped' /\ OneCloser'
    BY <1>3 DEF M!Remove, MTyped, OneCloser
  <2>2. Unadded' /\ Dropped'
    BY <1>3 DEF M!Remove, MTyped, OneCloser, Unadded, Untouched, Dropped
  <2>3. M!OnCloseOnce'
    BY <1>3 DEF M!Remove, MTyped, OneCloser, M!OnCloseOnce, M!Closing
  <2>4. HasLeft'
    BY <1>3 DEF M!Remove, MTyped, OneCloser, Unadded, Untouched, Dropped,
               HasLeft, M!Closing
  <2>5. Swept'
    BY <1>3 DEF M!Remove, MTyped, OneCloser, Unadded, Untouched, Swept
  <2>6. Kept'
    BY <1>3 DEF M!Remove, MTyped, OneCloser, Unadded, Untouched, Swept, Kept
  <2> QED
    BY <2>1, <2>2, <2>3, <2>4, <2>5, <2>6
<1>4. CASE M!CallClose(c, f)
  <2>1. MTyped' /\ OneCloser'
    BY <1>4 DEF M!CallClose, MTyped, OneCloser, M!Given
  <2>2. Unadded' /\ Dropped'
    BY <1>4 DEF M!CallClose, MTyped, OneCloser, Unadded, Untouched, Dropped, M!Given
  <2>3. M!OnCloseOnce'
    BY <1>4 DEF M!CallClose, MTyped, OneCloser, M!OnCloseOnce, M!Closing, M!Given
  <2>4. HasLeft'
    BY <1>4 DEF M!CallClose, MTyped, OneCloser, Unadded, Untouched, Dropped,
               HasLeft, M!Closing, M!Given
  <2>5. Swept'
    BY <1>4 DEF M!CallClose, MTyped, OneCloser, Unadded, Untouched, Swept, M!Given
  <2>6. Kept'
    BY <1>4 DEF M!CallClose, MTyped, OneCloser, Unadded, Untouched, Swept, Kept, M!Given
  <2> QED
    BY <2>1, <2>2, <2>3, <2>4, <2>5, <2>6
<1>5. CASE M!CallWait(c, f)
  <2>1. MTyped' /\ OneCloser'
    BY <1>5 DEF M!CallWait, MTyped, OneCloser, M!Given
  <2>2. Unadded' /\ Dropped'
    BY <1>5 DEF M!CallWait, MTyped, OneCloser, Unadded, Untouched, Dropped, M!Given
  <2>3. M!OnCloseOnce'
    BY <1>5 DEF M!CallWait, MTyped, OneCloser, M!OnCloseOnce, M!Closing, M!Given
  <2>4. HasLeft'
    BY <1>5 DEF M!CallWait, MTyped, OneCloser, Unadded, Untouched, Dropped,
               HasLeft, M!Closing, M!Given
  <2>5. Swept'
    BY <1>5 DEF M!CallWait, MTyped, OneCloser, Unadded, Untouched, Swept, M!Given
  <2>6. Kept'
    BY <1>5 DEF M!CallWait, MTyped, OneCloser, Unadded, Untouched, Swept, Kept, M!Given
  <2> QED
    BY <2>1, <2>2, <2>3, <2>4, <2>5, <2>6
<1> QED
  BY <1>1, <1>2, <1>3, <1>4, <1>5

\* Inside Start.
LEMMA StartInv ==
    ASSUME MInv, NEW c \in Callers,
           \/ M!StartAdds(c)
           \/ M!StartSpawns(c)
    PROVE  MInv'
<1> USE ForwarderParams DEF MInv, M!Goes, M!Idle, MAt, M!held, M!group
<1>1. CASE M!StartAdds(c)
  <2>1. MTyped' /\ OneCloser'
    BY <1>1 DEF M!StartAdds, MTyped, OneCloser
  <2>2. Unadded' /\ Dropped'
    BY <1>1 DEF M!StartAdds, MTyped, OneCloser, Unadded, Untouched, Dropped
  <2>3. M!OnCloseOnce'
    BY <1>1 DEF M!StartAdds, MTyped, OneCloser, M!OnCloseOnce, M!Closing
  <2>4. HasLeft'
    BY <1>1 DEF M!StartAdds, MTyped, OneCloser, Unadded, Untouched, Dropped,
               HasLeft, M!Closing
  <2>5. Swept'
    BY <1>1 DEF M!StartAdds, MTyped, OneCloser, Unadded, Untouched, Swept
  <2>6. Kept'
    BY <1>1 DEF M!StartAdds, MTyped, OneCloser, Unadded, Untouched, Swept, Kept
  <2> QED
    BY <2>1, <2>2, <2>3, <2>4, <2>5, <2>6
<1>2. CASE M!StartSpawns(c)
  <2>1. MTyped' /\ OneCloser'
    BY <1>2 DEF M!StartSpawns, MTyped, OneCloser
  <2>2. Unadded' /\ Dropped'
    BY <1>2 DEF M!StartSpawns, MTyped, OneCloser, Unadded, Untouched, Dropped
  <2>3. M!OnCloseOnce'
    BY <1>2 DEF M!StartSpawns, MTyped, OneCloser, M!OnCloseOnce, M!Closing
  <2>4. HasLeft'
    BY <1>2 DEF M!StartSpawns, MTyped, OneCloser, Unadded, Untouched, Dropped,
               HasLeft, M!Closing
  <2>5. Swept'
    BY <1>2 DEF M!StartSpawns, MTyped, OneCloser, Unadded, Untouched, Swept
  <2>6. Kept'
    BY <1>2 DEF M!StartSpawns, MTyped, OneCloser, Unadded, Untouched, Swept, Kept
  <2> QED
    BY <2>1, <2>2, <2>3, <2>4, <2>5, <2>6
<1> QED
  BY <1>1, <1>2

\* Inside Wait and Close, CloseAll's Close included.
LEMMA CloseInv ==
    ASSUME MInv, NEW c \in Callers,
           \/ M!WaitEnds(c)
           \/ M!CloseSwaps(c)
           \/ M!AlreadyClosed(c)
           \/ M!OnCloseRemoves(c)
           \/ M!OnClose(c)
    PROVE  MInv'
<1> USE ForwarderParams DEF MInv, M!Goes, M!Idle, MAt, M!held, M!group
<1>1. CASE M!WaitEnds(c)
  <2>1. MTyped' /\ OneCloser'
    BY <1>1 DEF M!WaitEnds, MTyped, OneCloser
  <2>2. Unadded' /\ Dropped'
    BY <1>1 DEF M!WaitEnds, MTyped, OneCloser, Unadded, Untouched, Dropped
  <2>3. M!OnCloseOnce'
    BY <1>1 DEF M!WaitEnds, MTyped, OneCloser, M!OnCloseOnce, M!Closing
  <2>4. HasLeft'
    BY <1>1 DEF M!WaitEnds, MTyped, OneCloser, Unadded, Untouched, Dropped,
               HasLeft, M!Closing
  <2>5. Swept'
    BY <1>1 DEF M!WaitEnds, MTyped, OneCloser, Unadded, Untouched, Swept
  <2>6. Kept'
    BY <1>1 DEF M!WaitEnds, MTyped, OneCloser, Unadded, Untouched, Swept, Kept
  <2> QED
    BY <2>1, <2>2, <2>3, <2>4, <2>5, <2>6
<1>2. CASE M!CloseSwaps(c)
  <2>1. MTyped' /\ OneCloser'
    BY <1>2 DEF M!CloseSwaps, MTyped, OneCloser
  <2>2. Unadded' /\ Dropped'
    BY <1>2 DEF M!CloseSwaps, MTyped, OneCloser, Unadded, Untouched, Dropped
  <2>3. M!OnCloseOnce'
    BY <1>2 DEF M!CloseSwaps, MTyped, OneCloser, M!OnCloseOnce, M!Closing
  <2>4. HasLeft'
    BY <1>2 DEF M!CloseSwaps, MTyped, OneCloser, Unadded, Untouched, Dropped,
               HasLeft, M!Closing
  <2>5. Swept'
    BY <1>2 DEF M!CloseSwaps, MTyped, OneCloser, Unadded, Untouched, Swept
  <2>6. Kept'
    BY <1>2 DEF M!CloseSwaps, MTyped, OneCloser, Unadded, Untouched, Swept, Kept
  <2> QED
    BY <2>1, <2>2, <2>3, <2>4, <2>5, <2>6
<1>3. CASE M!AlreadyClosed(c)
  <2>1. MTyped' /\ OneCloser'
    BY <1>3 DEF M!AlreadyClosed, MTyped, OneCloser, M!CloseReturns
  <2>2. Unadded' /\ Dropped'
    BY <1>3 DEF M!AlreadyClosed, MTyped, OneCloser, Unadded, Untouched, Dropped, M!CloseReturns
  <2>3. M!OnCloseOnce'
    BY <1>3 DEF M!AlreadyClosed, MTyped, OneCloser, M!OnCloseOnce, M!Closing, M!CloseReturns
  <2>4. HasLeft'
    BY <1>3 DEF M!AlreadyClosed, MTyped, OneCloser, Unadded, Untouched, Dropped,
               HasLeft, M!Closing, M!CloseReturns
  <2>5. Swept'
    BY <1>3 DEF M!AlreadyClosed, MTyped, OneCloser, Unadded, Untouched, Swept, M!CloseReturns
  <2>6. Kept'
    BY <1>3 DEF M!AlreadyClosed, MTyped, OneCloser, Unadded, Untouched, Swept, Kept, M!CloseReturns
  <2> QED
    BY <2>1, <2>2, <2>3, <2>4, <2>5, <2>6
<1>4. CASE M!OnCloseRemoves(c)
  <2>1. MTyped' /\ OneCloser'
    BY <1>4 DEF M!OnCloseRemoves, MTyped, OneCloser
  <2>2. Unadded' /\ Dropped'
    BY <1>4 DEF M!OnCloseRemoves, MTyped, OneCloser, Unadded, Untouched, Dropped
  <2>3. M!OnCloseOnce'
    BY <1>4 DEF M!OnCloseRemoves, MTyped, OneCloser, M!OnCloseOnce, M!Closing
  <2>4. HasLeft'
    BY <1>4 DEF M!OnCloseRemoves, MTyped, OneCloser, Unadded, Untouched, Dropped,
               HasLeft, M!Closing
  <2>5. Swept'
    BY <1>4 DEF M!OnCloseRemoves, MTyped, OneCloser, Unadded, Untouched, Swept
  <2>6. Kept'
    BY <1>4 DEF M!OnCloseRemoves, MTyped, OneCloser, Unadded, Untouched, Swept, Kept
  <2> QED
    BY <2>1, <2>2, <2>3, <2>4, <2>5, <2>6
<1>5. CASE M!OnClose(c)
  <2>1. MTyped' /\ OneCloser'
    BY <1>5 DEF M!OnClose, MTyped, OneCloser, M!CloseReturns
  <2>2. Unadded' /\ Dropped'
    BY <1>5 DEF M!OnClose, MTyped, OneCloser, Unadded, Untouched, Dropped, M!CloseReturns
  <2>3. M!OnCloseOnce'
    BY <1>5 DEF M!OnClose, MTyped, OneCloser, M!OnCloseOnce, M!Closing, M!CloseReturns
  <2>4. HasLeft'
    BY <1>5 DEF M!OnClose, MTyped, OneCloser, Unadded, Untouched, Dropped,
               HasLeft, M!Closing, M!CloseReturns
  <2>5. Swept'
    BY <1>5 DEF M!OnClose, MTyped, OneCloser, Unadded, Untouched, Swept, M!CloseReturns
  <2>6. Kept'
    BY <1>5 DEF M!OnClose, MTyped, OneCloser, Unadded, Untouched, Swept, Kept, M!CloseReturns
  <2> QED
    BY <2>1, <2>2, <2>3, <2>4, <2>5, <2>6
<1> QED
  BY <1>1, <1>2, <1>3, <1>4, <1>5

\* CloseAll and WaitAll.
LEMMA SweepInv ==
    ASSUME MInv, NEW c \in Callers,
           \/ M!CloseAll(c)
           \/ M!CloseNext(c)
           \/ M!CloseAllEnds(c)
           \/ M!CallWaitAll(c)
           \/ M!WaitAllWakes(c)
    PROVE  MInv'
<1> USE ForwarderParams DEF MInv, M!Goes, M!Idle, MAt, M!held, M!group
<1>1. CASE M!CloseAll(c)
  <2>1. MTyped' /\ OneCloser'
    BY <1>1 DEF M!CloseAll, MTyped, OneCloser
  <2>2. Unadded' /\ Dropped'
    BY <1>1 DEF M!CloseAll, MTyped, OneCloser, Unadded, Untouched, Dropped
  <2>3. M!OnCloseOnce'
    BY <1>1 DEF M!CloseAll, MTyped, OneCloser, M!OnCloseOnce, M!Closing
  <2>4. HasLeft'
    BY <1>1 DEF M!CloseAll, MTyped, OneCloser, Unadded, Untouched, Dropped,
               HasLeft, M!Closing
  <2>5. Swept'
    BY <1>1 DEF M!CloseAll, MTyped, OneCloser, Unadded, Untouched, Swept
  <2>6. Kept'
    BY <1>1 DEF M!CloseAll, MTyped, OneCloser, Unadded, Untouched, Swept, Kept
  <2> QED
    BY <2>1, <2>2, <2>3, <2>4, <2>5, <2>6
<1>2. CASE M!CloseNext(c)
  <2>1. MTyped' /\ OneCloser'
    BY <1>2 DEF M!CloseNext, MTyped, OneCloser
  <2>2. Unadded' /\ Dropped'
    BY <1>2 DEF M!CloseNext, MTyped, OneCloser, Unadded, Untouched, Dropped
  <2>3. M!OnCloseOnce'
    BY <1>2 DEF M!CloseNext, MTyped, OneCloser, M!OnCloseOnce, M!Closing
  <2>4. HasLeft'
    BY <1>2 DEF M!CloseNext, MTyped, OneCloser, Unadded, Untouched, Dropped,
               HasLeft, M!Closing
  <2>5. Swept'
    BY <1>2 DEF M!CloseNext, MTyped, OneCloser, Unadded, Untouched, Swept
  <2>6. Kept'
    BY <1>2 DEF M!CloseNext, MTyped, OneCloser, Unadded, Untouched, Swept, Kept
  <2> QED
    BY <2>1, <2>2, <2>3, <2>4, <2>5, <2>6
<1>3. CASE M!CloseAllEnds(c)
  <2>1. MTyped' /\ OneCloser'
    BY <1>3 DEF M!CloseAllEnds, MTyped, OneCloser
  <2>2. Unadded' /\ Dropped'
    BY <1>3 DEF M!CloseAllEnds, MTyped, OneCloser, Unadded, Untouched, Dropped
  <2>3. M!OnCloseOnce'
    BY <1>3 DEF M!CloseAllEnds, MTyped, OneCloser, M!OnCloseOnce, M!Closing
  <2>4. HasLeft'
    BY <1>3 DEF M!CloseAllEnds, MTyped, OneCloser, Unadded, Untouched, Dropped,
               HasLeft, M!Closing
  <2>5. Swept'
    BY <1>3 DEF M!CloseAllEnds, MTyped, OneCloser, Unadded, Untouched, Swept
  <2>6. Kept'
    BY <1>3 DEF M!CloseAllEnds, MTyped, OneCloser, Unadded, Untouched, Swept, Kept
  <2> QED
    BY <2>1, <2>2, <2>3, <2>4, <2>5, <2>6
<1>4. CASE M!CallWaitAll(c)
  <2>1. MTyped' /\ OneCloser'
    BY <1>4 DEF M!CallWaitAll, MTyped, OneCloser
  <2>2. Unadded' /\ Dropped'
    BY <1>4 DEF M!CallWaitAll, MTyped, OneCloser, Unadded, Untouched, Dropped
  <2>3. M!OnCloseOnce'
    BY <1>4 DEF M!CallWaitAll, MTyped, OneCloser, M!OnCloseOnce, M!Closing
  <2>4. HasLeft'
    BY <1>4 DEF M!CallWaitAll, MTyped, OneCloser, Unadded, Untouched, Dropped,
               HasLeft, M!Closing
  <2>5. Swept'
    BY <1>4 DEF M!CallWaitAll, MTyped, OneCloser, Unadded, Untouched, Swept
  <2>6. Kept'
    BY <1>4 DEF M!CallWaitAll, MTyped, OneCloser, Unadded, Untouched, Swept, Kept
  <2> QED
    BY <2>1, <2>2, <2>3, <2>4, <2>5, <2>6
<1>5. CASE M!WaitAllWakes(c)
  <2>1. MTyped' /\ OneCloser'
    BY <1>5 DEF M!WaitAllWakes, MTyped, OneCloser
  <2>2. Unadded' /\ Dropped'
    <3>1. /\ \A d \in Callers : call'[d] = call[d] \/ call'[d].at = "idle"
          /\ UNCHANGED <<table, todo, via, closed>>
      BY <1>5 DEF M!WaitAllWakes, MTyped
    <3> QED BY <3>1 DEF Unadded, Untouched, Dropped
  <2>3. M!OnCloseOnce'
    BY <1>5 DEF M!WaitAllWakes, MTyped, OneCloser, M!OnCloseOnce, M!Closing
  <2>4. HasLeft'
    BY <1>5 DEF M!WaitAllWakes, MTyped, OneCloser, Unadded, Untouched, Dropped,
               HasLeft, M!Closing
  <2>5. Swept'
    BY <1>5 DEF M!WaitAllWakes, MTyped, OneCloser, Unadded, Untouched, Swept
  <2>6. Kept'
    BY <1>5 DEF M!WaitAllWakes, MTyped, OneCloser, Unadded, Untouched, Swept, Kept
  <2> QED
    BY <2>1, <2>2, <2>3, <2>4, <2>5, <2>6
<1> QED
  BY <1>1, <1>2, <1>3, <1>4, <1>5

\* The end of a goroutine of Start moves only who is in WaitAll.
LEMMA StarterEndsEffect ==
    ASSUME MTyped, NEW f \in Fwds, M!StarterEnds(f)
    PROVE  /\ call' \in [Callers -> [f : Fwds \cup {NoKey}, at : MAt]]
           /\ \A c \in Callers :
                /\ call'[c].f = call[c].f
                /\ call'[c].at = call[c].at \/ (call[c].at = "waitAll" /\ call'[c].at = "woken")
           /\ UNCHANGED <<table, removed, mu, todo, via, copying, closed, called>>
<1>1. \A c \in Callers :
        \/ call'[c] = call[c]
        \/ call[c].at = "waitAll" /\ call'[c] = [call[c] EXCEPT !.at = "woken"]
  BY DEF M!StarterEnds
<1>2. \A c \in Callers :
        /\ call'[c] \in [f : Fwds \cup {NoKey}, at : MAt]
        /\ call'[c].f = call[c].f
        /\ call'[c].at = call[c].at \/ (call[c].at = "waitAll" /\ call'[c].at = "woken")
  BY <1>1 DEF MTyped, MAt
<1> QED BY <1>2 DEF M!StarterEnds, M!held

\* The goroutines of Start and of the copying touch neither the table nor closed.
LEMMA ForwarderInv ==
    ASSUME MInv, NEW f \in Fwds, M!Forwarder(f)
    PROVE  MInv'
<1>1. CASE M!StarterStarts(f) \/ M!CopiersEnd(f)
  <2>1. UNCHANGED <<table, removed, mu, todo, via, closed, called, call>>
    BY <1>1 DEF M!StarterStarts, M!CopiersEnd, M!held
  <2> QED BY <2>1 DEF MInv, MTyped, OneCloser, Unadded, Untouched, Dropped, M!OnCloseOnce, M!Closing,
                      HasLeft, Swept, Kept
<1>2. CASE M!StarterEnds(f)
  <2>1. MTyped
    BY DEF MInv
  <2>2. /\ call' \in [Callers -> [f : Fwds \cup {NoKey}, at : MAt]]
        /\ \A c \in Callers :
             /\ call'[c].f = call[c].f
             /\ call'[c].at = call[c].at \/ (call[c].at = "waitAll" /\ call'[c].at = "woken")
        /\ UNCHANGED <<table, removed, mu, todo, via, copying, closed, called>>
    BY <1>2, <2>1, StarterEndsEffect
  <2>3. MTyped' /\ OneCloser'
    BY <2>2 DEF MInv, MTyped, OneCloser
  <2>4. Unadded' /\ Dropped'
    BY <2>2 DEF MInv, Unadded, Untouched, Dropped
  <2>5. \A g \in Fwds : M!Closing(g)' = M!Closing(g)
    BY <2>2 DEF M!Closing
  <2>6. M!OnCloseOnce' /\ HasLeft'
    BY <2>2, <2>5 DEF MInv, MTyped, M!OnCloseOnce, HasLeft
  <2>7. Swept' /\ Kept'
    BY <2>2 DEF MInv, Swept, Kept
  <2> QED BY <2>3, <2>4, <2>6, <2>7 DEF MInv
<1> QED BY <1>1, <1>2 DEF M!Forwarder

\* Every step keeps the invariant.
LEMMA MStepInv == MInv /\ [M!Next]_(M!vars) => MInv'
<1> SUFFICES ASSUME MInv, [M!Next]_(M!vars) PROVE MInv'
  OBVIOUS
<1>1. CASE UNCHANGED M!vars
  BY <1>1 DEF M!vars, M!held, MInv, MTyped, OneCloser, Unadded, Untouched, Dropped,
              M!OnCloseOnce, M!Closing, HasLeft, Swept, Kept
<1>2. ASSUME NEW c \in Callers, M!Calls(c) PROVE MInv'
  BY <1>2, GivenCallInv, SweepInv DEF M!Calls
<1>3. ASSUME NEW c \in Callers, M!Works(c) \/ M!Locks(c) PROVE MInv'
  BY <1>3, StartInv, CloseInv, SweepInv DEF M!Works, M!Locks
<1> QED
  BY <1>1, <1>2, <1>3, ForwarderInv DEF M!Next

\* The inductive invariant of the manager.
THEOREM MInvariance == M!Spec => []MInv
BY MInitInv, MStepInv, PTL DEF M!Spec

-----------------------------------------------------------------------------
\* The WaitGroup.

\* Those whose goroutine in Start has begun and not ended.
Running == {f \in Fwds : starter[f] \in {"go", "started"}}

\* A forwarder has no goroutine before its Start makes it, and wg counts them.
Counted ==
    /\ mu \in Callers \cup {NoKey}
    /\ starter \in [Fwds -> {"none", "go", "started", "ended"}]
    /\ copying \in [Fwds -> BOOLEAN]
    /\ \A f \in Fwds : via[f] = "none" => starter[f] = "none"
    /\ \A c \in Callers : call[c].at \in {"add", "spawn"} => starter[call[c].f] = "none"
    /\ wg = Cardinality(Running) /\ panicked \in BOOLEAN

\* The initial state has the invariant.
LEMMA CountedInit == M!Init => Counted
<1> SUFFICES ASSUME M!Init PROVE Counted
  OBVIOUS
<1>1. Running = {} /\ wg = 0
  BY DEF M!Init, Running
<1>2. Cardinality(Running) = 0
  BY <1>1, FS_EmptySet
<1> QED BY <1>1, <1>2 DEF M!Init, Counted, M!Idle

\* A step that leaves the goroutines of Start alone.
LEMMA CountedKept ==
    ASSUME MInv, Counted, UNCHANGED <<wg, starter, copying>>,
           panicked' \in BOOLEAN, mu' \in Callers \cup {NoKey},
           \A f \in Fwds : via'[f] = "none" => via[f] = "none",
           \A c \in Callers : call'[c].at \in {"add", "spawn"} =>
                \/ call[c].at \in {"add", "spawn"} /\ call'[c].f = call[c].f
                \/ starter[call'[c].f] = "none"
    PROVE  Counted'
<1>1. Running' = Running
  BY DEF Running
<1> QED BY <1>1 DEF Counted

\* A call with a forwarder: only CallStart's caller is about to spawn, and for
\* a forwarder that was not given before.
LEMMA GivenCallCounted ==
    ASSUME MInv, Counted, NEW c \in Callers, NEW f \in Fwds,
           \/ M!CallStart(c, f) \/ M!Add(c, f) \/ M!Remove(c, f)
           \/ M!CallClose(c, f) \/ M!CallWait(c, f)
    PROVE  Counted'
<1> USE DEF M!Goes, MInv, MTyped, MAt, Counted
<1>1. UNCHANGED <<wg, panicked, starter, copying, mu>>
  BY DEF M!CallStart, M!Add, M!Remove, M!CallClose, M!CallWait, M!group
<1>2. \A g \in Fwds : via'[g] = "none" => via[g] = "none"
  BY DEF M!CallStart, M!Add, M!Remove, M!CallClose, M!CallWait
<1>3. \A d \in Callers : call'[d].at \in {"add", "spawn"} =>
        \/ call[d].at \in {"add", "spawn"} /\ call'[d].f = call[d].f
        \/ starter[call'[d].f] = "none"
  BY DEF M!CallStart, M!Add, M!Remove, M!CallClose, M!CallWait
<1> QED BY <1>1, <1>2, <1>3, CountedKept

\* The other steps of a caller, but for StartSpawns.
LEMMA CallerCounted ==
    ASSUME MInv, Counted, NEW c \in Callers,
           \/ M!StartAdds(c) \/ M!WaitEnds(c)
           \/ M!CloseSwaps(c) \/ M!AlreadyClosed(c) \/ M!OnCloseRemoves(c) \/ M!OnClose(c)
           \/ M!CloseAll(c) \/ M!CloseNext(c) \/ M!CloseAllEnds(c)
           \/ M!CallWaitAll(c) \/ M!WaitAllWakes(c)
    PROVE  Counted'
<1> USE DEF M!Goes, MInv, MTyped, MAt, Counted, M!Idle, M!CloseReturns
<1>0. panicked' \in BOOLEAN
  <2>1. CASE M!WaitAllWakes(c)
    BY <2>1, Zenon DEF M!WaitAllWakes
  <2>2. CASE ~M!WaitAllWakes(c)
    BY <2>2 DEF M!StartAdds, M!WaitEnds, M!CloseSwaps, M!AlreadyClosed, M!OnCloseRemoves, M!OnClose,
                M!CloseAll, M!CloseNext, M!CloseAllEnds, M!CallWaitAll, M!group
  <2> QED BY <2>1, <2>2
<1>1. UNCHANGED <<wg, starter, copying, via>>
  BY DEF M!group, M!StartAdds, M!WaitEnds, M!CloseSwaps, M!AlreadyClosed, M!OnCloseRemoves, M!OnClose,
         M!CloseAll, M!CloseNext, M!CloseAllEnds, M!CallWaitAll, M!WaitAllWakes
<1>2. mu' \in Callers \cup {NoKey}
  BY DEF M!StartAdds, M!WaitEnds, M!CloseSwaps, M!AlreadyClosed, M!OnCloseRemoves, M!OnClose,
         M!CloseAll, M!CloseNext, M!CloseAllEnds, M!CallWaitAll, M!WaitAllWakes
<1>3. \A d \in Callers : call'[d].at \in {"add", "spawn"} =>
        call[d].at \in {"add", "spawn"} /\ call'[d].f = call[d].f
  <2>1. CASE M!StartAdds(c)
    BY <2>1 DEF M!StartAdds
  <2>2. CASE M!WaitEnds(c) \/ M!CallWaitAll(c) \/ M!WaitAllWakes(c)
    BY <2>2 DEF M!WaitEnds, M!CallWaitAll, M!WaitAllWakes
  <2>3. CASE M!CloseSwaps(c)
    BY <2>3 DEF M!CloseSwaps
  <2>4. CASE M!AlreadyClosed(c) \/ M!OnClose(c)
    BY <2>4 DEF M!AlreadyClosed, M!OnClose
  <2>5. CASE M!OnCloseRemoves(c)
    BY <2>5 DEF M!OnCloseRemoves
  <2>6. CASE M!CloseAll(c) \/ M!CloseNext(c) \/ M!CloseAllEnds(c)
    BY <2>6 DEF M!CloseAll, M!CloseNext, M!CloseAllEnds
  <2> QED BY <2>1, <2>2, <2>3, <2>4, <2>5, <2>6
<1> QED BY <1>0, <1>1, <1>2, <1>3, CountedKept

\* The goroutine that StartSpawns makes is a new one, and wg.Add counts it.
LEMMA SpawnCounted ==
    ASSUME MInv, Counted, NEW c \in Callers, M!StartSpawns(c)
    PROVE  Counted'
<1> DEFINE f == call[c].f
<1>1. /\ call[c].at = "spawn" /\ f \in Fwds /\ starter[f] = "none"
      /\ wg' = wg + 1 /\ starter' = [starter EXCEPT ![f] = "go"]
      /\ call' = [call EXCEPT ![c] = M!Idle] /\ UNCHANGED <<mu, via, copying>>
  BY DEF M!StartSpawns, MInv, MTyped, Counted
<1>2. via[f] # "none" /\ \A d \in Callers : call[d].at \in {"add", "spawn"} /\ d # c => call[d].f # f
  BY <1>1 DEF MInv, Unadded
<1> HIDE DEF f
<1>3. Running' = Running \cup {f} /\ f \notin Running
  BY <1>1 DEF Running, Counted
<1>4. IsFiniteSet(Running)
  BY ForwarderParams, FS_Subset DEF Running
<1>5. Cardinality(Running') = Cardinality(Running) + 1
  BY <1>3, <1>4, FS_AddElement
<1>6. \A d \in Callers : call'[d].at \in {"add", "spawn"} => starter'[call'[d].f] = "none"
  <2> SUFFICES ASSUME NEW d \in Callers, call'[d].at \in {"add", "spawn"}
               PROVE  starter'[call'[d].f] = "none"
    OBVIOUS
  <2>1. d # c /\ call'[d] = call[d]
    BY <1>1 DEF M!Idle, MInv, MTyped
  <2>2. call[d].f # f /\ call[d].f \in Fwds /\ starter[call[d].f] = "none"
    BY <1>2, <2>1 DEF MInv, MTyped, Counted
  <2> QED BY <1>1, <2>1, <2>2 DEF Counted
<1>7. panicked' \in BOOLEAN
  <2>1. panicked' \in {FALSE, \E d \in Callers : call[d].at = "woken"}
    BY DEF M!StartSpawns
  <2> QED BY <2>1, Zenon
<1> QED BY <1>1, <1>2, <1>5, <1>6, <1>7 DEF Counted

\* TCPForwarder.Start, its end, and the end of the copying.
LEMMA ForwarderCounted ==
    ASSUME MInv, Counted, NEW f \in Fwds, M!Forwarder(f)
    PROVE  Counted'
<1>0. IsFiniteSet(Running)
  BY ForwarderParams, FS_Subset DEF Running
<1>1. CASE M!StarterStarts(f)
  <2>1. Running' = Running
    BY <1>1 DEF M!StarterStarts, Running, Counted
  <2> QED BY <1>1, <2>1 DEF M!StarterStarts, M!held, M!group, Counted, MInv, MTyped
<1>2. CASE M!StarterEnds(f)
  <2>1. Running' = Running \ {f} /\ f \in Running
    BY <1>2 DEF M!StarterEnds, Running, Counted
  <2>2. Cardinality(Running') = Cardinality(Running) - 1
    BY <1>0, <2>1, FS_RemoveElement
  <2>3. panicked' \in BOOLEAN
    BY <1>2, Zenon DEF M!StarterEnds
  <2>4. MTyped
    BY DEF MInv
  <2>5. \A c \in Callers : call'[c].at \in {"add", "spawn"} =>
            call[c].at \in {"add", "spawn"} /\ call'[c].f = call[c].f /\ call[c].f # f
    BY <1>2, <2>4, StarterEndsEffect DEF M!StarterEnds, Counted
  <2>6. starter' = [starter EXCEPT ![f] = "ended"] /\ wg' = wg - 1 /\ UNCHANGED <<mu, via, copying>>
        /\ starter[f] = "started"
    BY <1>2 DEF M!StarterEnds
  <2> QED BY <2>2, <2>3, <2>4, <2>5, <2>6 DEF Counted, MTyped
<1>3. CASE M!CopiersEnd(f)
  <2>1. Running' = Running
    BY <1>3 DEF M!CopiersEnd, Running
  <2> QED BY <1>3, <2>1 DEF M!CopiersEnd, M!group, Counted
<1> QED BY <1>1, <1>2, <1>3 DEF M!Forwarder

\* Every step keeps the invariant.
LEMMA CountedStep == MInv /\ Counted /\ [M!Next]_(M!vars) => Counted'
<1> SUFFICES ASSUME MInv, Counted, [M!Next]_(M!vars) PROVE Counted'
  OBVIOUS
<1>1. CASE UNCHANGED M!vars
  BY <1>1 DEF M!vars, M!group, Counted, Running
<1>2. ASSUME NEW c \in Callers, M!Calls(c) \/ M!Works(c) \/ M!Locks(c) PROVE Counted'
  BY <1>2, GivenCallCounted, CallerCounted, SpawnCounted DEF M!Calls, M!Works, M!Locks
<1> QED BY <1>1, <1>2, ForwarderCounted DEF M!Next

THEOREM CountedInvariance == M!Spec => []Counted
BY CountedInit, CountedStep, MInvariance, PTL DEF M!Spec

-----------------------------------------------------------------------------
\* The bytes.

Cells == [dir : B!Dirs, i : Nat]

\* What the proofs need of the types: among it, that a goroutine that writes
\* has something left to write.
BTyped ==
    /\ sent \in [B!Dirs -> Nat] /\ taken \in [B!Dirs -> Nat]
    /\ \A d \in B!Dirs : taken[d] <= sent[d] /\ sent[d] <= MaxSent[d]
    /\ eof \in [B!Dirs -> BOOLEAN]
    /\ buf \in [1 .. BufSize -> Cells]
    /\ got \in [B!Dirs -> Seq(Cells)]
    /\ status \in [{"src", "dst"} -> {"up", "timedout", "down"}]
    /\ copyPC \in [B!Dirs -> {"read", "write", "retry", "exited"}]
    /\ n \in [B!Dirs -> 0 .. BufSize] /\ w \in [B!Dirs -> 0 .. BufSize]
    /\ {pairClosed, dstShut, overlap, echoed} \subseteq BOOLEAN
    /\ \A d \in B!Dirs : copyPC[d] \in {"write", "retry"} => w[d] < n[d]

\* What arrived at To(d) and what the goroutine of d has still to write are,
\* together, what it took from From(d), in order.
Carries(d) ==
    /\ B!InOrder(d)
    /\ copyPC[d] = "read" => Len(got[d]) = taken[d]
    /\ copyPC[d] \in {"write", "retry"} =>
        /\ Len(got[d]) = taken[d] - n[d] + w[d]
        /\ \A i \in 1 .. BufSize :
            w[d] < i /\ i <= n[d] => buf[i] = B!Byte(d, taken[d] - n[d] + i)

BInv == BTyped /\ (~overlap /\ ~echoed => \A d \in B!Dirs : Carries(d))

\* A direction is Up or Down, and each has its two sockets.
LEMMA DirsFacts ==
    /\ Up \in B!Dirs /\ Down \in B!Dirs /\ Up # Down
    /\ \A d \in B!Dirs : /\ d = Up \/ d = Down
                         /\ B!Other(d) \in B!Dirs /\ B!Other(d) # d
                         /\ B!From(d) \in {"src", "dst"} /\ B!To(d) \in {"src", "dst"}
    /\ \A d, e \in B!Dirs : d # e => e = B!Other(d)
BY DEF B!Dirs, B!Up, B!Down, Up, Down, B!Other, B!From, B!To

\* The initial state has the invariant.
LEMMA BInitInv == B!Init => BInv
<1> SUFFICES ASSUME B!Init PROVE BInv
  OBVIOUS
<1>1. \A d \in B!Dirs : MaxSent[d] \in Nat
  BY CopyParams DEF B!Dirs, B!Up, B!Down, Up, Down
<1>2. \A d \in B!Dirs : got[d] = <<>> /\ Len(got[d]) = 0 /\ copyPC[d] = "read" /\ taken[d] = 0
  BY DEF B!Init
<1>3. \A d \in B!Dirs : Carries(d)
  BY <1>2 DEF Carries, B!InOrder
<1>4. buf \in [1 .. BufSize -> Cells]
  BY DirsFacts DEF B!Init, Cells, B!Byte, B!Up, Up
<1>5. got \in [B!Dirs -> Seq(Cells)]
  BY DEF B!Init
<1>6. n \in [B!Dirs -> 0 .. BufSize] /\ w \in [B!Dirs -> 0 .. BufSize]
  BY CopyParams DEF B!Init
<1>7. /\ eof \in [B!Dirs -> BOOLEAN]
      /\ status \in [{"src", "dst"} -> {"up", "timedout", "down"}]
      /\ {pairClosed, dstShut, overlap, echoed} \subseteq BOOLEAN
  BY DEF B!Init
<1>8. /\ sent \in [B!Dirs -> Nat] /\ taken \in [B!Dirs -> Nat]
      /\ copyPC \in [B!Dirs -> {"read", "write", "retry", "exited"}]
      /\ \A d \in B!Dirs : taken[d] <= sent[d] /\ sent[d] <= MaxSent[d]
      /\ \A d \in B!Dirs : copyPC[d] \in {"write", "retry"} => w[d] < n[d]
  BY <1>1 DEF B!Init
<1>9. BTyped
  BY <1>4, <1>5, <1>6, <1>7, <1>8 DEF BTyped
<1> QED BY <1>3, <1>9 DEF BInv

\* The peers, the network and the cleaner leave the copying alone.
LEMMA EnvironmentInv ==
    ASSUME BInv, B!Environment
    PROVE  BInv'
<1>1. UNCHANGED <<got, taken, buf, copyPC, n, w, overlap, echoed>>
  BY DEF B!Environment, B!PeerSends, B!PeerEnds, B!SocketFails, B!Close
<1>2. (~overlap /\ ~echoed => \A d \in B!Dirs : Carries(d))'
  BY <1>1 DEF BInv, Carries, B!InOrder
<1>3. BTyped'
  <2>1. ASSUME NEW d \in B!Dirs, B!PeerSends(d) PROVE BTyped'
    <3>1. sent' \in [B!Dirs -> Nat] /\ sent[d] < MaxSent[d] /\ sent' = [sent EXCEPT ![d] = @ + 1]
      BY <2>1 DEF B!PeerSends, BInv, BTyped
    <3>2. MaxSent[d] \in Nat
      BY CopyParams DEF B!Dirs, B!Up, B!Down, Up, Down
    <3>3. \A e \in B!Dirs : taken'[e] <= sent'[e] /\ sent'[e] <= MaxSent[e]
      BY <1>1, <3>1, <3>2 DEF BInv, BTyped
    <3> QED BY <1>1, <2>1, <3>1, <3>3 DEF B!PeerSends, BInv, BTyped
  <2>2. ASSUME NEW d \in B!Dirs, B!PeerEnds(d) PROVE BTyped'
    <3>1. eof' \in [B!Dirs -> BOOLEAN]
      BY <2>2 DEF B!PeerEnds, BInv, BTyped
    <3> QED BY <1>1, <2>2, <3>1 DEF B!PeerEnds, BInv, BTyped
  <2>3. ASSUME NEW s \in {"src", "dst"}, B!SocketFails(s) PROVE BTyped'
    <3>1. status' \in [{"src", "dst"} -> {"up", "timedout", "down"}]
      BY <2>3, CopyParams DEF B!SocketFails, BInv, BTyped
    <3> QED BY <1>1, <2>3, <3>1 DEF B!SocketFails, B!peers, BInv, BTyped
  <2>4. CASE B!Close
    BY <1>1, <2>4 DEF B!Close, B!peers, BInv, BTyped
  <2> QED BY <2>1, <2>2, <2>3, <2>4 DEF B!Environment
<1> QED BY <1>2, <1>3 DEF BInv

\* A Read carries on where the last one ended, and leaves the cells of the
\* other goroutine unless it overlaps them.
LEMMA ReadDataInv ==
    ASSUME BInv, NEW d \in B!Dirs, B!ReadData(d)
    PROVE  BInv'
<1> DEFINE count == IF sent[d] - taken[d] < BufSize THEN sent[d] - taken[d] ELSE BufSize
<1>1. /\ copyPC[d] = "read" /\ taken[d] # sent[d]
      /\ buf' = [i \in 1 .. BufSize |-> IF i <= count THEN B!Byte(d, taken[d] + i) ELSE buf[i]]
      /\ taken' = [taken EXCEPT ![d] = @ + count]
      /\ n' = [n EXCEPT ![d] = count]
      /\ w' = [w EXCEPT ![d] = 0]
      /\ copyPC' = [copyPC EXCEPT ![d] = "write"]
      /\ overlap' = (overlap \/ \E i \in 1 .. count : B!Unwritten(B!Other(d), i))
      /\ UNCHANGED <<sent, eof, got, status, pairClosed, dstShut, echoed>>
  BY DEF B!ReadData, B!Drained, B!peers
<1>2. count \in 1 .. BufSize /\ count <= sent[d] - taken[d]
  BY <1>1, CopyParams DEF BInv, BTyped
<1> HIDE DEF count
<1>3. BTyped'
  <2>1. buf' \in [1 .. BufSize -> Cells]
    BY <1>1, <1>2, CopyParams DEF BInv, BTyped, Cells, B!Byte
  <2>2. overlap' \in BOOLEAN
    BY <1>1 DEF BInv, BTyped
  <2> QED BY <1>1, <1>2, <2>1, <2>2, CopyParams DEF BInv, BTyped
<1>4. ASSUME ~overlap', ~echoed', NEW e \in B!Dirs PROVE Carries(e)'
  <2>1. ~overlap /\ ~echoed /\ Carries(e)
    BY <1>1, <1>4 DEF BInv
  <2>2. B!InOrder(e)'
    BY <1>1, <2>1 DEF Carries, B!InOrder
  <2>3. CASE e = d
    BY <1>1, <1>2, <2>1, <2>2, <2>3, CopyParams DEF Carries, BInv, BTyped, B!Byte
  <2>4. CASE e # d
    <3>1. e = B!Other(d)
      BY <2>4, DirsFacts
    <3>2. UNCHANGED <<got[e], taken[e], copyPC[e], n[e], w[e]>>
      BY <1>1, <2>4 DEF BInv, BTyped
    <3>3. ASSUME copyPC[e] \in {"write", "retry"}, NEW i \in 1 .. BufSize, w[e] < i, i <= n[e]
          PROVE  buf'[i] = buf[i]
      <4>1. i \notin 1 .. count
        BY <1>1, <1>4, <3>1, <3>3 DEF B!Unwritten
      <4> QED BY <1>1, <1>2, <4>1, CopyParams
    <3> QED BY <2>1, <2>2, <3>2, <3>3 DEF Carries
  <2> QED BY <2>3, <2>4
<1> QED BY <1>3, <1>4 DEF BInv

\* A goroutine that ends leaves what arrived.
LEMMA ExitsInv ==
    ASSUME BInv, NEW d \in B!Dirs, B!Exits(d),
           UNCHANGED <<sent, eof, got, taken, status, pairClosed, buf, n, w, overlap, echoed>>
    PROVE  BInv'
<1>1. copyPC' = [copyPC EXCEPT ![d] = "exited"] /\ dstShut' \in BOOLEAN
  BY DEF B!Exits, BInv, BTyped
<1>2. BTyped'
  BY <1>1, CopyParams DEF BInv, BTyped
<1>3. ASSUME NEW e \in B!Dirs, Carries(e) PROVE Carries(e)'
  <2>1. B!InOrder(e)'
    BY <1>3 DEF Carries, B!InOrder
  <2>2. copyPC'[e] = "exited" \/ copyPC'[e] = copyPC[e]
    BY <1>1 DEF BInv, BTyped
  <2> QED BY <1>3, <2>1, <2>2 DEF Carries
<1> QED BY <1>2, <1>3 DEF BInv

\* A timeout moves no byte: the goroutine reads again, or goes to
\* handlePartialWrite, or tries there again.
LEMMA TimesOutInv ==
    ASSUME BInv, NEW d \in B!Dirs,
           B!ReadTimesOut(d) \/ B!WriteTimesOut(d) \/ B!RetryTimesOut(d)
    PROVE  BInv'
<1>1. /\ copyPC' = copyPC \/ (copyPC[d] = "write" /\ copyPC' = [copyPC EXCEPT ![d] = "retry"])
      /\ \E s \in {"src", "dst"} : status' = [status EXCEPT ![s] = "down"]
      /\ UNCHANGED <<sent, eof, got, taken, pairClosed, dstShut, buf, n, w, overlap, echoed>>
  BY DirsFacts DEF B!ReadTimesOut, B!WriteTimesOut, B!RetryTimesOut, B!peers
<1>2. BTyped'
  BY <1>1, CopyParams DEF BInv, BTyped
<1>3. ASSUME NEW e \in B!Dirs, Carries(e) PROVE Carries(e)'
  <2>1. B!InOrder(e)'
    BY <1>1, <1>3 DEF Carries, B!InOrder
  <2>2. copyPC'[e] = copyPC[e] \/ (copyPC[e] = "write" /\ copyPC'[e] = "retry")
    BY <1>1 DEF BInv, BTyped
  <2> QED BY <1>1, <1>3, <2>1, <2>2 DEF Carries
<1> QED BY <1>1, <1>2, <1>3 DEF BInv

\* One cell of a Write: the next byte arrives.
LEMMA WriteCellInv ==
    ASSUME BInv, NEW d \in B!Dirs, B!WriteCell(d)
    PROVE  BInv'
<1>1. /\ copyPC[d] = "write"
      /\ got' = [got EXCEPT ![d] = Append(@, buf[w[d] + 1])]
      /\ w' = [w EXCEPT ![d] = @ + 1]
      /\ copyPC' = [copyPC EXCEPT ![d] = IF w[d] + 1 = n[d] THEN "read" ELSE "write"]
      /\ UNCHANGED <<sent, eof, taken, status, pairClosed, dstShut, buf, n, overlap, echoed>>
  BY DEF B!WriteCell, B!peers
<1>2. /\ w[d] \in 0 .. BufSize /\ n[d] \in 0 .. BufSize /\ w[d] < n[d]
      /\ w[d] + 1 \in 1 .. BufSize /\ buf[w[d] + 1] \in Cells /\ got[d] \in Seq(Cells)
  BY <1>1, CopyParams DEF BInv, BTyped
<1>3. BTyped'
  <2>1. got' \in [B!Dirs -> Seq(Cells)]
    <3>1. Append(got[d], buf[w[d] + 1]) \in Seq(Cells)
      BY <1>2
    <3> QED BY <1>1, <3>1 DEF BInv, BTyped
  <2>2. /\ w' \in [B!Dirs -> 0 .. BufSize]
        /\ copyPC' \in [B!Dirs -> {"read", "write", "retry", "exited"}]
        /\ \A e \in B!Dirs : copyPC'[e] \in {"write", "retry"} => w'[e] < n'[e]
    BY <1>1, <1>2, CopyParams DEF BInv, BTyped
  <2> QED BY <1>1, <2>1, <2>2 DEF BInv, BTyped
<1>4. ASSUME ~overlap, ~echoed, NEW e \in B!Dirs PROVE Carries(e)'
  <2>1. Carries(e)
    BY <1>4 DEF BInv
  <2>2. CASE e = d
    <3>1. /\ Len(got[d]) = taken[d] - n[d] + w[d]
          /\ buf[w[d] + 1] = B!Byte(d, taken[d] - n[d] + (w[d] + 1))
      BY <1>1, <1>2, <2>1, <2>2 DEF Carries
    <3>2. taken[d] \in Nat
      BY DEF BInv, BTyped
    <3>3. /\ got'[d] = Append(got[d], B!Byte(d, Len(got[d]) + 1))
          /\ w'[d] = w[d] + 1 /\ n'[d] = n[d] /\ taken'[d] = taken[d]
      BY <1>1, <1>2, <3>1, <3>2 DEF BInv, BTyped
    <3>4. Len(got'[d]) = Len(got[d]) + 1 /\ B!InOrder(d)'
      BY <1>2, <2>1, <2>2, <3>3 DEF Carries, B!InOrder
    <3>5. copyPC'[d] = IF w[d] + 1 = n[d] THEN "read" ELSE "write"
      BY <1>1 DEF BInv, BTyped
    <3>6. copyPC'[d] = "read" => Len(got'[d]) = taken'[d]
      BY <1>2, <3>1, <3>2, <3>3, <3>4, <3>5
    <3>7. Len(got'[d]) = taken'[d] - n'[d] + w'[d]
      BY <1>2, <3>1, <3>2, <3>3, <3>4
    <3>8. \A i \in 1 .. BufSize :
            w'[d] < i /\ i <= n'[d] => buf'[i] = B!Byte(d, taken'[d] - n'[d] + i)
      BY <1>1, <1>2, <2>1, <2>2, <3>3 DEF Carries
    <3> QED BY <2>2, <3>4, <3>6, <3>7, <3>8 DEF Carries
  <2>3. CASE e # d
    <3>1. UNCHANGED <<got[e], taken[e], copyPC[e], n[e], w[e], buf>>
      BY <1>1, <2>3 DEF BInv, BTyped
    <3> QED BY <2>1, <3>1 DEF Carries, B!InOrder
  <2> QED BY <2>2, <2>3
<1> QED BY <1>1, <1>3, <1>4 DEF BInv

\* One cell of handlePartialWrite: from the client, the next byte arrives;
\* from the remote, this is an echo.
LEMMA RetryCellInv ==
    ASSUME BInv, NEW d \in B!Dirs, B!RetryCell(d)
    PROVE  BInv'
<1>1. /\ copyPC[d] = "retry"
      /\ got' = [got EXCEPT ![Up] = Append(@, buf[w[d] + 1])]
      /\ w' = [w EXCEPT ![d] = @ + 1]
      /\ IF w[d] + 1 = n[d] THEN copyPC' = [copyPC EXCEPT ![d] = "exited"] ELSE copyPC' = copyPC
      /\ echoed' = (echoed \/ d = Down)
      /\ UNCHANGED <<sent, eof, taken, status, pairClosed, buf, n, overlap>>
  BY DEF B!RetryCell, B!peers, B!Exits, B!Up, B!Down, Up, Down
<1>2. /\ w[d] \in 0 .. BufSize /\ n[d] \in 0 .. BufSize /\ w[d] < n[d]
      /\ w[d] + 1 \in 1 .. BufSize /\ buf[w[d] + 1] \in Cells /\ got[Up] \in Seq(Cells)
  BY <1>1, CopyParams, DirsFacts DEF BInv, BTyped
<1>3. BTyped'
  <2>1. got' \in [B!Dirs -> Seq(Cells)]
    <3>1. Append(got[Up], buf[w[d] + 1]) \in Seq(Cells)
      BY <1>2
    <3> QED BY <1>1, <3>1 DEF BInv, BTyped
  <2>2. /\ w' \in [B!Dirs -> 0 .. BufSize]
        /\ copyPC' \in [B!Dirs -> {"read", "write", "retry", "exited"}]
        /\ \A e \in B!Dirs : copyPC'[e] \in {"write", "retry"} => w'[e] < n'[e]
    <3>1. w' \in [B!Dirs -> 0 .. BufSize]
      BY <1>1, <1>2, CopyParams DEF BInv, BTyped
    <3>2. CASE w[d] + 1 = n[d]
      BY <1>1, <1>2, <3>1, <3>2, CopyParams DEF BInv, BTyped
    <3>3. CASE w[d] + 1 # n[d]
      BY <1>1, <1>2, <3>1, <3>3, CopyParams DEF BInv, BTyped
    <3> QED BY <3>2, <3>3
  <2>3. dstShut' \in BOOLEAN
    BY DEF B!RetryCell, B!Exits, BInv, BTyped
  <2>4. echoed' \in BOOLEAN
    BY <1>1 DEF BInv, BTyped
  <2> QED BY <1>1, <2>1, <2>2, <2>3, <2>4 DEF BInv, BTyped
<1>4. ASSUME ~overlap', ~echoed', NEW e \in B!Dirs PROVE Carries(e)'
  <2>1. Carries(e) /\ d = Up
    BY <1>1, <1>4, DirsFacts DEF BInv
  <2>2. CASE e = d
    <3>1. /\ Len(got[d]) = taken[d] - n[d] + w[d]
          /\ buf[w[d] + 1] = B!Byte(d, taken[d] - n[d] + (w[d] + 1))
      BY <1>1, <1>2, <2>1, <2>2 DEF Carries
    <3>2. taken[d] \in Nat
      BY DEF BInv, BTyped
    <3>3. /\ got'[d] = Append(got[d], B!Byte(d, Len(got[d]) + 1))
          /\ w'[d] = w[d] + 1 /\ n'[d] = n[d] /\ taken'[d] = taken[d]
      BY <1>1, <1>2, <2>1, <3>1, <3>2 DEF BInv, BTyped
    <3>4. Len(got'[d]) = Len(got[d]) + 1 /\ B!InOrder(d)'
      BY <1>2, <2>1, <2>2, <3>3 DEF Carries, B!InOrder
    <3>5. copyPC'[d] = IF w[d] + 1 = n[d] THEN "exited" ELSE "retry"
      BY <1>1 DEF BInv, BTyped
    <3>6. Len(got'[d]) = taken'[d] - n'[d] + w'[d]
      BY <1>2, <3>1, <3>2, <3>3, <3>4
    <3>7. \A i \in 1 .. BufSize :
            w'[d] < i /\ i <= n'[d] => buf'[i] = B!Byte(d, taken'[d] - n'[d] + i)
      BY <1>1, <1>2, <2>1, <2>2, <3>3 DEF Carries
    <3> QED BY <2>2, <3>4, <3>5, <3>6, <3>7 DEF Carries
  <2>3. CASE e # d
    <3>1. UNCHANGED <<got[e], taken[e], copyPC[e], n[e], w[e], buf>>
      BY <1>1, <2>1, <2>3 DEF BInv, BTyped
    <3> QED BY <2>1, <3>1 DEF Carries, B!InOrder
  <2> QED BY <2>2, <2>3
<1> QED BY <1>1, <1>3, <1>4 DEF BInv

\* Every step keeps the invariant.
LEMMA BStepInv == BInv /\ [B!Next]_(B!vars) => BInv'
<1> SUFFICES ASSUME BInv, [B!Next]_(B!vars) PROVE BInv'
  OBVIOUS
<1>1. CASE UNCHANGED B!vars
  BY <1>1 DEF B!vars, B!peers, BInv, BTyped, Carries, B!InOrder
<1>2. ASSUME NEW d \in B!Dirs, B!Copier(d) PROVE BInv'
  <2>1. CASE B!ReadEnds(d) \/ B!WriteFails(d) \/ B!RetryFails(d)
    BY <2>1, ExitsInv DEF B!ReadEnds, B!WriteFails, B!RetryFails, B!peers
  <2> QED BY <1>2, <2>1, ReadDataInv, WriteCellInv, RetryCellInv, TimesOutInv DEF B!Copier
<1> QED BY <1>1, <1>2, EnvironmentInv DEF B!Next

\* The inductive invariant of the bytes.
THEOREM BInvariance == B!Spec => []BInv
BY BInitInv, BStepInv, PTL DEF B!Spec

-----------------------------------------------------------------------------
\* The composition.

\* Each view behaves as it does on its own: a step of the composition is a step
\* of one of the three, or invisible to it.
THEOREM ForwardingCompose == ForwardingSpec => Spec /\ B!Spec /\ M!Spec
<1>1. ForwardingInit => Init /\ B!Init /\ M!Init
  BY DEF ForwardingInit
<1>2. [ForwardingNext]_<<part, vars, bVars, mVars>>
        => [Next]_vars /\ [B!Next]_(B!vars) /\ [M!Next]_(M!vars)
  <2> SUFFICES ASSUME [ForwardingNext]_<<part, vars, bVars, mVars>>
               PROVE  [Next]_vars /\ [B!Next]_(B!vars) /\ [M!Next]_(M!vars)
    OBVIOUS
  <2>1. (UNCHANGED bVars => UNCHANGED B!vars) /\ (UNCHANGED mVars => UNCHANGED M!vars)
    BY DEF bVars, B!vars, B!peers, mVars, M!vars, M!held, M!group
  <2> QED BY <2>1 DEF ForwardingNext
<1> QED BY <1>1, <1>2, PTL DEF ForwardingSpec, Spec, B!Spec, M!Spec

\* A session that is open is tracked by the cleaner, so that it can end
\* (event/loop.go:389-411), in the composition as in TCPRelay.
THEOREM ForwardingTracksOpen == ForwardingSpec => []OpenIsTracked
BY ForwardingCompose, TrackedWhileOpen, PTL

\* The relay implements Sessions in the composition as well.
THEOREM ForwardingImplementsSessions == ForwardingSpec => ImplementsSessions
BY ForwardingCompose, RelayImplementsSessions, PTL

\* TCPCopy: without an overlap in the shared buffer and without
\* handlePartialWrite's echo, each peer gets what the other sent, in order
\* (forward/tcp.go:58-170).
THEOREM IntactOtherwise == ForwardingSpec => []IntactUnlessShared
<1>1. BInv => IntactUnlessShared
  BY DEF BInv, Carries, IntactUnlessShared, B!IntactUnlessShared, B!Faithful
<1> QED BY <1>1, ForwardingCompose, BInvariance, PTL

\* TCPForwarderManager: onClose runs once, and no sooner than the forwarder is
\* closed (forward/tcp.go:172-189).
THEOREM ClosedOnce == ForwardingSpec => []OnCloseOnce
<1>1. MInv => OnCloseOnce
  BY DEF MInv, OnCloseOnce
<1> QED BY <1>1, ForwardingCompose, MInvariance, PTL

\* TCPForwarderManager: an open forwarder is in the table from the end of its
\* Start or Add until its owner removes it, whatever CloseAll does, and one given
\* to Start is not in it once its onClose is done (forward/tcp.go:249-279, 286-295).
THEOREM TableHasTheOpen == ForwardingSpec => []InTableUntilClosed
<1>1. MInv => InTableUntilClosed
  BY DEF MInv, MTyped, HasLeft, Kept, InTableUntilClosed, M!InTableUntilClosed, M!Given
<1> QED BY <1>1, ForwardingCompose, MInvariance, PTL

\* The WaitGroup of the manager is never negative, which would panic, and never
\* counts more than the forwarders (forward/tcp.go:236-254).
LEMMA WaitGroupInRange == Counted => wg \in 0 .. M!Cardinality(Fwds)
<1> SUFFICES ASSUME Counted PROVE wg \in 0 .. M!Cardinality(Fwds)
  OBVIOUS
<1>1. IsFiniteSet(Running) /\ Cardinality(Running) <= Cardinality(Fwds)
  BY ForwarderParams, FS_Subset DEF Running
<1>2. Cardinality(Running) \in Nat /\ Cardinality(Fwds) \in Nat
  BY <1>1, ForwarderParams, FS_CardinalityType
<1>3. M!Cardinality(Fwds) = Cardinality(Fwds)
  BY DEF M!Cardinality, Cardinality
<1> QED BY <1>1, <1>2, <1>3 DEF Counted

\* The variables of the three views keep their types.
THEOREM ForwardingTypeCorrect == ForwardingSpec => []ForwardingTypeOK
<1>1. BInv => B!TypeOK
  <2> SUFFICES ASSUME BInv PROVE B!TypeOK
    OBVIOUS
  <2>1. ASSUME NEW d \in B!Dirs PROVE B!Range(got[d]) \subseteq Cells
    <3>1. got[d] \in Seq(Cells)
      BY DEF BInv, BTyped
    <3> QED BY <3>1 DEF B!Range
  <2>2. \A d \in B!Dirs : 0 <= taken[d] /\ taken[d] <= sent[d] /\ sent[d] <= MaxSent[d]
    BY DEF BInv, BTyped
  <2> QED BY <2>1, <2>2 DEF BInv, BTyped, B!TypeOK, Cells
<1>2. MInv /\ Counted => M!TypeOK
  BY WaitGroupInRange DEF MInv, MTyped, MAt, Counted, M!TypeOK
<1>3. TypeOK /\ BInv /\ MInv /\ Counted => ForwardingTypeOK
  BY <1>1, <1>2 DEF ForwardingTypeOK
<1> QED
  BY <1>3, ForwardingCompose, TypeCorrect, BInvariance, MInvariance, CountedInvariance, PTL

=============================================================================
