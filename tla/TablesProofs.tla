----------------------------- MODULE TablesProofs -----------------------------
(***************************************************************************)
(* Theorems about Tables, for any keys, conns, addresses, descriptors and  *)
(* limits: about the descriptor manager (F), the UDP connection manager    *)
(* (U) and the cache (C), and about their composition.                     *)
(***************************************************************************)
EXTENDS Tables, CleanupManagerProofs, SequenceTheorems, WellFoundedInduction, TLAPS

\* The descriptor manager.

FInfo == [fd : FDs, isTCP : BOOLEAN, refCnt : -MaxRefs .. MaxRefs]

\* What the proofs need of the types: no identifier is above nextID.
FTyped ==
    /\ nextID \in 0 .. MaxIDs
    /\ DOMAIN info \subseteq 1 .. nextID
    /\ info \in [DOMAIN info -> FInfo]
    /\ DOMAIN byFD \subseteq FDs
    /\ byFD \in [DOMAIN byFD -> 1 .. nextID]
    /\ reused \in BOOLEAN /\ decd \in BOOLEAN

\* Each table finds the entry it has in the other one.
TablesInverse ==
    /\ \A id \in DOMAIN info : info[id].fd \in DOMAIN byFD /\ byFD[info[id].fd] = id
    /\ \A fd \in DOMAIN byFD : byFD[fd] \in DOMAIN info /\ info[byFD[fd]].fd = fd

\* Every entry has a reference.
Referenced == \A id \in DOMAIN info : info[id].refCnt > 0

FInv == FTyped /\ (~reused => TablesInverse) /\ (~decd => Referenced)

-----------------------------------------------------------------------------
\* The initial state has the invariant.
LEMMA FInitInv == F!Init => FInv
<1> SUFFICES ASSUME F!Init PROVE FInv
  OBVIOUS
<1>1. DOMAIN info = {} /\ DOMAIN byFD = {}
  BY DEF F!Init
<1>2. info = [z \in DOMAIN info |-> info[z]] /\ byFD = [z \in DOMAIN byFD |-> byFD[z]]
  BY DEF F!Init
<1>3. /\ info \in [DOMAIN info -> FInfo] /\ byFD \in [DOMAIN byFD -> 1 .. nextID]
      /\ DOMAIN info \subseteq 1 .. nextID /\ DOMAIN byFD \subseteq FDs
  BY <1>1, <1>2
<1>4. nextID \in 0 .. MaxIDs /\ reused \in BOOLEAN /\ decd \in BOOLEAN
  <2>1. nextID = 0
    BY DEF F!Init
  <2>2. reused \in BOOLEAN /\ decd \in BOOLEAN
    <3>1. reused = FALSE /\ decd = FALSE
      BY Zenon DEF F!Init
    <3> QED
      BY <3>1, Zenon
  <2> QED
    BY <2>1, <2>2, TableBounds
<1> QED
  BY <1>1, <1>3, <1>4 DEF FInv, FTyped, TablesInverse, Referenced

\* Create: the new identifier is above all others, and an entry it replaces in
\* the second table belongs to a descriptor that was registered.
LEMMA CreateInv ==
    ASSUME FInv, NEW fd \in FDs, F!Create(fd)
    PROVE  FInv'
<1> DEFINE id == nextID + 1
           new == [fd |-> fd, isTCP |-> FALSE, refCnt |-> 1]
<1>1. /\ nextID' = id /\ info' = F!With(info, id, new) /\ byFD' = F!With(byFD, fd, id)
      /\ nextID \in Nat /\ id \notin DOMAIN info /\ decd' = decd
  <2>1. /\ nextID' = id /\ info' = F!With(info, id, new) /\ byFD' = F!With(byFD, fd, id)
        /\ decd' = decd
    BY Zenon DEF F!Create, F!Fresh
  <2>2. nextID \in Nat /\ id \notin DOMAIN info
    BY DEF FInv, FTyped
  <2> QED
    BY <2>1, <2>2
<1>2. id \in Nat /\ new \in FInfo /\ new.fd = fd /\ new.refCnt = 1
  BY <1>1, TableBounds DEF FInfo
<1> HIDE DEF id, new
<1>3. /\ DOMAIN info' = DOMAIN info \cup {id}
      /\ \A z \in DOMAIN info' : info'[z] = IF z = id THEN new ELSE info[z]
  BY <1>1 DEF F!With
<1>4. /\ DOMAIN byFD' = DOMAIN byFD \cup {fd}
      /\ \A z \in DOMAIN byFD' : byFD'[z] = IF z = fd THEN id ELSE byFD[z]
  BY <1>1 DEF F!With
<1>5. FTyped'
  <2>1. info' \in [DOMAIN info' -> FInfo]
    <3>1. \A z \in DOMAIN info' : info'[z] \in FInfo
      BY <1>3, <1>2 DEF FInv, FTyped
    <3>2. info' = [z \in DOMAIN info' |-> info'[z]]
      BY <1>1, <1>3 DEF F!With
    <3> QED
      BY <3>1, <3>2
  <2>2. byFD' \in [DOMAIN byFD' -> 1 .. nextID']
    <3>1. \A z \in DOMAIN byFD' : byFD'[z] \in 1 .. nextID'
      BY <1>1, <1>2, <1>4 DEF FInv, FTyped, id
    <3>2. byFD' = [z \in DOMAIN byFD' |-> byFD'[z]]
      BY <1>1, <1>4 DEF F!With
    <3> QED
      BY <3>1, <3>2
  <2>3. nextID' \in 0 .. MaxIDs /\ DOMAIN info' \subseteq 1 .. nextID'
    BY <1>1, <1>3, TableBounds DEF FInv, FTyped, F!Create, id
  <2>4. reused' \in BOOLEAN /\ decd' \in BOOLEAN
    <3>1. reused' \in BOOLEAN
      BY Zenon DEF F!Create
    <3> QED
      BY <1>1, <3>1 DEF FInv, FTyped
  <2>5. DOMAIN byFD' \subseteq FDs
    BY <1>4 DEF FInv, FTyped
  <2> QED
    BY <2>1, <2>2, <2>3, <2>4, <2>5 DEF FTyped
<1>6. ASSUME ~reused' PROVE TablesInverse'
  <2>1. ~reused /\ \A other \in DOMAIN info : info[other].fd # fd
    BY <1>6, Zenon DEF F!Create
  <2>2. fd \notin DOMAIN byFD
    BY <2>1 DEF FInv, TablesInverse
  <2> QED
    BY <1>1, <1>2, <1>3, <1>4, <2>1, <2>2 DEF FInv, TablesInverse
<1>7. ASSUME ~decd' PROVE Referenced'
  BY <1>1, <1>2, <1>3, <1>7 DEF FInv, Referenced
<1> QED
  BY <1>5, <1>6, <1>7 DEF FInv

\* SetTCP, SetUDP, IncRef, DecRef and a Close that is not the last leave the
\* keys and descriptors of both tables as they are.
LEMMA CountInv ==
    ASSUME FInv, NEW id \in DOMAIN info, NEW entry \in FInfo, entry.fd = info[id].fd,
           decd' \in BOOLEAN, ~decd' => entry.refCnt > 0 /\ ~decd,
           info' = [info EXCEPT ![id] = entry], UNCHANGED <<nextID, byFD, reused>>
    PROVE  FInv'
<1>1. DOMAIN info' = DOMAIN info /\ \A z \in DOMAIN info : info'[z].fd = info[z].fd
  BY DEF FInv, FTyped
<1>2. FTyped'
  BY DEF FInv, FTyped
<1>3. ~reused' => TablesInverse'
  BY <1>1 DEF FInv, TablesInverse
<1>4. ~decd' => Referenced'
  BY <1>1 DEF FInv, FTyped, Referenced
<1> QED
  BY <1>2, <1>3, <1>4 DEF FInv

\* SetTCP and SetUDP change the protocol of an entry only.
LEMMA SetProtoInv ==
    ASSUME FInv, NEW id, NEW isTCP \in BOOLEAN, F!SetProto(id, isTCP)
    PROVE  FInv'
<1> DEFINE entry == [info[id] EXCEPT !.isTCP = isTCP]
<1>1. id \in DOMAIN info /\ info[id] \in FInfo
  BY DEF F!SetProto, FInv, FTyped
<1>2. entry \in FInfo /\ entry.fd = info[id].fd /\ entry.refCnt = info[id].refCnt
  BY <1>1 DEF FInfo
<1>3. info' = [info EXCEPT ![id] = entry] /\ UNCHANGED <<nextID, byFD, reused, decd>>
  BY DEF F!SetProto
<1>4. decd' \in BOOLEAN /\ (~decd' => entry.refCnt > 0 /\ ~decd)
  BY <1>1, <1>2, <1>3 DEF FInv, FTyped, Referenced
<1> HIDE DEF entry
<1> QED
  BY <1>1, <1>2, <1>3, <1>4, CountInv

\* IncRef leaves a reference where there was one.
LEMMA IncRefInv ==
    ASSUME FInv, NEW id, F!IncRef(id)
    PROVE  FInv'
<1> DEFINE entry == [info[id] EXCEPT !.refCnt = @ + 1]
<1>1. id \in DOMAIN info /\ info[id] \in FInfo
  BY DEF F!IncRef, FInv, FTyped
<1>2. entry \in FInfo /\ entry.fd = info[id].fd /\ entry.refCnt = info[id].refCnt + 1
  BY <1>1, TableBounds DEF FInfo, F!IncRef
<1>3. info' = [info EXCEPT ![id] = entry] /\ UNCHANGED <<nextID, byFD, reused, decd>>
  BY DEF F!IncRef
<1>4. decd' \in BOOLEAN /\ (~decd' => entry.refCnt > 0 /\ ~decd)
  BY <1>1, <1>2, <1>3 DEF FInv, FTyped, Referenced, FInfo
<1> HIDE DEF entry
<1> QED
  BY <1>1, <1>2, <1>3, <1>4, CountInv

\* DecRef is the one call after which an entry may have no reference.
LEMMA DecRefInv ==
    ASSUME FInv, NEW id, F!DecRef(id)
    PROVE  FInv'
<1> DEFINE entry == [info[id] EXCEPT !.refCnt = @ - 1]
<1>1. id \in DOMAIN info /\ info[id] \in FInfo
  BY DEF F!DecRef, FInv, FTyped
<1>2. entry \in FInfo /\ entry.fd = info[id].fd
  BY <1>1, TableBounds DEF FInfo, F!DecRef
<1>3. /\ info' = [info EXCEPT ![id] = entry] /\ decd' /\ decd' \in BOOLEAN
      /\ UNCHANGED <<nextID, byFD, reused>>
  BY DEF F!DecRef
<1> HIDE DEF entry
<1> QED
  BY <1>1, <1>2, <1>3, CountInv

\* Close: the last reference takes one entry out of each table.
LEMMA CloseInv ==
    ASSUME FInv, NEW id, F!Close(id)
    PROVE  FInv'
<1>1. id \in DOMAIN info /\ info[id] \in FInfo
  BY DEF F!Close, FInv, FTyped
<1>2. CASE info[id].refCnt > 1
  <2> DEFINE entry == [info[id] EXCEPT !.refCnt = @ - 1]
  <2>1. entry \in FInfo /\ entry.fd = info[id].fd /\ entry.refCnt = info[id].refCnt - 1
    BY <1>1, <1>2, TableBounds DEF FInfo
  <2>2. info' = [info EXCEPT ![id] = entry] /\ UNCHANGED <<nextID, byFD, reused, decd>>
    BY <1>2 DEF F!Close
  <2>3. decd' \in BOOLEAN /\ (~decd' => entry.refCnt > 0 /\ ~decd)
    BY <1>1, <1>2, <2>1, <2>2 DEF FInfo, FInv, FTyped
  <2> HIDE DEF entry
  <2> QED
    BY <1>1, <2>1, <2>2, <2>3, CountInv
<1>3. CASE ~(info[id].refCnt > 1)
  <2> DEFINE fd == info[id].fd
  <2>1. /\ info' = F!Without(info, id) /\ byFD' = F!Without(byFD, fd)
        /\ UNCHANGED <<nextID, reused, decd>>
    BY <1>3 DEF F!Close
  <2>2. DOMAIN info' = DOMAIN info \ {id} /\ \A z \in DOMAIN info' : info'[z] = info[z]
    BY <2>1 DEF F!Without, F!Restrict
  <2>3. DOMAIN byFD' = DOMAIN byFD \ {fd} /\ \A z \in DOMAIN byFD' : byFD'[z] = byFD[z]
    BY <2>1 DEF F!Without, F!Restrict
  <2>4. FTyped'
    <3>1. info' = [z \in DOMAIN info' |-> info'[z]] /\ byFD' = [z \in DOMAIN byFD' |-> byFD'[z]]
      BY <2>1, <2>2, <2>3 DEF F!Without, F!Restrict
    <3> QED
      BY <2>1, <2>2, <2>3, <3>1 DEF FInv, FTyped
  <2>5. ~reused' => TablesInverse'
    BY <1>1, <2>1, <2>2, <2>3 DEF FInv, TablesInverse
  <2>6. ~decd' => Referenced'
    BY <2>1, <2>2 DEF FInv, Referenced
  <2> QED
    BY <2>4, <2>5, <2>6 DEF FInv
<1> QED
  BY <1>2, <1>3

\* Every step keeps the invariant.
LEMMA FStepInv == FInv /\ [F!Next]_(F!vars) => FInv'
<1> SUFFICES ASSUME FInv, [F!Next]_(F!vars) PROVE FInv'
  OBVIOUS
<1>1. CASE UNCHANGED F!vars
  BY <1>1 DEF F!vars, FInv, FTyped, TablesInverse, Referenced
<1>2. CASE F!Next
  BY <1>2, CreateInv, SetProtoInv, IncRefInv, DecRefInv, CloseInv DEF F!Next
<1> QED
  BY <1>1, <1>2

\* The inductive invariant of the descriptor manager.
THEOREM FInvariance == F!Spec => []FInv
BY FInitInv, FStepInv, PTL DEF F!Spec

-----------------------------------------------------------------------------
\* The UDP connection manager.

\* A set of natural numbers that is not empty has a least element.
LEMMA LeastElement ==
    ASSUME NEW S \in SUBSET Nat, S # {}
    PROVE  \E x \in S : \A y \in S : x <= y
<1> DEFINE R == {ss \in Nat \X Nat : ss[1] < ss[2]}
<1>1. IsWellFoundedOn(R, Nat)
  <2>1. OpToRel(<, Nat) = R
    BY DEF OpToRel
  <2> QED
    BY <2>1, NatLessThanWellFounded
<1>2. PICK x \in S : \A y \in S : <<y, x>> \notin R
  <2> HIDE DEF R
  <2> QED
    BY <1>1, WFMin
<1>3. ASSUME NEW y \in S PROVE x =< y
  <2>1. x \in Nat /\ y \in Nat /\ <<y, x>> \notin R
    BY <1>2
  <2>2. y < x => <<y, x>> \in R
    BY <2>1
  <2> QED
    BY <2>1, <2>2
<1> QED
  BY <1>3

\* Min is that element.
LEMMA MinInSet ==
    ASSUME NEW S \in SUBSET Nat, S # {}
    PROVE  U!Min(S) \in S
BY LeastElement DEF U!Min

\* The index the loop of Remove stops at holds the conn it looks for.
LEMMA IndexFound ==
    ASSUME NEW S, NEW s \in Seq(S), NEW c, U!Contains(s, c)
    PROVE  LET i == U!SelectInSeq(s, LAMBDA x : x = c)
           IN i \in 1 .. Len(s) /\ s[i] = c
<1> DEFINE I == {i \in 1 .. Len(s) : s[i] = c}
<1>1. I # {} /\ I \in SUBSET Nat
  BY LenProperties DEF U!Contains
<1>2. U!Min(I) \in I
  BY <1>1, MinInSet
<1> QED
  BY <1>1, <1>2 DEF U!SelectInSeq

\* What swap-and-pop leaves at each place.
LEMMA SwapAndPopCells ==
    ASSUME NEW S, NEW s \in Seq(S), NEW i \in 1 .. Len(s)
    PROVE  /\ U!SwapAndPop(s, i) \in Seq(S)
           /\ Len(U!SwapAndPop(s, i)) = Len(s) - 1
           /\ \A j \in 1 .. Len(s) - 1 :
                U!SwapAndPop(s, i)[j] = IF j = i THEN s[Len(s)] ELSE s[j]
<1> DEFINE t == [s EXCEPT ![i] = s[Len(s)]]
<1>1. t \in Seq(S) /\ Len(t) = Len(s)
  BY LenProperties, ElementOfSeq
<1>2. \A j \in 1 .. Len(s) : t[j] = IF j = i THEN s[Len(s)] ELSE s[j]
  BY LenProperties
<1> HIDE DEF t
<1>3. U!SwapAndPop(s, i) = SubSeq(t, 1, Len(s) - 1)
  BY <1>1 DEF U!SwapAndPop, U!Front, U!Last, t
<1>4. Len(s) \in Nat /\ Len(s) # 0
  BY LenProperties
<1> QED
  BY <1>1, <1>2, <1>3, <1>4, SubSeqProperties

\* Remove takes at most one entry of c out of the list, and only that.
LEMMA UnlistProperties ==
    ASSUME NEW S, NEW s \in Seq(S), NEW c
    PROVE  /\ U!Unlist(s, c) \in Seq(S)
           /\ Len(U!Unlist(s, c)) <= Len(s)
           /\ U!ToSet(s) \ {c} \subseteq U!ToSet(U!Unlist(s, c))
           /\ U!IsInjective(s) => /\ U!IsInjective(U!Unlist(s, c))
                               /\ U!ToSet(U!Unlist(s, c)) = U!ToSet(s) \ {c}
<1>1. CASE ~U!Contains(s, c)
  <2>1. U!Unlist(s, c) = s /\ c \notin U!ToSet(s)
    BY <1>1, LenProperties DEF U!Unlist, U!Contains, U!ToSet
  <2> QED
    BY <2>1, LenProperties
<1>2. CASE U!Contains(s, c)
  <2> DEFINE i == U!SelectInSeq(s, LAMBDA x : x = c)
             u == U!SwapAndPop(s, i)
  <2>1. i \in 1 .. Len(s) /\ s[i] = c
    BY <1>2, IndexFound
  <2>2. U!Unlist(s, c) = u
    BY <1>2 DEF U!Unlist
  <2> HIDE DEF i
  <2>3. /\ u \in Seq(S) /\ Len(u) = Len(s) - 1 /\ Len(s) \in Nat
        /\ \A j \in 1 .. Len(s) - 1 : u[j] = IF j = i THEN s[Len(s)] ELSE s[j]
    BY <2>1, SwapAndPopCells, LenProperties
  <2> HIDE DEF u
  <2>4. DOMAIN u = 1 .. Len(s) - 1 /\ DOMAIN s = 1 .. Len(s)
    BY <2>3, LenProperties
  <2>5. ASSUME NEW x \in U!ToSet(s), x # c PROVE x \in U!ToSet(u)
    <3>1. PICK k \in 1 .. Len(s) : s[k] = x
      BY <2>4 DEF U!ToSet
    <3>2. k # i
      BY <2>1, <3>1, <2>5
    <3>3. CASE k = Len(s)
      <4>1. i \in 1 .. Len(s) - 1 /\ u[i] = x
        BY <2>1, <2>3, <3>1, <3>2, <3>3
      <4> QED
        BY <4>1, <2>4 DEF U!ToSet
    <3>4. CASE k # Len(s)
      <4>1. k \in 1 .. Len(s) - 1 /\ u[k] = x
        BY <2>3, <3>1, <3>2, <3>4
      <4> QED
        BY <4>1, <2>4 DEF U!ToSet
    <3> QED
      BY <3>3, <3>4
  <2>6. ASSUME U!IsInjective(s) PROVE U!IsInjective(u) /\ U!ToSet(u) \subseteq U!ToSet(s) \ {c}
    <3>1. \A j, k \in 1 .. Len(s) : s[j] = s[k] => j = k
      BY <2>4, <2>6 DEF U!IsInjective
    <3>2. ASSUME NEW j \in 1 .. Len(s) - 1, NEW k \in 1 .. Len(s) - 1, u[j] = u[k]
          PROVE  j = k
      BY <2>1, <2>3, <3>1, <3>2
    <3>3. \A j \in 1 .. Len(s) - 1 : \E k \in 1 .. Len(s) : k # i /\ u[j] = s[k]
      BY <2>1, <2>3
    <3>4. \A k \in 1 .. Len(s) : k # i => s[k] # c
      BY <2>1, <3>1
    <3> QED
      BY <2>4, <3>2, <3>3, <3>4 DEF U!IsInjective, U!ToSet
  <2> QED
    BY <2>2, <2>3, <2>5, <2>6
<1> QED
  BY <1>1, <1>2

-----------------------------------------------------------------------------
\* The map has each conn under its own address.
UTyped ==
    /\ byAddr \in [DOMAIN byAddr -> Conns]
    /\ \A a \in DOMAIN byAddr : Addr[byAddr[a]] = a
    /\ list \in Seq(Conns)
    /\ foreign \in BOOLEAN

\* The invariant is inductive with the types alone.
UInv == UTyped /\ U!StrandedOnlyByStaleRemove

\* The initial state has the invariant.
LEMMA UInitInv == U!Init => UInv
<1> SUFFICES ASSUME U!Init PROVE UInv
  OBVIOUS
<1>1. DOMAIN byAddr = {} /\ list = <<>> /\ U!Found = {} /\ U!ToSet(list) = {}
  BY DEF U!Init, U!Found, U!Range, U!ToSet
<1>2. UTyped
  <2>1. byAddr \in Seq(Conns) /\ Len(byAddr) = 0
    BY DEF U!Init
  <2>2. byAddr \in [DOMAIN byAddr -> Conns]
    <3>1. byAddr \in [1 .. Len(byAddr) -> Conns] /\ DOMAIN byAddr = 1 .. Len(byAddr)
      BY <2>1, LenProperties
    <3> QED
      BY <3>1
  <2>3. list \in Seq(Conns)
    BY DEF U!Init
  <2>4. foreign \in BOOLEAN
    BY DEF U!Init
  <2> QED
    BY <1>1, <2>2, <2>3, <2>4 DEF UTyped
<1>3. Len(list) = 0 /\ U!IsInjective(list)
  BY <1>1 DEF U!IsInjective
<1> QED
  BY <1>1, <1>2, <1>3, ListLimitNat DEF UInv, U!StrandedOnlyByStaleRemove

\* Add puts a conn into both, which neither has yet under that address.
LEMMA AddInv ==
    ASSUME UInv, NEW c \in Conns, U!Add(c)
    PROVE  UInv'
<1>1. /\ DOMAIN byAddr' = DOMAIN byAddr \cup {Addr[c]} /\ byAddr'[Addr[c]] = c
      /\ \A a \in DOMAIN byAddr : byAddr'[a] = byAddr[a]
      /\ Addr[c] \notin DOMAIN byAddr /\ Len(list) < ListLimit
      /\ list' = Append(list, c) /\ foreign' = foreign
  BY DEF U!Add
<1>2. byAddr' = [a \in DOMAIN byAddr' |-> byAddr'[a]]
  BY DEF U!Add
<1>3. /\ list' \in Seq(Conns) /\ Len(list') = Len(list) + 1 /\ Len(list) \in Nat
      /\ \A j \in 1 .. Len(list) : list'[j] = list[j]
      /\ list'[Len(list) + 1] = c
      /\ DOMAIN list' = 1 .. Len(list) + 1 /\ DOMAIN list = 1 .. Len(list)
  BY <1>1, LenProperties, AppendProperties DEF UInv, UTyped
<1>4. UTyped'
  BY <1>1, <1>2, <1>3 DEF UInv, UTyped
<1>5. U!Found' = U!Found \cup {c} /\ c \notin U!Found
  BY <1>1 DEF U!Found, U!Range, UInv, UTyped
<1>6. U!ToSet(list') = U!ToSet(list) \cup {c}
  <2>1. U!ToSet(list) = {list[j] : j \in 1 .. Len(list)}
    BY <1>3 DEF U!ToSet
  <2>2. U!ToSet(list') = {list'[j] : j \in 1 .. Len(list) + 1}
    BY <1>3 DEF U!ToSet
  <2> QED
    BY <1>3, <2>1, <2>2
<1>7. ASSUME ~foreign PROVE U!IsInjective(list')
  <2>1. U!IsInjective(list) /\ c \notin U!ToSet(list)
    BY <1>5, <1>7 DEF UInv, U!StrandedOnlyByStaleRemove
  <2> QED
    BY <1>3, <2>1 DEF U!IsInjective, U!ToSet
<1> QED
  BY <1>1, <1>3, <1>4, <1>5, <1>6, <1>7, ListLimitNat DEF UInv, U!StrandedOnlyByStaleRemove

\* Remove takes a conn out of both, and out of the list only what it was given.
LEMMA RemoveConnInv ==
    ASSUME UInv, NEW c \in Conns, U!RemoveConn(c)
    PROVE  UInv'
<1>1. /\ DOMAIN byAddr' = DOMAIN byAddr \ {Addr[c]}
      /\ \A a \in DOMAIN byAddr' : byAddr'[a] = byAddr[a]
      /\ byAddr' = [a \in DOMAIN byAddr' |-> byAddr'[a]]
      /\ list' = U!Unlist(list, c)
  BY DEF U!RemoveConn, U!Restrict
<1>2. foreign' \in BOOLEAN /\ (~foreign' => ~foreign /\ c \in U!Found)
  BY Zenon DEF U!RemoveConn, UInv, UTyped
<1>3. /\ list' \in Seq(Conns) /\ Len(list') <= Len(list)
      /\ Len(list) \in Nat /\ Len(list') \in Nat
      /\ U!ToSet(list) \ {c} \subseteq U!ToSet(list')
      /\ U!IsInjective(list) => U!IsInjective(list') /\ U!ToSet(list') = U!ToSet(list) \ {c}
  BY <1>1, UnlistProperties, LenProperties DEF UInv, UTyped
<1>4. UTyped'
  BY <1>1, <1>2, <1>3 DEF UInv, UTyped
<1>5. U!Found' \subseteq U!Found \ {c}
  BY <1>1 DEF U!Found, U!Range, UInv, UTyped
<1>6. ASSUME c \in U!Found PROVE U!Found \ {c} \subseteq U!Found'
  BY <1>1, <1>6 DEF U!Found, U!Range, UInv, UTyped
<1>7. U!Found \subseteq U!ToSet(list) /\ Len(list) <= ListLimit
  BY DEF UInv, U!StrandedOnlyByStaleRemove
<1>8. U!Found' \subseteq U!ToSet(list') /\ Len(list') <= ListLimit
  BY <1>3, <1>5, <1>7, ListLimitNat
<1>9. ASSUME ~foreign' PROVE U!IsInjective(list') /\ U!ToSet(list') = U!Found'
  <2>1. ~foreign /\ c \in U!Found
    BY <1>2, <1>9
  <2>2. U!IsInjective(list) /\ U!ToSet(list) = U!Found
    BY <2>1 DEF UInv, U!StrandedOnlyByStaleRemove
  <2> QED
    BY <1>3, <1>5, <1>6, <2>1, <2>2
<1> QED
  BY <1>4, <1>8, <1>9 DEF UInv, U!StrandedOnlyByStaleRemove

\* Every step keeps the invariant.
LEMMA UStepInv == UInv /\ [U!Next]_(U!vars) => UInv'
<1> SUFFICES ASSUME UInv, [U!Next]_(U!vars) PROVE UInv'
  OBVIOUS
<1>1. CASE UNCHANGED U!vars
  BY <1>1 DEF U!vars, UInv, UTyped, U!StrandedOnlyByStaleRemove, U!Found
<1>2. CASE U!Next
  BY <1>2, AddInv, RemoveConnInv DEF U!Next
<1> QED
  BY <1>1, <1>2

\* The inductive invariant of the connection manager.
THEOREM UInvariance == U!Spec => []UInv
BY UInitInv, UStepInv, PTL DEF U!Spec

-----------------------------------------------------------------------------
\* The cache.

\* The operators of LRU are those of the instance C.
LEMMA SameOperators ==
    /\ \A s : C!ToSet(s) = ToSet(s) /\ C!Distinct(s) = Distinct(s)
    /\ \A s, k : /\ C!Without(s, k) = Without(s, k)
                 /\ C!PushFront(s, k) = PushFront(s, k)
                 /\ C!MoveToFront(s, k) = MoveToFront(s, k)
    /\ \A s, n : C!Trimmed(s, n) = Trimmed(s, n) /\ C!Evicted(s, n) = Evicted(s, n)
    /\ \A s, e, t : C!ExpiredTail(s, e, t) = ExpiredTail(s, e, t)
    /\ \A n, ratio, min : C!CleanQuota(n, ratio, min) = CleanQuota(n, ratio, min)
<1>1. \A s : C!ToSet(s) = ToSet(s) /\ C!Distinct(s) = Distinct(s)
  BY DEF C!ToSet, ToSet, C!Distinct, Distinct
<1>2. \A s, i : C!RemoveAt(s, i) = RemoveAt(s, i)
  BY DEF C!RemoveAt, RemoveAt
<1>3. \A s, k : C!Without(s, k) = Without(s, k)
  BY <1>1, <1>2 DEF C!Without, Without
<1>4. \A s, k : C!PushFront(s, k) = PushFront(s, k)
  BY DEF C!PushFront, PushFront
<1>5. \A s, k : C!MoveToFront(s, k) = MoveToFront(s, k)
  BY <1>1, <1>3, <1>4 DEF C!MoveToFront, MoveToFront
<1>6. \A s, n : C!Trimmed(s, n) = Trimmed(s, n)
  BY DEF C!Trimmed, Trimmed
<1>7. \A s, n : C!Evicted(s, n) = Evicted(s, n)
  BY <1>1, <1>6 DEF C!Evicted, Evicted
<1>8. \A s, e, t : C!ExpiredTail(s, e, t) = ExpiredTail(s, e, t)
  BY DEF C!ExpiredTail, ExpiredTail
<1>9. \A n, ratio, min : C!CleanQuota(n, ratio, min) = CleanQuota(n, ratio, min)
  BY DEF C!CleanQuota, CleanQuota
<1> QED BY <1>1, <1>3, <1>4, <1>5, <1>6, <1>7, <1>8, <1>9

\* The scan of RemoveExpired stops, inside the list.
LEMMA ExpiredTailBound ==
    ASSUME NEW s \in Seq(UDPKeys), NEW e \in [UDPKeys -> Nat], NEW t \in Nat
    PROVE  ExpiredTail(s, e, t) \in 0 .. Len(s)
<1> DEFINE Stops(m) == \A i \in m + 1 .. Len(s) : e[s[i]] <= t
           R == {k \in 0 .. Len(s) : Stops(k)}
           Is(n) == /\ \A i \in (Len(s) - n + 1) .. Len(s) : e[s[i]] <= t
                    /\ n < Len(s) => e[s[Len(s) - n]] > t
<1>1. Len(s) \in Nat /\ \A i \in 1 .. Len(s) : s[i] \in UDPKeys
  BY LenProperties, ElementOfSeq
<1>2. R \in SUBSET Nat /\ Len(s) \in R
  BY <1>1
<1> HIDE DEF R
<1>3. PICK m \in R : \A k \in R : m <= k
  BY <1>2, LeastElement
<1>3a. m \in 0 .. Len(s) /\ Stops(m) /\ \A k \in 0 .. Len(s) : k < m => ~Stops(k)
  <2>1. \A k : k \in R <=> k \in 0 .. Len(s) /\ Stops(k)
    BY DEF R
  <2>2. m \in 0 .. Len(s) /\ Stops(m)
    BY <1>3, <2>1
  <2>3. ASSUME NEW k \in 0 .. Len(s), k < m PROVE ~Stops(k)
    <3>1. k \notin R
      BY <1>1, <1>3, <2>2, <2>3
    <3> QED BY <2>1, <3>1
  <2> QED BY <2>2, <2>3
<1>4. Len(s) - m \in 0 .. Len(s) /\ Len(s) - (Len(s) - m) = m
  BY <1>1, <1>3a
<1>5. ASSUME m > 0 PROVE e[s[m]] > t
  <2>1. m \in 1 .. Len(s) /\ m - 1 \in 0 .. Len(s) /\ m - 1 < m
    BY <1>1, <1>3a, <1>5
  <2>2. ~Stops(m - 1) /\ Stops(m)
    BY <1>3a, <2>1
  <2>3. PICK i \in m .. Len(s) : ~(e[s[i]] <= t)
    BY <2>1, <2>2
  <2>4. i = m
    BY <2>1, <2>2, <2>3
  <2>5. e[s[m]] \in Nat
    BY <1>1, <2>1
  <2> QED BY <2>3, <2>4, <2>5
<1>6. Is(Len(s) - m)
  BY <1>1, <1>3a, <1>4, <1>5
<1>7. \E n \in 0 .. Len(s) : Is(n)
  BY <1>4, <1>6
<1> QED BY <1>7 DEF ExpiredTail

\* numToClean is not more than there is.
LEMMA QuotaBound ==
    ASSUME NEW len \in Nat, NEW ratio \in Int
    PROVE  CleanQuota(len, ratio, MinClear) \in 0 .. len
<1>1. CASE len = 0 \/ ratio <= 0
  BY <1>1 DEF CleanQuota
<1>2. CASE ~(len = 0 \/ ratio <= 0)
  <2>1. len \div ratio \in Nat
    BY <1>2
  <2> QED BY <1>2, <2>1, ClearParams DEF CleanQuota
<1> QED BY <1>1, <1>2

\* A list without its last n elements.
LEMMA PrefixProperties ==
    ASSUME NEW S, NEW s \in Seq(S), NEW n \in 0 .. Len(s), Distinct(s)
    PROVE  LET kept == SubSeq(s, 1, Len(s) - n)
               out == ToSet(SubSeq(s, Len(s) - n + 1, Len(s)))
           IN /\ kept \in Seq(S) /\ Distinct(kept)
              /\ out \subseteq ToSet(s) /\ ToSet(kept) = ToSet(s) \ out
              /\ \A e : Ordered(s, e) => Ordered(kept, e)
<1> DEFINE m == Len(s) - n
           kept == SubSeq(s, 1, m)
           cut == SubSeq(s, m + 1, Len(s))
<1>1. /\ Len(s) \in Nat /\ DOMAIN s = 1 .. Len(s) /\ \A i \in 1 .. Len(s) : s[i] \in S
      /\ m \in 0 .. Len(s)
  BY LenProperties, ElementOfSeq
<1> HIDE DEF m
<1>2. kept \in Seq(S) /\ Len(kept) = m /\ \A i \in 1 .. m : kept[i] = s[i]
  <2>1. \A i \in 1 .. m : s[i] \in S
    BY <1>1
  <2> QED BY <1>1, <2>1, SubSeqProperties
<1>3. cut \in Seq(S) /\ Len(cut) = Len(s) - m /\ \A i \in 1 .. Len(s) - m : cut[i] = s[m + i]
  <2>1. \A i \in m + 1 .. Len(s) : s[i] \in S
    BY <1>1
  <2>2. /\ cut \in Seq(S)
        /\ Len(cut) = IF m + 1 <= Len(s) THEN Len(s) - (m + 1) + 1 ELSE 0
        /\ \A i \in 1 .. Len(s) - (m + 1) + 1 : cut[i] = s[(m + 1) + i - 1]
    BY <1>1, <2>1, SubSeqProperties
  <2> HIDE DEF cut
  <2>3. Len(s) - (m + 1) + 1 = Len(s) - m
    BY <1>1
  <2>4. Len(cut) = Len(s) - m
    <3>1. Len(s) \in Nat /\ m \in 0 .. Len(s)
      BY <1>1
    <3>2. Len(cut) = IF m + 1 <= Len(s) THEN Len(s) - (m + 1) + 1 ELSE 0
      BY <2>2
    <3>3. CASE m = Len(s)
      <4>1. ~(m + 1 <= Len(s)) /\ Len(s) - m = 0
        BY <3>1, <3>3
      <4> QED BY <3>2, <4>1
    <3>4. CASE m # Len(s)
      <4>1. m + 1 <= Len(s)
        BY <3>1, <3>4
      <4> QED BY <2>3, <3>2, <4>1
    <3> QED BY <3>3, <3>4
  <2>5. \A i \in 1 .. Len(s) - m : cut[i] = s[m + i]
    <3> SUFFICES ASSUME NEW i \in 1 .. Len(s) - m PROVE cut[i] = s[m + i]
      OBVIOUS
    <3>1. (m + 1) + i - 1 = m + i
      BY <1>1
    <3> QED BY <2>2, <2>3, <3>1
  <2> QED BY <2>2, <2>4, <2>5
<1> HIDE DEF kept, cut
<1>4. DOMAIN kept = 1 .. m /\ DOMAIN cut = 1 .. Len(s) - m
  BY <1>2, <1>3, LenProperties
<1>5. \A i \in DOMAIN kept : i \in DOMAIN s /\ kept[i] = s[i]
  BY <1>1, <1>2, <1>4
<1>6. ToSet(kept) = {s[i] : i \in 1 .. m}
  BY <1>2, <1>4 DEF ToSet
<1>7. ToSet(cut) = {s[i] : i \in m + 1 .. Len(s)}
  <2>1. ASSUME NEW i \in m + 1 .. Len(s) PROVE s[i] \in ToSet(cut)
    <3>1. i - m \in 1 .. Len(s) - m /\ m + (i - m) = i
      BY <1>1
    <3> QED BY <1>3, <1>4, <3>1 DEF ToSet
  <2>2. ASSUME NEW i \in DOMAIN cut PROVE m + i \in m + 1 .. Len(s) /\ cut[i] = s[m + i]
    BY <1>1, <1>3, <1>4
  <2> QED BY <2>1, <2>2 DEF ToSet
<1>8. ToSet(cut) \subseteq ToSet(s) /\ ToSet(kept) = ToSet(s) \ ToSet(cut)
  <2>1. ToSet(s) = {s[i] : i \in 1 .. Len(s)}
    BY <1>1 DEF ToSet
  <2>2. \A i, j \in 1 .. Len(s) : s[i] = s[j] => i = j
    BY <1>1 DEF Distinct
  <2>3. \A i \in 1 .. Len(s) : i \in 1 .. m \/ i \in m + 1 .. Len(s)
    BY <1>1
  <2>4. \A i \in 1 .. m : i \in 1 .. Len(s) /\ i \notin m + 1 .. Len(s)
    BY <1>1
  <2>5. \A i \in m + 1 .. Len(s) : i \in 1 .. Len(s)
    BY <1>1
  <2> QED BY <1>6, <1>7, <2>1, <2>2, <2>3, <2>4, <2>5
<1>9. Distinct(kept) /\ \A e : Ordered(s, e) => Ordered(kept, e)
  BY <1>5 DEF Distinct, Ordered
<1> QED BY <1>2, <1>8, <1>9 DEF m, kept, cut

\* No two keys of the list were used last by the same call, and no key was
\* used by a call yet to come.
LastUses ==
    /\ \A k \in UDPKeys : lastUse[k] <= uses
    /\ Ordered(cLi, lastUse)
    /\ \A x, y \in ToSet(cLi) : x # y => lastUse[x] # lastUse[y]

CInv ==
    /\ C!TypeOK
    /\ Distinct(cLi) /\ cMp = ToSet(cLi)
    /\ CallbackPerNode
    /\ LastUses

\* The initial state has the invariant.
LEMMA CInitInv == C!Init => CInv
<1> SUFFICES ASSUME C!Init PROVE CInv
  OBVIOUS
<1>1. cLi \in Seq(UDPKeys) /\ DOMAIN cLi = {} /\ ToSet(cLi) = {}
  BY DEF C!Init, ToSet
<1>2. C!TypeOK
  BY <1>1 DEF C!Init, C!TypeOK
<1>3. Distinct(cLi) /\ cMp = ToSet(cLi)
  BY <1>1 DEF C!Init, Distinct
<1>4. CallbackPerNode
  BY DEF C!Init, CallbackPerNode, C!CallbackPerNode
<1>5. LastUses
  BY <1>1 DEF C!Init, LastUses, Ordered
<1> QED BY <1>2, <1>3, <1>4, <1>5 DEF CInv

\* A call that uses k makes it the one used last.
LEMMA UsedLast ==
    ASSUME CInv, NEW k \in UDPKeys, C!Uses(k)
    PROVE  /\ uses' \in Nat /\ lastUse' \in [UDPKeys -> Nat]
           /\ \A x \in UDPKeys : lastUse'[x] <= uses'
           /\ \A x \in UDPKeys \ {k} : lastUse'[x] = lastUse[x] /\ lastUse'[k] > lastUse[x]
BY DEF C!Uses, CInv, C!TypeOK, LastUses

\* Get, Touch and Put of a key that is there: its node goes to the front.
LEMMA UseInv ==
    ASSUME CInv, NEW k \in cMp, C!Uses(k), cLi' = MoveToFront(cLi, k),
           cExp' \in [UDPKeys -> Nat], UNCHANGED <<cMp, cNow, inserted, cCleaned>>
    PROVE  CInv'
<1>1. /\ cLi \in Seq(UDPKeys) /\ Distinct(cLi) /\ ToSet(cLi) \subseteq UDPKeys
      /\ k \in UDPKeys /\ k \in ToSet(cLi)
  BY ToSetElements DEF CInv, C!TypeOK
<1>2. cLi' \in Seq(UDPKeys) /\ Distinct(cLi') /\ ToSet(cLi') = ToSet(cLi)
  BY <1>1, MoveToFrontProperties
<1>3. /\ uses' \in Nat /\ lastUse' \in [UDPKeys -> Nat]
      /\ \A x \in UDPKeys : lastUse'[x] <= uses'
      /\ \A x \in UDPKeys \ {k} : lastUse'[x] = lastUse[x] /\ lastUse'[k] > lastUse[x]
  BY <1>1, UsedLast
<1>4. Ordered(cLi', lastUse')
  <2>1. Ordered(cLi, lastUse) /\ \A x \in UDPKeys : lastUse[x] \in Nat
    BY DEF CInv, LastUses, C!TypeOK
  <2>2. \A x \in ToSet(cLi) \ {k} : lastUse'[k] >= lastUse[x]
    BY <1>1, <1>3, <2>1
  <2> QED BY <1>1, <1>3, <2>1, <2>2, TouchOrdered
<1>5. \A x, y \in ToSet(cLi') : x # y => lastUse'[x] # lastUse'[y]
  <2>1. \A x, y \in ToSet(cLi) : x # y => lastUse[x] # lastUse[y]
    BY DEF CInv, LastUses
  <2>2. \A x \in UDPKeys : lastUse[x] \in Nat /\ lastUse'[x] \in Nat
    BY <1>3 DEF CInv, C!TypeOK
  <2> SUFFICES ASSUME NEW x \in ToSet(cLi), NEW y \in ToSet(cLi), x # y
               PROVE  lastUse'[x] # lastUse'[y]
    BY <1>2
  <2>3. x \in UDPKeys /\ y \in UDPKeys
    BY <1>1
  <2>4. CASE x = k
    BY <1>3, <2>2, <2>3, <2>4
  <2>5. CASE y = k
    BY <1>3, <2>2, <2>3, <2>5
  <2>6. CASE x # k /\ y # k
    BY <1>3, <2>1, <2>3, <2>6
  <2> QED BY <2>4, <2>5, <2>6
<1>6. C!TypeOK'
  BY <1>2, <1>3 DEF CInv, C!TypeOK
<1>7. CallbackPerNode'
  BY DEF CInv, CallbackPerNode, C!CallbackPerNode
<1> QED BY <1>2, <1>3, <1>4, <1>5, <1>6, <1>7 DEF CInv, LastUses

\* Put of a key that is not there, with the evictions at capacity.
LEMMA PutNewInv ==
    ASSUME CInv, NEW k \in UDPKeys, NEW ttl \in TTLs, C!PutNew(k, ttl)
    PROVE  CInv'
<1> DEFINE pushed == PushFront(cLi, k)
           out == Evicted(pushed, MaxConns)
<1>1. /\ k \notin cMp /\ C!Uses(k)
      /\ cExp' = [cExp EXCEPT ![k] = cNow + ttl]
      /\ cLi' = Trimmed(pushed, MaxConns)
      /\ cMp' = (cMp \cup {k}) \ out
      /\ inserted' = [inserted EXCEPT ![k] = @ + 1]
      /\ cCleaned' = [x \in UDPKeys |-> IF x \in out THEN cCleaned[x] + 1 ELSE cCleaned[x]]
      /\ cNow' = cNow
  BY SameOperators DEF C!PutNew, C!RunCallbacks
<1>2. /\ cLi \in Seq(UDPKeys) /\ Distinct(cLi) /\ ToSet(cLi) \subseteq UDPKeys
      /\ cMp = ToSet(cLi) /\ k \notin ToSet(cLi) /\ Ordered(cLi, lastUse)
      /\ \A x \in UDPKeys : lastUse[x] \in Nat
  BY <1>1, ToSetElements DEF CInv, C!TypeOK, LastUses
<1>3. /\ uses' \in Nat /\ lastUse' \in [UDPKeys -> Nat]
      /\ \A x \in UDPKeys : lastUse'[x] <= uses'
      /\ \A x \in UDPKeys \ {k} : lastUse'[x] = lastUse[x] /\ lastUse'[k] > lastUse[x]
  BY <1>1, UsedLast
<1>4. Ordered(cLi, lastUse')
  BY <1>2, <1>3, OrderedAgree
<1>5. \A x \in ToSet(cLi) : lastUse'[k] >= lastUse'[x]
  BY <1>2, <1>3
<1>6. /\ pushed \in Seq(UDPKeys) /\ Distinct(pushed) /\ Ordered(pushed, lastUse')
      /\ ToSet(pushed) = ToSet(cLi) \cup {k}
  BY <1>2, <1>4, <1>5, PushFrontProperties
<1> HIDE DEF pushed
<1>7. /\ cLi' \in Seq(UDPKeys) /\ Distinct(cLi') /\ Ordered(cLi', lastUse')
      /\ ToSet(cLi') \subseteq ToSet(pushed)
  BY <1>1, <1>6, TrimmedProperties, ClearParams
<1>8. out = ToSet(pushed) \ ToSet(cLi')
  BY <1>1 DEF Evicted
<1> HIDE DEF out
<1>9. cMp' = ToSet(cLi')
  BY <1>1, <1>2, <1>6, <1>7, <1>8
<1>10. C!TypeOK'
  <2>1. cExp' \in [UDPKeys -> Nat]
    BY <1>1, TTLsNat DEF CInv, C!TypeOK
  <2>2. inserted' \in [UDPKeys -> Nat] /\ cCleaned' \in [UDPKeys -> Nat]
    BY <1>1 DEF CInv, C!TypeOK
  <2>3. cMp' \subseteq UDPKeys
    BY <1>2, <1>6, <1>7, <1>9
  <2> QED BY <1>1, <1>3, <1>7, <2>1, <2>2, <2>3 DEF CInv, C!TypeOK
<1>11. CallbackPerNode'
  <2> SUFFICES ASSUME NEW x \in UDPKeys
               PROVE  inserted'[x] = cCleaned'[x] + (IF x \in cMp' THEN 1 ELSE 0)
    BY DEF CallbackPerNode, C!CallbackPerNode
  <2>1. /\ inserted[x] = cCleaned[x] + (IF x \in cMp THEN 1 ELSE 0)
        /\ inserted[x] \in Nat /\ cCleaned[x] \in Nat
        /\ inserted'[x] = IF x = k THEN inserted[x] + 1 ELSE inserted[x]
        /\ cCleaned'[x] = IF x \in out THEN cCleaned[x] + 1 ELSE cCleaned[x]
    BY <1>1 DEF CInv, C!TypeOK, CallbackPerNode, C!CallbackPerNode
  <2>2. x \in out => x \in cMp \cup {k}
    BY <1>2, <1>6, <1>8
  <2> QED BY <1>1, <2>1, <2>2
<1>12. LastUses'
  <2>1. \A x, y \in ToSet(cLi) : x # y => lastUse[x] # lastUse[y]
    BY DEF CInv, LastUses
  <2>2. \A x, y \in ToSet(pushed) : x # y => lastUse'[x] # lastUse'[y]
    BY <1>2, <1>3, <1>6, <2>1
  <2> QED BY <1>3, <1>7, <2>2 DEF LastUses
<1> QED BY <1>7, <1>9, <1>10, <1>11, <1>12 DEF CInv

\* Remove, RemoveExpired, RemoveExpiredRatio and Clear take nodes out and call
\* back each of them.
LEMMA TakeOutInv ==
    ASSUME CInv, NEW out \in SUBSET ToSet(cLi),
           cLi' \in Seq(UDPKeys), Distinct(cLi'), Ordered(cLi', lastUse),
           ToSet(cLi') = ToSet(cLi) \ out, cMp' = cMp \ out, C!RunCallbacks(out),
           UNCHANGED <<cExp, cNow, uses, lastUse, inserted>>
    PROVE  CInv'
<1>1. cCleaned' = [x \in UDPKeys |-> IF x \in out THEN cCleaned[x] + 1 ELSE cCleaned[x]]
  BY DEF C!RunCallbacks
<1>2. C!TypeOK'
  BY <1>1 DEF CInv, C!TypeOK
<1>3. CallbackPerNode'
  BY <1>1 DEF CInv, C!TypeOK, CallbackPerNode, C!CallbackPerNode
<1>4. LastUses'
  BY DEF CInv, LastUses
<1> QED BY <1>2, <1>3, <1>4 DEF CInv

\* Remove.
LEMMA RemoveKeyOutInv ==
    ASSUME CInv, NEW k \in UDPKeys, C!RemoveKey(k)
    PROVE  CInv'
<1>1. /\ k \in cMp /\ cLi' = Without(cLi, k) /\ cMp' = cMp \ {k} /\ C!RunCallbacks({k})
      /\ UNCHANGED <<cExp, cNow, uses, lastUse, inserted>>
  BY SameOperators DEF C!RemoveKey
<1>2. cLi \in Seq(UDPKeys) /\ Distinct(cLi) /\ {k} \in SUBSET ToSet(cLi) /\ Ordered(cLi, lastUse)
  BY <1>1 DEF CInv, C!TypeOK, LastUses
<1>3. /\ cLi' \in Seq(UDPKeys) /\ Distinct(cLi') /\ Ordered(cLi', lastUse)
      /\ ToSet(cLi') = ToSet(cLi) \ {k}
  BY <1>1, <1>2, WithoutProperties
<1> QED BY <1>1, <1>2, <1>3, TakeOutInv

\* Both sweeps: nodes popped from the back.
LEMMA PopBackInv ==
    ASSUME CInv, NEW n \in 0 .. Len(cLi), C!PopBack(n)
    PROVE  CInv'
<1> DEFINE kept == SubSeq(cLi, 1, Len(cLi) - n)
           out == ToSet(SubSeq(cLi, Len(cLi) - n + 1, Len(cLi)))
<1>1. /\ cLi' = kept /\ cMp' = cMp \ out /\ C!RunCallbacks(out)
      /\ UNCHANGED <<cExp, cNow, uses, lastUse, inserted>>
  BY SameOperators DEF C!PopBack
<1>2. cLi \in Seq(UDPKeys) /\ Distinct(cLi) /\ Ordered(cLi, lastUse)
  BY DEF CInv, C!TypeOK, LastUses
<1>3. /\ kept \in Seq(UDPKeys) /\ Distinct(kept) /\ Ordered(kept, lastUse)
      /\ out \subseteq ToSet(cLi) /\ ToSet(kept) = ToSet(cLi) \ out
  BY <1>2, PrefixProperties
<1> HIDE DEF kept, out
<1> QED BY <1>1, <1>3, TakeOutInv

\* Clear.
LEMMA ClearInv ==
    ASSUME CInv, C!Clear
    PROVE  CInv'
<1>1. /\ cLi' = <<>> /\ cMp' = {} /\ C!RunCallbacks(ToSet(cLi))
      /\ UNCHANGED <<cExp, cNow, uses, lastUse, inserted>>
  BY SameOperators DEF C!Clear
<1>2. cLi' \in Seq(UDPKeys) /\ DOMAIN cLi' = {} /\ ToSet(cLi') = {}
  BY <1>1 DEF ToSet
<1>3. Distinct(cLi') /\ Ordered(cLi', lastUse)
  BY <1>2 DEF Distinct, Ordered
<1>4. cMp' = cMp \ ToSet(cLi)
  BY <1>1 DEF CInv
<1>5. ToSet(cLi') = ToSet(cLi) \ ToSet(cLi)
  BY <1>2
<1> QED BY <1>1, <1>2, <1>3, <1>4, <1>5, TakeOutInv

\* Every step keeps the invariant.
LEMMA CStepInv == CInv /\ [C!Next]_(C!vars) => CInv'
<1> SUFFICES ASSUME CInv, [C!Next]_(C!vars) PROVE CInv'
  OBVIOUS
<1>0. cLi \in Seq(UDPKeys) /\ cExp \in [UDPKeys -> Nat] /\ cNow \in Nat /\ Len(cLi) \in Nat
  BY LenProperties DEF CInv, C!TypeOK
<1>1. CASE UNCHANGED C!vars
  BY <1>1 DEF C!vars, C!cache, CInv, C!TypeOK, CallbackPerNode, C!CallbackPerNode, LastUses
<1>2. ASSUME NEW k \in UDPKeys, C!Get(k) PROVE CInv'
  <2>1. /\ k \in cMp /\ C!Uses(k) /\ cLi' = MoveToFront(cLi, k)
        /\ UNCHANGED <<cMp, cExp, cNow, inserted, cCleaned>>
    BY <1>2, SameOperators DEF C!Get
  <2> QED BY <1>0, <2>1, UseInv
<1>3. ASSUME NEW k \in UDPKeys, NEW ttl \in TTLs, C!Touch(k, ttl) PROVE CInv'
  <2>1. /\ k \in cMp /\ C!Uses(k) /\ cLi' = MoveToFront(cLi, k)
        /\ cExp' = [cExp EXCEPT ![k] = cNow + ttl]
        /\ UNCHANGED <<cMp, cNow, inserted, cCleaned>>
    BY <1>3, SameOperators DEF C!Touch
  <2>2. cExp' \in [UDPKeys -> Nat]
    BY <1>0, <2>1, TTLsNat
  <2> QED BY <2>1, <2>2, UseInv
<1>4. CASE C!RemoveExpired
  <2>1. C!PopBack(ExpiredTail(cLi, cExp, cNow))
    BY <1>4, SameOperators DEF C!RemoveExpired
  <2> QED BY <1>0, <2>1, ExpiredTailBound, PopBackInv
<1>5. ASSUME NEW ratio \in Ratios, C!RemoveExpiredRatio(ratio) PROVE CInv'
  <2> DEFINE room == CleanQuota(Len(cLi), ratio, MinClear)
             expired == ExpiredTail(cLi, cExp, cNow)
             least == IF expired < room THEN expired ELSE room
  <2>1. C!PopBack(least)
    BY <1>5, SameOperators DEF C!RemoveExpiredRatio
  <2>2. least \in 0 .. Len(cLi)
    BY <1>0, ExpiredTailBound, QuotaBound, RatiosInt
  <2> HIDE DEF least
  <2> QED BY <2>1, <2>2, PopBackInv
<1>6. CASE C!ClockTick
  BY <1>6 DEF C!ClockTick, C!cache, CInv, C!TypeOK, CallbackPerNode, C!CallbackPerNode, LastUses
<1> QED
  BY <1>1, <1>2, <1>3, <1>4, <1>5, <1>6, PutNewInv, RemoveKeyOutInv, ClearInv
     DEF C!Next, C!Put

\* The inductive invariant of the cache.
THEOREM CInvariance == C!Spec => []CInv
BY CInitInv, CStepInv, PTL DEF C!Spec

-----------------------------------------------------------------------------
\* The composition: each table behaves as it does on its own.

\* A step of the composition is a step of one of the four, or invisible to it.
THEOREM TablesCompose ==
    TablesSpec => Spec /\ C!Spec /\ U!Spec /\ F!Spec
<1>1. TablesInit => Init /\ C!Init /\ U!Init /\ F!Init
  BY DEF TablesInit
<1>2. [TablesNext]_<<part, vars, cVars, uVars, fVars>>
        => [Next]_vars /\ [C!Next]_(C!vars) /\ [U!Next]_(U!vars) /\ [F!Next]_(F!vars)
  <2> SUFFICES ASSUME [TablesNext]_<<part, vars, cVars, uVars, fVars>>
               PROVE  /\ [Next]_vars /\ [C!Next]_(C!vars)
                      /\ [U!Next]_(U!vars) /\ [F!Next]_(F!vars)
    OBVIOUS
  <2>1. /\ UNCHANGED cVars => UNCHANGED C!vars
        /\ UNCHANGED uVars => UNCHANGED U!vars
        /\ UNCHANGED fVars => UNCHANGED F!vars
    BY DEF cVars, C!vars, C!cache, uVars, U!vars, fVars, F!vars
  <2> QED BY <2>1 DEF TablesNext, AllClosed
<1> QED BY <1>1, <1>2, PTL DEF TablesSpec, Spec, C!Spec, U!Spec, F!Spec

\* FDManager: the two tables are inverse to each other unless a descriptor was registered
\* twice, and every entry has a reference unless DecRef was called
\* (fd/manager.go:51-71, 156-214).
THEOREM TablesAgree == TablesSpec => []IndexesAgree
<1>1. FInv => IndexesAgree
  <2> SUFFICES ASSUME FInv PROVE IndexesAgree
    OBVIOUS
  <2>1. ASSUME ~reused PROVE F!Range(byFD) = DOMAIN info
    BY <2>1 DEF FInv, TablesInverse, F!Range
  <2> QED
    BY <2>1 DEF FInv, TablesInverse, Referenced, IndexesAgree, F!IndexesAgree
<1> QED
  BY <1>1, TablesCompose, FInvariance, PTL

\* FDManager: an identifier never names a second descriptor (fd/manager.go:57-58).
THEOREM IdentifiersKept == TablesSpec => IDNamesOneFD
<1> DEFINE A == \A id \in DOMAIN info' :
                    id <= nextID => id \in DOMAIN info /\ info'[id].fd = info[id].fd
<1>1. FInv /\ [F!Next]_(F!vars) => [A]_(F!vars)
  <2> SUFFICES ASSUME FInv, F!Next, NEW id \in DOMAIN info', id <= nextID
               PROVE  id \in DOMAIN info /\ info'[id].fd = info[id].fd
    OBVIOUS
  <2>1. ASSUME NEW fd \in FDs, F!Create(fd) PROVE id \in DOMAIN info /\ info'[id] = info[id]
    <3>1. info' = F!With(info, nextID + 1, [fd |-> fd, isTCP |-> FALSE, refCnt |-> 1])
      BY <2>1 DEF F!Create, F!Fresh
    <3>2. id # nextID + 1
      BY DEF FInv, FTyped
    <3> QED
      BY <3>1, <3>2 DEF F!With
  <2>2. ASSUME NEW k, NEW isTCP \in BOOLEAN, F!SetProto(k, isTCP) \/ F!IncRef(k) \/ F!DecRef(k)
        PROVE  id \in DOMAIN info /\ info'[id].fd = info[id].fd
    BY <2>2 DEF F!SetProto, F!IncRef, F!DecRef, FInv, FTyped, FInfo
  <2>3. ASSUME NEW k, F!Close(k) PROVE id \in DOMAIN info /\ info'[id].fd = info[id].fd
    <3>1. CASE info[k].refCnt > 1
      BY <2>3, <3>1 DEF F!Close, FInv, FTyped, FInfo
    <3>2. CASE ~(info[k].refCnt > 1)
      BY <2>3, <3>2 DEF F!Close, F!Without, F!Restrict
    <3> QED
      BY <3>1, <3>2
  <2> QED
    BY <2>1, <2>2, <2>3 DEF F!Next
<1> QED
  BY <1>1, TablesCompose, FInvariance, PTL DEF F!Spec, IDNamesOneFD, F!IDNamesOneFD

\* UDPManager: a conn that Get finds is always listed and within the limit, and
\* the list holds nothing else unless Remove was given a conn the map did not
\* hold (conn/udp.go:106-155).
THEOREM ListAndMapAgree == TablesSpec => []StrandedOnlyByStaleRemove
<1>1. UInv => StrandedOnlyByStaleRemove
  BY DEF UInv, StrandedOnlyByStaleRemove
<1> QED
  BY <1>1, TablesCompose, UInvariance, PTL

\* LRUCache: the map finds exactly the nodes of the list, and no key has two
\* (lru/cache.go:47-136), whatever is called in whatever order.
THEOREM MapListsSame == TablesSpec => []MapIsList
<1>1. CInv => MapIsList
  BY SameOperators DEF CInv, MapIsList, C!MapIsList
<1> QED BY <1>1, TablesCompose, CInvariance, PTL

\* LRUCache: a node that Put made is in the cache or had its callback once
\* (lru/cache.go:101-136, 170-215).
THEOREM CalledBackOnce == TablesSpec => []CallbackPerNode
<1>1. CInv => CallbackPerNode
  BY DEF CInv
<1> QED BY <1>1, TablesCompose, CInvariance, PTL

\* LRUCache: what Put evicts at capacity is what was used least recently
\* (lru/cache.go:47-115).
THEOREM RecencyKept == TablesSpec => []RecencyOrder
<1>1. CInv => RecencyOrder
  <2> SUFFICES ASSUME CInv, NEW i \in DOMAIN cLi, NEW j \in DOMAIN cLi, i < j
               PROVE  lastUse[cLi[i]] > lastUse[cLi[j]]
    BY DEF RecencyOrder, C!RecencyOrder
  <2>1. /\ DOMAIN cLi = 1 .. Len(cLi) /\ Len(cLi) \in Nat
        /\ cLi[i] \in UDPKeys /\ cLi[j] \in UDPKeys
    BY LenProperties, ElementOfSeq DEF CInv, C!TypeOK
  <2>2. lastUse[cLi[i]] >= lastUse[cLi[j]]
    BY DEF CInv, LastUses, Ordered
  <2>3. cLi[i] \in ToSet(cLi) /\ cLi[j] \in ToSet(cLi) /\ cLi[i] # cLi[j]
    BY <2>1 DEF CInv, Distinct, ToSet
  <2>4. lastUse[cLi[i]] # lastUse[cLi[j]]
    BY <2>3 DEF CInv, LastUses
  <2> QED BY <2>1, <2>2, <2>4 DEF CInv, C!TypeOK
<1> QED BY <1>1, TablesCompose, CInvariance, PTL

\* The variables of the four tables keep their types.
THEOREM TablesTypeCorrect == TablesSpec => []TablesTypeOK
<1>1. CInv => C!TypeOK
  BY DEF CInv
<1>2. UInv => U!TypeOK
  BY AddrOfConns DEF UInv, UTyped, U!TypeOK, U!Found, U!Range
<1>3. FInv => F!TypeOK
  BY DEF FInv, FTyped, FInfo, F!TypeOK, F!Range
<1>4. TypeOK /\ CInv /\ UInv /\ FInv => TablesTypeOK
  BY <1>1, <1>2, <1>3 DEF TablesTypeOK
<1> QED BY <1>4, TypeCorrect, TablesCompose, CInvariance, UInvariance, FInvariance, PTL

=============================================================================
