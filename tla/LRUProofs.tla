------------------------------ MODULE LRUProofs ------------------------------
(***************************************************************************)
(* What the list operators of LRU preserve, for every list of every        *)
(* length: the lemmas the proofs about the caches are built from.          *)
(***************************************************************************)
EXTENDS LRU, SequenceTheorems, TLAPS

\* Removing the element at i: type, length and elements of the result.
LEMMA RemoveAtProperties ==
    ASSUME NEW S, NEW s \in Seq(S), NEW i \in 1 .. Len(s)
    PROVE  /\ RemoveAt(s, i) \in Seq(S)
           /\ Len(RemoveAt(s, i)) = Len(s) - 1
           /\ \A j \in 1 .. Len(s) - 1 :
                 RemoveAt(s, i)[j] = IF j < i THEN s[j] ELSE s[j + 1]
<1> DEFINE a == SubSeq(s, 1, i - 1)
           b == SubSeq(s, i + 1, Len(s))
<1>0. Len(s) \in Nat /\ \A j \in 1 .. Len(s) : s[j] \in S
  BY LenProperties, ElementOfSeq
<1>1. a \in Seq(S) /\ Len(a) = i - 1 /\ \A j \in 1 .. i - 1 : a[j] = s[j]
  <2>1. \A j \in 1 .. i - 1 : s[j] \in S
    BY <1>0
  <2> QED BY <2>1, <1>0, SubSeqProperties
<1>2. b \in Seq(S) /\ Len(b) = Len(s) - i /\ \A j \in 1 .. Len(s) - i : b[j] = s[j + i]
  <2>1. \A j \in i + 1 .. Len(s) : s[j] \in S
    BY <1>0
  <2>2. /\ b \in Seq(S)
        /\ Len(b) = IF i + 1 <= Len(s) THEN Len(s) - (i + 1) + 1 ELSE 0
        /\ \A j \in 1 .. Len(s) - (i + 1) + 1 : b[j] = s[(i + 1) + j - 1]
    BY <2>1, <1>0, SubSeqProperties
  <2> QED BY <2>2, <1>0
<1>3. /\ a \o b \in Seq(S)
      /\ Len(a \o b) = Len(a) + Len(b)
      /\ \A j \in 1 .. Len(a) + Len(b) :
            (a \o b)[j] = IF j <= Len(a) THEN a[j] ELSE b[j - Len(a)]
  BY <1>1, <1>2, ConcatProperties
<1>4. RemoveAt(s, i) = a \o b
  BY DEF RemoveAt
<1> HIDE DEF a, b
<1>5. ASSUME NEW j \in 1 .. Len(s) - 1
      PROVE  (a \o b)[j] = IF j < i THEN s[j] ELSE s[j + 1]
  <2>1. CASE j < i
    BY <2>1, <1>0, <1>1, <1>2, <1>3
  <2>2. CASE ~(j < i)
    <3>1. (a \o b)[j] = b[j - (i - 1)]
      BY <2>2, <1>0, <1>1, <1>2, <1>3
    <3>2. b[j - (i - 1)] = s[(j - (i - 1)) + i]
      BY <2>2, <1>0, <1>2
    <3> QED BY <3>1, <3>2, <2>2
  <2> QED BY <2>1, <2>2
<1> QED BY <1>0, <1>1, <1>2, <1>3, <1>4, <1>5

-----------------------------------------------------------------------------
\* The order depends on the deadlines of the list's own elements.
LEMMA OrderedAgree ==
    ASSUME NEW s, NEW e, NEW d, Ordered(s, e), \A x \in ToSet(s) : d[x] = e[x]
    PROVE  Ordered(s, d)
BY DEF Ordered, ToSet

\* ToSet is the range of the list.
LEMMA ToSetElements ==
    ASSUME NEW S, NEW s \in Seq(S)
    PROVE  /\ ToSet(s) = {s[i] : i \in 1 .. Len(s)}
           /\ ToSet(s) \subseteq S
BY LenProperties, ElementOfSeq DEF ToSet

\* Without: the other elements stay, in their order.
LEMMA WithoutProperties ==
    ASSUME NEW S, NEW s \in Seq(S), NEW k, Distinct(s)
    PROVE  /\ Without(s, k) \in Seq(S)
           /\ Len(Without(s, k)) <= Len(s)
           /\ k \in ToSet(s) => Len(Without(s, k)) = Len(s) - 1
           /\ Distinct(Without(s, k))
           /\ ToSet(Without(s, k)) = ToSet(s) \ {k}
           /\ \A e : Ordered(s, e) => Ordered(Without(s, k), e)
<1>0. Len(s) \in Nat /\ DOMAIN s = 1 .. Len(s)
  BY LenProperties
<1>1. CASE k \notin ToSet(s)
  <2>1. Without(s, k) = s
    BY <1>1 DEF Without
  <2>2. ToSet(s) = ToSet(s) \ {k}
    BY <1>1
  <2>3. Len(s) <= Len(s)
    BY <1>0
  <2> QED BY <2>1, <2>2, <2>3, <1>1, Zenon
<1>2. CASE k \in ToSet(s)
  <2> DEFINE i == CHOOSE j \in DOMAIN s : s[j] = k
             w == RemoveAt(s, i)
  <2>1. i \in 1 .. Len(s) /\ s[i] = k
    <3>1. \E j \in DOMAIN s : s[j] = k
      BY <1>2 DEF ToSet
    <3> QED BY <3>1, <1>0
  <2>2. Without(s, k) = w
    BY <1>2 DEF Without
  <2> HIDE DEF i
  <2>3. /\ w \in Seq(S)
        /\ Len(w) = Len(s) - 1
        /\ \A j \in 1 .. Len(s) - 1 : w[j] = IF j < i THEN s[j] ELSE s[j + 1]
    BY <2>1, RemoveAtProperties
  <2> HIDE DEF w
  <2>4. DOMAIN w = 1 .. Len(s) - 1
    BY <2>3, LenProperties
  <2> DEFINE src(j) == IF j < i THEN j ELSE j + 1
  <2>5. \A j \in DOMAIN w : src(j) \in DOMAIN s /\ src(j) # i /\ w[j] = s[src(j)]
    BY <2>1, <2>3, <2>4, <1>0
  <2>6. \A a, b \in DOMAIN w : /\ a < b => src(a) < src(b)
                               /\ src(a) = src(b) => a = b
    BY <2>1, <2>4, <1>0
  <2>7. \A j \in DOMAIN s : j # i => \E a \in DOMAIN w : src(a) = j
    <3> SUFFICES ASSUME NEW j \in DOMAIN s, j # i
                 PROVE  \E a \in DOMAIN w : src(a) = j
      OBVIOUS
    <3>1. CASE j < i
      BY <3>1, <2>1, <2>4, <1>0
    <3>2. CASE j > i
      <4>1. j - 1 \in DOMAIN w /\ src(j - 1) = j
        BY <3>2, <2>1, <2>4, <1>0
      <4> QED BY <4>1
    <3> QED BY <3>1, <3>2, <2>1, <1>0
  <2> HIDE DEF src
  <2>8. Distinct(w)
    BY <2>5, <2>6 DEF Distinct
  <2>9. ToSet(w) = ToSet(s) \ {k}
    <3>1. \A j \in DOMAIN w : w[j] \in ToSet(s) \ {k}
      BY <2>1, <2>5, <1>0 DEF ToSet, Distinct
    <3>2. \A j \in DOMAIN s : s[j] # k => s[j] \in ToSet(w)
      BY <2>1, <2>5, <2>7 DEF ToSet
    <3> QED BY <3>1, <3>2 DEF ToSet
  <2>10. \A e : Ordered(s, e) => Ordered(w, e)
    BY <2>5, <2>6 DEF Ordered
  <2> QED BY <2>2, <2>3, <2>8, <2>9, <2>10, <1>0
<1> QED BY <1>1, <1>2

\* PushFront: a key that is not in the list becomes its first element.
LEMMA PushFrontProperties ==
    ASSUME NEW S, NEW s \in Seq(S), NEW k \in S
    PROVE  /\ PushFront(s, k) \in Seq(S)
           /\ Len(PushFront(s, k)) = Len(s) + 1
           /\ ToSet(PushFront(s, k)) = ToSet(s) \cup {k}
           /\ Distinct(s) /\ k \notin ToSet(s) => Distinct(PushFront(s, k))
           /\ \A e : Ordered(s, e) /\ (\A x \in ToSet(s) : e[k] >= e[x])
                   => Ordered(PushFront(s, k), e)
<1> DEFINE w == PushFront(s, k)
<1>0. Len(s) \in Nat /\ DOMAIN s = 1 .. Len(s)
  BY LenProperties
<1>1. /\ w \in Seq(S)
      /\ Len(w) = Len(s) + 1
      /\ w[1] = k
      /\ \A j \in 1 .. Len(s) : w[j + 1] = s[j]
  <2>1. <<k>> \in Seq(S) /\ Len(<<k>>) = 1 /\ <<k>>[1] = k
    OBVIOUS
  <2>2. /\ <<k>> \o s \in Seq(S)
        /\ Len(<<k>> \o s) = 1 + Len(s)
        /\ \A j \in 1 .. 1 + Len(s) : (<<k>> \o s)[j] = IF j <= 1 THEN k ELSE s[j - 1]
    BY <2>1, ConcatProperties
  <2> QED BY <2>2, <1>0 DEF PushFront
<1> HIDE DEF w
<1>2. DOMAIN w = 1 .. Len(s) + 1
  BY <1>1, LenProperties
<1>3. \A j \in DOMAIN w : j # 1 => j - 1 \in DOMAIN s /\ w[j] = s[j - 1]
  <2> SUFFICES ASSUME NEW j \in DOMAIN w, j # 1
               PROVE  j - 1 \in DOMAIN s /\ w[j] = s[j - 1]
    OBVIOUS
  <2>1. j - 1 \in 1 .. Len(s) /\ (j - 1) + 1 = j
    BY <1>0, <1>2
  <2> QED BY <2>1, <1>0, <1>1
<1>4. 1 \in DOMAIN w /\ \A j \in DOMAIN s : j + 1 \in DOMAIN w /\ w[j + 1] = s[j]
  BY <1>0, <1>1, <1>2
<1>5. ToSet(w) = ToSet(s) \cup {k}
  BY <1>1, <1>3, <1>4 DEF ToSet
<1>6. ASSUME Distinct(s), k \notin ToSet(s)
      PROVE  Distinct(w)
  <2> SUFFICES ASSUME NEW a \in DOMAIN w, NEW b \in DOMAIN w, w[a] = w[b]
               PROVE  a = b
    BY DEF Distinct
  <2>1. \A j \in DOMAIN w : j # 1 => w[j] # k
    BY <1>3, <1>6 DEF ToSet
  <2>2. CASE a = 1 \/ b = 1
    BY <2>2, <2>1, <1>1
  <2>3. CASE a # 1 /\ b # 1
    <3>1. a - 1 = b - 1
      BY <2>3, <1>3, <1>6 DEF Distinct
    <3> QED BY <3>1, <1>2, <1>0
  <2> QED BY <2>2, <2>3
<1>7. ASSUME NEW e, Ordered(s, e), \A x \in ToSet(s) : e[k] >= e[x]
      PROVE  Ordered(w, e)
  <2> SUFFICES ASSUME NEW a \in DOMAIN w, NEW b \in DOMAIN w, a < b
               PROVE  e[w[a]] >= e[w[b]]
    BY DEF Ordered
  <2>1. b # 1
    BY <1>0, <1>2
  <2>2. CASE a = 1
    BY <2>1, <2>2, <1>1, <1>3, <1>7 DEF ToSet
  <2>3. CASE a # 1
    <3>1. a - 1 < b - 1
      BY <1>0, <1>2
    <3> QED BY <3>1, <2>1, <2>3, <1>3, <1>7 DEF Ordered
  <2> QED BY <2>2, <2>3
<1> QED BY <1>1, <1>5, <1>6, <1>7 DEF w

\* MoveToFront of an element of the list keeps its length and elements.
LEMMA MoveToFrontProperties ==
    ASSUME NEW S, NEW s \in Seq(S), NEW k, Distinct(s)
    PROVE  /\ MoveToFront(s, k) \in Seq(S)
           /\ Len(MoveToFront(s, k)) = Len(s)
           /\ ToSet(MoveToFront(s, k)) = ToSet(s)
           /\ Distinct(MoveToFront(s, k))
<1>1. CASE k \notin ToSet(s)
  BY <1>1 DEF MoveToFront
<1>2. CASE k \in ToSet(s)
  <2> DEFINE w == Without(s, k)
  <2>1. k \in S /\ Len(s) \in Nat
    BY <1>2, ToSetElements, LenProperties
  <2>2. /\ w \in Seq(S) /\ Len(w) = Len(s) - 1
        /\ Distinct(w) /\ ToSet(w) = ToSet(s) \ {k}
    BY <1>2, WithoutProperties
  <2> HIDE DEF w
  <2>2a. k \notin ToSet(w)
    BY <2>2
  <2>3. /\ PushFront(w, k) \in Seq(S) /\ Len(PushFront(w, k)) = Len(w) + 1
        /\ ToSet(PushFront(w, k)) = ToSet(w) \cup {k}
        /\ Distinct(PushFront(w, k))
    BY <2>1, <2>2, <2>2a, PushFrontProperties, Zenon
  <2>4. MoveToFront(s, k) = PushFront(w, k)
    BY <1>2 DEF MoveToFront, w
  <2>5. Len(w) + 1 = Len(s)
    BY <2>1, <2>2
  <2>6. ToSet(w) \cup {k} = ToSet(s)
    BY <2>2, <1>2
  <2> QED BY <2>3, <2>4, <2>5, <2>6
<1> QED BY <1>1, <1>2

\* The ordered list with one key's deadline changed to the latest of all, and
\* that key moved to the front, is ordered: Touch.
LEMMA TouchOrdered ==
    ASSUME NEW S, NEW s \in Seq(S), NEW k \in S, Distinct(s), k \in ToSet(s),
           NEW e, NEW d, Ordered(s, e),
           \A x \in S \ {k} : d[x] = e[x],
           \A x \in ToSet(s) \ {k} : d[k] >= e[x]
    PROVE  Ordered(MoveToFront(s, k), d)
<1> DEFINE w == Without(s, k)
<1>1. /\ w \in Seq(S) /\ ToSet(w) = ToSet(s) \ {k}
      /\ Ordered(w, e)
  BY WithoutProperties
<1> HIDE DEF w
<1>2. \A x \in ToSet(w) : d[x] = e[x] /\ d[k] >= d[x]
  BY <1>1, ToSetElements
<1>3. Ordered(w, d)
  BY <1>1, <1>2 DEF Ordered, ToSet
<1>4. Ordered(PushFront(w, k), d)
  BY <1>1, <1>2, <1>3, PushFrontProperties
<1> QED BY <1>4 DEF MoveToFront, w

\* Trimmed keeps a prefix, no longer than the capacity.
LEMMA TrimmedProperties ==
    ASSUME NEW S, NEW s \in Seq(S), NEW n \in Nat
    PROVE  /\ Trimmed(s, n) \in Seq(S)
           /\ n > 0 => Len(Trimmed(s, n)) <= n
           /\ Len(Trimmed(s, n)) <= Len(s)
           /\ ToSet(Trimmed(s, n)) \subseteq ToSet(s)
           /\ Distinct(s) => Distinct(Trimmed(s, n))
           /\ \A e : Ordered(s, e) => Ordered(Trimmed(s, n), e)
<1> DEFINE w == SubSeq(s, 1, n)
<1>0. Len(s) \in Nat /\ DOMAIN s = 1 .. Len(s) /\ \A i \in 1 .. Len(s) : s[i] \in S
  BY LenProperties, ElementOfSeq
<1>1. CASE ~(n > 0 /\ Len(s) > n)
  BY <1>0, <1>1 DEF Trimmed
<1>2. CASE n > 0 /\ Len(s) > n
  <2>1. w \in Seq(S) /\ Len(w) = n /\ \A i \in 1 .. n : w[i] = s[i]
    <3>1. \A i \in 1 .. n : s[i] \in S
      BY <1>0, <1>2
    <3> QED BY <3>1, <1>2, SubSeqProperties
  <2>2. Trimmed(s, n) = w
    BY <1>2 DEF Trimmed
  <2> HIDE DEF w
  <2>3. DOMAIN w = 1 .. n
    BY <2>1, LenProperties
  <2>4. \A i \in DOMAIN w : i \in DOMAIN s /\ w[i] = s[i]
    BY <2>1, <2>3, <1>0, <1>2
  <2>5. ToSet(w) \subseteq ToSet(s)
    BY <2>4 DEF ToSet
  <2>6. Distinct(s) => Distinct(w)
    BY <2>4 DEF Distinct
  <2>7. \A e : Ordered(s, e) => Ordered(w, e)
    BY <2>4 DEF Ordered
  <2> QED BY <2>1, <2>2, <2>5, <2>6, <2>7, <1>0, <1>2
<1> QED BY <1>1, <1>2

=============================================================================
