--------------------------------- MODULE LRU ---------------------------------
(***************************************************************************)
(* The data structure of internal/lru/cache.go as pure operators: the      *)
(* doubly linked list `li` is a sequence, front (most recent) first, and   *)
(* `exp` maps a key to the expTime of its node.  The modules that keep a   *)
(* cache as state (LRUCache, CleanupManager and the relays that embed it)  *)
(* build their actions from these operators, and LRUProofs states what     *)
(* they preserve.                                                          *)
(*                                                                         *)
(* One key has one list element: the keys of the program are pointers to   *)
(* freshly allocated objects, so the element is identified with its key.   *)
(***************************************************************************)
EXTENDS Integers, SequencesExt

\* container/list Remove: the element leaves the list; an element that is
\* no longer in it is left alone (list.Remove compares e.list with the list).
Without(li, k) ==
    IF k \in ToSet(li)
      THEN RemoveAt(li, CHOOSE i \in DOMAIN li : li[i] = k)
      ELSE li

\* container/list PushFront.
PushFront(li, k) == <<k>> \o li

\* Mutant of MoveToFront: the node stays where it is.
MoveNowhere(li, k) == li

\* container/list MoveToFront, a no-op for an element outside the list.
MoveToFront(li, k) == IF k \in ToSet(li) THEN PushFront(Without(li, k), k) ELSE li

-----------------------------------------------------------------------------
\* Mutant of Trimmed: the loop stops one node too early.
TrimmedLate(li, maxSize) ==
    IF maxSize > 0 /\ Len(li) > maxSize + 1 THEN SubSeq(li, 1, maxSize + 1) ELSE li

\* The loop at the end of Put: removeBack until the size is maxSize again.
\* maxSize = 0 means unlimited.
Trimmed(li, maxSize) ==
    IF maxSize > 0 /\ Len(li) > maxSize THEN SubSeq(li, 1, maxSize) ELSE li

\* The keys that loop evicts.
Evicted(li, maxSize) == ToSet(li) \ ToSet(Trimmed(li, maxSize))

\* How many nodes RemoveExpired pops: it stops at the first node from the
\* back whose expTime is After(now).
ExpiredTail(li, exp, now) ==
    CHOOSE n \in 0 .. Len(li) :
        /\ \A i \in (Len(li) - n + 1) .. Len(li) : exp[li[i]] <= now
        /\ n < Len(li) => exp[li[Len(li) - n]] > now

\* Mutant of CleanQuota: minCount is left out.
QuotaWithoutMin(len, ratio, minCount) == IF ratio <= 0 THEN 0 ELSE len \div ratio

\* numToClean of RemoveExpiredRatio, with its guard for an empty list and a
\* non-positive ratio (Len at the guard, at the division and at the cap are
\* separate reads; a list only one goroutine uses gives them one value).
CleanQuota(len, ratio, minCount) ==
    IF len = 0 \/ ratio <= 0 THEN 0
    ELSE IF (len \div ratio) + minCount > len THEN len
    ELSE (len \div ratio) + minCount

-----------------------------------------------------------------------------
\* What the users of the list rely on.

\* No key is in the list twice.
Distinct(li) == \A i, j \in DOMAIN li : li[i] = li[j] => i = j

\* The list is ordered by deadline, the latest in front: what lets
\* RemoveExpiredRatio stop at the first node that has not expired.
Ordered(li, exp) == \A i, j \in DOMAIN li : i < j => exp[li[i]] >= exp[li[j]]

=============================================================================
