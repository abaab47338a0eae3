-------------------------- MODULE WorkQueueProofs --------------------------
(***************************************************************************)
(* Proofs about WorkQueue, for every set of keys and workers, every delay  *)
(* and every bound.                                                        *)
(***************************************************************************)
EXTENDS WorkQueue, SequenceTheorems, WellFoundedInduction, TLAPS

\* r is s with e put behind its first i items.
Inserted(r, S, s, i, e) ==
    /\ r \in Seq(S) /\ Len(r) = Len(s) + 1
    /\ \A j \in 1..(Len(s)+1) :
         r[j] = IF j < i + 1 THEN s[j] ELSE IF j = i + 1 THEN e ELSE s[j-1]

\* What InsertAfter returns, position by position.
LEMMA InsertAfterProps ==
    ASSUME NEW S, NEW s \in Seq(S), NEW i \in 0..Len(s), NEW e \in S
    PROVE  Inserted(InsertAfter(s, i, e), S, s, i, e)
<1> DEFINE a == SubSeq(s, 1, i)
           b == <<e>>
           c == SubSeq(s, i+1, Len(s))
<1>1. a \in Seq(S) /\ Len(a) = i /\ \A j \in 1..i : a[j] = s[j]
  BY SubSeqProperties
<1>2. c \in Seq(S) /\ Len(c) = Len(s) - i /\ \A j \in 1..(Len(s)-i) : c[j] = s[i+j]
  BY SubSeqProperties
<1>3. b \in Seq(S) /\ Len(b) = 1 /\ b[1] = e
  OBVIOUS
<1> HIDE DEF a, b, c
<1> DEFINE ab == a \o b
<1>4. /\ ab \in Seq(S) /\ Len(ab) = i + 1
      /\ \A j \in 1..(i+1) : ab[j] = IF j < i + 1 THEN s[j] ELSE e
  <2>1. /\ ab \in Seq(S) /\ Len(ab) = Len(a) + Len(b)
        /\ \A j \in 1..(Len(a) + Len(b)) : ab[j] = IF j <= Len(a) THEN a[j] ELSE b[j - Len(a)]
    BY <1>1, <1>3, ConcatProperties, Zenon
  <2> QED BY <2>1, <1>1, <1>3
<1> HIDE DEF ab
<1>5. ab \o c \in Seq(S) /\ Len(ab \o c) = Len(s) + 1
      /\ \A j \in 1..(Len(s)+1) : (ab \o c)[j] = IF j <= i + 1 THEN ab[j] ELSE c[j - (i + 1)]
  <2>1. /\ ab \o c \in Seq(S) /\ Len(ab \o c) = Len(ab) + Len(c)
        /\ \A j \in 1..(Len(ab) + Len(c)) :
             (ab \o c)[j] = IF j <= Len(ab) THEN ab[j] ELSE c[j - Len(ab)]
    BY <1>4, <1>2, ConcatProperties, Zenon
  <2>2. Len(ab) + Len(c) = Len(s) + 1 /\ Len(ab) = i + 1
    BY <1>2, <1>4
  <2> QED BY <2>1, <2>2, Zenon
<1>6. InsertAfter(s, i, e) = ab \o c
  BY Zenon DEF InsertAfter, a, b, c, ab
<1>7. \A j \in 1..(Len(s)+1) : j > i + 1 => c[j - (i + 1)] = s[j-1]
  BY <1>2
<1> QED BY <1>4, <1>5, <1>6, <1>7 DEF Inserted

\* What Remove returns, position by position.
LEMMA RemoveProps ==
    ASSUME NEW S, NEW s \in Seq(S), NEW i \in 1..Len(s)
    PROVE  /\ Remove(s, i) \in Seq(S)
           /\ Len(Remove(s, i)) = Len(s) - 1
           /\ \A j \in 1..(Len(s)-1) : Remove(s, i)[j] = IF j < i THEN s[j] ELSE s[j+1]
<1> DEFINE a == SubSeq(s, 1, i-1)
           c == SubSeq(s, i+1, Len(s))
<1>1. a \in Seq(S) /\ Len(a) = i - 1 /\ \A j \in 1..(i-1) : a[j] = s[j]
  BY SubSeqProperties
<1>2. c \in Seq(S) /\ Len(c) = Len(s) - i /\ \A j \in 1..(Len(s)-i) : c[j] = s[i+j]
  BY SubSeqProperties
<1> HIDE DEF a, c
<1>3. a \o c \in Seq(S) /\ Len(a \o c) = Len(s) - 1
      /\ \A j \in 1..(Len(s)-1) : (a \o c)[j] = IF j <= i - 1 THEN a[j] ELSE c[j - (i - 1)]
  <2>1. /\ a \o c \in Seq(S) /\ Len(a \o c) = Len(a) + Len(c)
        /\ \A j \in 1..(Len(a) + Len(c)) : (a \o c)[j] = IF j <= Len(a) THEN a[j] ELSE c[j - Len(a)]
    BY <1>1, <1>2, ConcatProperties, Zenon
  <2>2. Len(a) + Len(c) = Len(s) - 1 /\ Len(a) = i - 1
    BY <1>1, <1>2
  <2> QED BY <2>1, <2>2, Zenon
<1>4. Remove(s, i) = a \o c
  BY Zenon DEF Remove, a, c
<1>5. \A j \in 1..(Len(s)-1) : j >= i => c[j - (i - 1)] = s[j+1]
  BY <1>2
<1>6. \A j \in 1..(Len(s)-1) : (a \o c)[j] = IF j < i THEN s[j] ELSE s[j+1]
  <2> TAKE j \in 1..(Len(s)-1)
  <2>1. CASE j < i
    <3>1. j <= i - 1 /\ j \in 1..(i-1)
      BY <2>1
    <3> QED BY <3>1, <2>1, <1>1, <1>3, Zenon
  <2>2. CASE ~(j < i)
    <3>1. ~(j <= i - 1) /\ j >= i
      BY <2>2
    <3> QED BY <3>1, <2>2, <1>3, <1>5, Zenon
  <2> QED BY Zenon, <2>1, <2>2
<1> QED BY <1>3, <1>4, <1>6, Zenon

\* Every non-empty set of naturals has a smallest element.
LEMMA SmallestOf ==
    ASSUME NEW T, T \subseteq Nat, T # {}
    PROVE  \E x \in T : \A y \in T : x <= y
<1>1. \E x \in T : \A y \in T : ~(<<y, x>> \in OpToRel(<, Nat))
  BY Zenon, WFMin, NatLessThanWellFounded
<1>2. PICK x \in T : \A y \in T : ~(<<y, x>> \in OpToRel(<, Nat))
  BY Zenon, <1>1
<1>3. \A y \in T : ~(y < x)
  BY Zenon, <1>2 DEF OpToRel
<1>4. x \in Nat /\ \A y \in T : y \in Nat
  OBVIOUS
<1> QED BY <1>3, <1>4

\* The walk back of insert and adjustPosition stops where it should.
LEMMA LastBeforeProps ==
    ASSUME NEW s, NEW p \in Nat, NEW t \in Nat
    PROVE  /\ LastBefore(s, p, t) \in 0..p
           /\ LastBefore(s, p, t) > 0 => s[LastBefore(s, p, t)].at < t
           /\ \A j \in (LastBefore(s, p, t) + 1)..p : ~(s[j].at < t)
<1> DEFINE T == {i \in 0..p : \A j \in (i+1)..p : ~(s[j].at < t)}
<1>1. p \in T /\ T \subseteq Nat
  OBVIOUS
<1>2. PICK x \in T : \A y \in T : x <= y
  BY Zenon, <1>1, SmallestOf
<1>3. x > 0 => s[x].at < t
  <2>1. SUFFICES ASSUME x > 0, ~(s[x].at < t) PROVE FALSE
    OBVIOUS
  <2>2. x - 1 \in 0..p /\ \A j \in ((x-1)+1)..p : j = x \/ j \in (x+1)..p
    BY <2>1
  <2>3. x - 1 \in T
    BY <2>1, <2>2, Zenon
  <2>4. x <= x - 1 /\ x \in Nat
    BY <2>3, <1>2
  <2> QED BY <2>4
<1> QED BY <1>2, <1>3, Zenon DEF LastBefore

----------------------------------------------------------------------------
(* The list: its keys, their uniqueness, its order. *)

KeySet(s)       == {s[i].key : i \in DOMAIN s}
KeysDistinct(s) == \A i, j \in DOMAIN s : s[i].key = s[j].key => i = j
SameButTime(a, b) ==
    a.requeues = b.requeues /\ a.redirtiedAt = b.redirtiedAt /\ a.forget = b.forget
IsSorted(s)     == \A i, j \in DOMAIN s : i < j => s[i].at <= s[j].at

\* Position i is where an item that starts at t goes.
Gap(s, i, t) ==
    /\ i \in 0..Len(s)
    /\ i > 0 => s[i].at < t
    /\ \A j \in (i+1)..Len(s) : ~(s[j].at < t)

\* r is s with one more item, e, and is as good a list as s.
Grown(r, s, e) ==
    /\ r \in Seq(Item) /\ r # <<>>
    /\ KeySet(r) = KeySet(s) \cup {e.key}
    /\ KeysDistinct(r) /\ IsSorted(r)
    /\ \A j \in DOMAIN r : r[j] = e \/ \E h \in DOMAIN s : r[j] = s[h]

\* The items of a list are items, with a planned time.
LEMMA ListedItems ==
    ASSUME NEW s \in Seq(Item), NEW j \in DOMAIN s
    PROVE  s[j] \in Item /\ s[j].at \in Nat /\ s[j].requeues \in Nat /\ s[j].key \in Keys
<1>1. s[j] \in Item
  OBVIOUS
<1> QED BY <1>1, Zenon DEF Item

\* Inserting an item between those that start before it and the others.
LEMMA InsertKeeps ==
    ASSUME NEW s \in Seq(Item), NEW e \in Item, NEW i, Gap(s, i, e.at),
           KeysDistinct(s), e.key \notin KeySet(s), IsSorted(s)
    PROVE  Grown(InsertAfter(s, i, e), s, e)
<1> DEFINE r == InsertAfter(s, i, e)
<1>0. i \in 0..Len(s) /\ (i > 0 => s[i].at < e.at) /\ \A j \in (i+1)..Len(s) : ~(s[j].at < e.at)
  BY Zenon DEF Gap
<1>1. /\ r \in Seq(Item) /\ Len(r) = Len(s) + 1
      /\ \A j \in 1..(Len(s)+1) :
           r[j] = IF j < i + 1 THEN s[j] ELSE IF j = i + 1 THEN e ELSE s[j-1]
  <2>1. i \in 0..Len(s)
    BY <1>0, Zenon
  <2>2. Inserted(r, Item, s, i, e)
    BY Zenon, <2>1, InsertAfterProps
  <2> QED BY <2>2, Zenon DEF Inserted
<1> HIDE DEF r
<1>2. DOMAIN r = 1..(Len(s)+1) /\ DOMAIN s = 1..Len(s) /\ Len(s) \in Nat /\ i \in 0..Len(s)
  BY <1>0, <1>1
<1>3. /\ \A j \in 1..i : r[j] = s[j]
      /\ r[i+1] = e
      /\ \A j \in (i+2)..(Len(s)+1) : r[j] = s[j-1] /\ j - 1 \in (i+1)..Len(s)
  BY <1>1, <1>2
<1>4. \A j \in DOMAIN r : j \in 1..i \/ j = i + 1 \/ j \in (i+2)..(Len(s)+1)
  BY <1>2
<1>5. \A j \in DOMAIN r : r[j] = e \/ \E h \in DOMAIN s : r[j] = s[h]
  <2> TAKE j \in DOMAIN r
  <2>1. CASE j \in 1..i
    BY <2>1, <1>2, <1>3
  <2>2. CASE j \in (i+2)..(Len(s)+1)
    <3>1. r[j] = s[j-1] /\ j - 1 \in DOMAIN s
      BY <2>2, <1>2, <1>3
    <3> QED BY <3>1, Zenon
  <2> QED BY <2>1, <2>2, <1>3, <1>4, Zenon
<1>6. KeySet(r) = KeySet(s) \cup {e.key}
  <2>1. \A j \in DOMAIN r : r[j].key \in KeySet(s) \cup {e.key}
    BY <1>5, Zenon DEF KeySet
  <2>2. \A j \in DOMAIN s : s[j].key \in KeySet(r)
    <3> TAKE j \in DOMAIN s
    <3>1. CASE j <= i
      BY <3>1, <1>2, <1>3 DEF KeySet
    <3>2. CASE ~(j <= i)
      <4>1. j + 1 \in (i+2)..(Len(s)+1) /\ (j + 1) - 1 = j /\ j + 1 \in DOMAIN r
        BY <3>2, <1>2
      <4>2. r[j+1] = s[j]
        BY <4>1, <1>3, Zenon
      <4> QED BY <4>1, <4>2, Zenon DEF KeySet
    <3> QED BY <3>1, <3>2, Zenon
  <2>3. e.key \in KeySet(r)
    <3>1. i + 1 \in DOMAIN r /\ r[i+1] = e
      BY <1>2, <1>3
    <3> QED BY <3>1, Zenon DEF KeySet
  <2> QED BY <2>1, <2>2, <2>3, Zenon DEF KeySet
<1>7. KeysDistinct(r)
  <2> SUFFICES ASSUME NEW a \in DOMAIN r, NEW b \in DOMAIN r, a < b, r[a].key = r[b].key
               PROVE  FALSE
    BY <1>2 DEF KeysDistinct
  <2>1. \A j \in DOMAIN s : s[j].key # e.key
    BY Zenon DEF KeySet
  <2>2. CASE a \in 1..i /\ b \in 1..i
    BY <2>2, <1>2, <1>3 DEF KeysDistinct
  <2>3. CASE a = i + 1 \/ b = i + 1
    BY SMTT(20), <2>1, <2>3, <1>2, <1>3, <1>4
  <2>4. CASE a \in 1..i /\ b \in (i+2)..(Len(s)+1)
    <3>1. r[a] = s[a] /\ r[b] = s[b-1] /\ a \in DOMAIN s /\ b - 1 \in DOMAIN s /\ a # b - 1
      BY <2>4, <1>2, <1>3
    <3> QED BY <3>1, Zenon DEF KeysDistinct
  <2>5. CASE a \in (i+2)..(Len(s)+1) /\ b \in (i+2)..(Len(s)+1)
    <3>1. r[a] = s[a-1] /\ r[b] = s[b-1] /\ a - 1 \in DOMAIN s /\ b - 1 \in DOMAIN s
          /\ a - 1 # b - 1
      BY <2>5, <1>2, <1>3
    <3> QED BY <3>1, Zenon DEF KeysDistinct
  <2> QED BY <2>2, <2>3, <2>4, <2>5, <1>2, <1>4
<1>8. IsSorted(r)
  <2> SUFFICES ASSUME NEW a \in DOMAIN r, NEW b \in DOMAIN r, a < b
               PROVE  r[a].at <= r[b].at
    BY Zenon DEF IsSorted
  <2>0. e.at \in Nat /\ \A j \in DOMAIN s : s[j].at \in Nat
    <3>1. \A j \in DOMAIN s : s[j] \in Item
      BY <1>2
    <3> QED BY <3>1, Zenon DEF Item
  <2>1. \A j \in 1..i : s[j].at <= e.at
    <3> TAKE j \in 1..i
    <3>1. i \in DOMAIN s /\ j \in DOMAIN s /\ i > 0
      BY <1>2
    <3>2. s[j].at <= s[i].at
      BY <3>1, <2>0 DEF IsSorted
    <3> QED BY <3>1, <3>2, <2>0, <1>0
  <2>2. \A j \in (i+1)..Len(s) : e.at <= s[j].at
    BY <2>0, <1>0, <1>2
  <2>3. CASE a \in 1..i /\ b \in 1..i
    BY <2>3, <1>2, <1>3 DEF IsSorted
  <2>4. CASE a \in 1..i /\ b = i + 1
    BY <2>4, <2>1, <1>3, Zenon
  <2>5. CASE a \in 1..i /\ b \in (i+2)..(Len(s)+1)
    <3>1. r[a] = s[a] /\ r[b] = s[b-1] /\ a \in DOMAIN s /\ b - 1 \in DOMAIN s /\ a < b - 1
      BY <2>5, <1>2, <1>3
    <3> QED BY <3>1, Zenon DEF IsSorted
  <2>6. CASE a = i + 1 /\ b \in (i+2)..(Len(s)+1)
    BY <2>6, <2>2, <1>3, Zenon
  <2>7. CASE a \in (i+2)..(Len(s)+1) /\ b \in (i+2)..(Len(s)+1)
    <3>1. r[a] = s[a-1] /\ r[b] = s[b-1] /\ a - 1 \in DOMAIN s /\ b - 1 \in DOMAIN s
          /\ a - 1 < b - 1
      BY <2>7, <1>2, <1>3
    <3> QED BY <3>1, Zenon DEF IsSorted
  <2> QED BY <2>3, <2>4, <2>5, <2>6, <2>7, <1>2, <1>4
<1>9. r # <<>>
  BY <1>1, <1>2
<1> QED BY <1>1, <1>6, <1>7, <1>8, <1>5, <1>9, Zenon DEF r, Grown

\* Removing one item.
LEMMA RemoveKeeps ==
    ASSUME NEW s \in Seq(Item), NEW p \in DOMAIN s, KeysDistinct(s), IsSorted(s)
    PROVE  LET r == Remove(s, p)
           IN  /\ r \in Seq(Item)
               /\ KeySet(r) = KeySet(s) \ {s[p].key}
               /\ KeysDistinct(r) /\ IsSorted(r)
               /\ \A j \in DOMAIN r : \E h \in DOMAIN s : r[j] = s[h]
               /\ s # <<>>
               /\ r # <<>> => s[1].at <= r[1].at
<1> DEFINE r == Remove(s, p)
<1>1. /\ r \in Seq(Item) /\ Len(r) = Len(s) - 1
      /\ \A j \in 1..(Len(s)-1) : r[j] = IF j < p THEN s[j] ELSE s[j+1]
  <2>1. p \in 1..Len(s)
    OBVIOUS
  <2> QED BY Zenon, <2>1, RemoveProps
<1> HIDE DEF r
<1>2. DOMAIN r = 1..(Len(s)-1) /\ DOMAIN s = 1..Len(s) /\ Len(s) \in Nat /\ p \in 1..Len(s)
  BY <1>1
<1> DEFINE from(j) == IF j < p THEN j ELSE j + 1
<1>3. /\ \A j \in DOMAIN r : from(j) \in DOMAIN s /\ from(j) # p /\ r[j] = s[from(j)]
      /\ \A a, b \in DOMAIN r : a < b => from(a) < from(b)
  BY <1>1, <1>2
<1>4. \A h \in DOMAIN s : h # p => \E j \in DOMAIN r : from(j) = h
  <2> TAKE h \in DOMAIN s
  <2>1. CASE h < p
    <3>1. h \in DOMAIN r /\ from(h) = h
      BY <2>1, <1>2
    <3> QED BY <3>1, Zenon
  <2>2. CASE h > p
    <3>1. h - 1 \in DOMAIN r /\ from(h - 1) = h
      BY <2>2, <1>2
    <3> QED BY <3>1, Zenon
  <2> QED BY <2>1, <2>2, <1>2
<1>5. \A j \in DOMAIN r : j \in Nat /\ from(j) \in Nat
  BY <1>2
<1> HIDE DEF from
<1>6. KeySet(r) = KeySet(s) \ {s[p].key}
  BY <1>3, <1>4 DEF KeySet, KeysDistinct
<1>7. KeysDistinct(r)
  <2> SUFFICES ASSUME NEW a \in DOMAIN r, NEW b \in DOMAIN r, a < b, r[a].key = r[b].key
               PROVE  FALSE
    BY <1>2 DEF KeysDistinct
  <2>1. from(a) = from(b)
    BY <1>3, Zenon DEF KeysDistinct
  <2> QED BY <2>1, <1>3, <1>5
<1>8. IsSorted(r)
  BY <1>3, Zenon DEF IsSorted
<1>9. s # <<>> /\ (r # <<>> => s[1].at <= r[1].at)
  <2>1. s # <<>>
    BY <1>2
  <2>2. ASSUME r # <<>> PROVE s[1].at <= r[1].at
    <3>1. 1 \in DOMAIN r
      BY <2>2, <1>1, <1>2
    <3>2. from(1) \in DOMAIN s /\ r[1] = s[from(1)] /\ 1 \in DOMAIN s /\ s[1].at \in Nat
      BY <3>1, <1>2, <1>3, ListedItems
    <3>3. from(1) = 1 \/ 1 < from(1)
      BY <3>2, <1>2
    <3> QED BY <3>2, <3>3 DEF IsSorted
  <2> QED BY <2>1, <2>2, Zenon
<1> QED BY <1>1, <1>3, <1>6, <1>7, <1>8, <1>9, Zenon DEF r

\* PositionOf finds the item of a listed key.
LEMMA PositionOfListed ==
    ASSUME NEW s, NEW k \in KeySet(s)
    PROVE  PositionOf(s, k) \in DOMAIN s /\ s[PositionOf(s, k)].key = k
BY Zenon DEF KeySet, PositionOf

\* A new item lands where the list stays sorted.
LEMMA PlaceKeeps ==
    ASSUME NEW s \in Seq(Item), NEW e \in Item,
           KeysDistinct(s), e.key \notin KeySet(s), IsSorted(s)
    PROVE  Grown(Place(s, e), s, e)
<1> DEFINE i == LastBefore(s, Len(s), e.at)
<1>1. Gap(s, i, e.at)
  <2>1. e.at \in Nat /\ Len(s) \in Nat
    BY DEF Item
  <2> QED BY <2>1, LastBeforeProps, Zenon DEF Gap
<1> HIDE DEF i
<1> QED BY <1>1, InsertKeeps, Zenon DEF Place, i

\* A queued item brought forward lands where the list stays sorted.
LEMMA AdjustKeeps ==
    ASSUME NEW s \in Seq(Item), NEW k \in KeySet(s), NEW when \in Nat,
           KeysDistinct(s), IsSorted(s)
    PROVE  LET r == AdjustPosition(s, k, when)
           IN  /\ r \in Seq(Item)
               /\ KeySet(r) = KeySet(s)
               /\ KeysDistinct(r) /\ IsSorted(r)
               /\ \A j \in DOMAIN r : \E h \in DOMAIN s : SameButTime(r[j], s[h])
<1> DEFINE p == PositionOf(s, k)
           r == Remove(s, p)
           i == LastBefore(s, p - 1, when)
           e == [s[p] EXCEPT !.at = when]
<1>1. p \in DOMAIN s /\ s[p].key = k /\ s[p] \in Item /\ p \in 1..Len(s)
  BY PositionOfListed
<1>2. CASE when > s[p].at
  BY <1>2, Zenon DEF AdjustPosition, SameButTime
<1>3. CASE ~(when > s[p].at)
  <2>1. e \in Item /\ e.key = k /\ e.at = when /\ SameButTime(e, s[p])
    BY <1>1, Zenon DEF Item, SameButTime
  <2>2. /\ r \in Seq(Item) /\ KeySet(r) = KeySet(s) \ {k}
        /\ KeysDistinct(r) /\ IsSorted(r)
        /\ \A j \in DOMAIN r : \E h \in DOMAIN s : r[j] = s[h]
    BY <1>1, RemoveKeeps, Zenon
  <2>3. /\ Len(r) = Len(s) - 1
        /\ \A j \in 1..(Len(s)-1) : r[j] = IF j < p THEN s[j] ELSE s[j+1]
    BY <1>1, RemoveProps, Zenon
  <2>4. /\ i \in 0..(p-1)
        /\ i > 0 => s[i].at < when
        /\ \A j \in (i+1)..(p-1) : ~(s[j].at < when)
    <3>1. p - 1 \in Nat
      BY <1>1
    <3> QED BY Zenon, <3>1, LastBeforeProps
  <2> HIDE DEF p, r, i, e
  <2>5. i \in 0..Len(r) /\ (i > 0 => r[i].at < e.at)
    BY SMTT(20), <1>1, <2>1, <2>3, <2>4
  <2>6. \A j \in (i+1)..Len(r) : ~(r[j].at < e.at)
    <3> TAKE j \in (i+1)..Len(r)
    <3>1. CASE j < p
      BY <3>1, <1>1, <2>1, <2>3, <2>4
    <3>2. CASE ~(j < p)
      <4>1. j + 1 \in DOMAIN s /\ p < j + 1 /\ r[j] = s[j+1]
        BY <3>2, <1>1, <2>3, <2>4
      <4>2. s[p].at <= s[j+1].at /\ s[j+1].at \in Nat /\ s[p].at \in Nat
        BY <4>1, <1>1, ListedItems, Zenon DEF IsSorted
      <4> QED BY <4>1, <4>2, <1>3, <2>1
    <3> QED BY <3>1, <3>2, Zenon
  <2>7. AdjustPosition(s, k, when) = InsertAfter(r, i, e)
    BY <1>3, Zenon DEF AdjustPosition, p, r, i, e
  <2>8. e.key \notin KeySet(r)
    BY <2>1, <2>2, Zenon
  <2>9. Gap(r, i, e.at)
    BY <2>5, <2>6, Zenon DEF Gap
  <2>10. Grown(InsertAfter(r, i, e), r, e)
    BY <2>1, <2>2, <2>8, <2>9, InsertKeeps, Zenon
  <2>11. KeySet(r) \cup {e.key} = KeySet(s)
    BY <2>1, <2>2, Zenon
  <2>12. \A j \in DOMAIN InsertAfter(r, i, e) :
            \E h \in DOMAIN s : SameButTime(InsertAfter(r, i, e)[j], s[h])
    <3> TAKE j \in DOMAIN InsertAfter(r, i, e)
    <3>1. CASE InsertAfter(r, i, e)[j] = e
      BY <3>1, <1>1, <2>1, Zenon
    <3>2. ASSUME NEW h \in DOMAIN r, InsertAfter(r, i, e)[j] = r[h]
          PROVE  \E g \in DOMAIN s : SameButTime(InsertAfter(r, i, e)[j], s[g])
      BY <3>2, <2>2, Zenon DEF SameButTime
    <3> QED BY <3>1, <3>2, <2>10, Zenon DEF Grown
  <2> QED BY <2>7, <2>10, <2>11, <2>12, Zenon DEF Grown
<1> QED BY <1>2, <1>3, Zenon

----------------------------------------------------------------------------
(* The inductive invariant.  The properties of WorkQueue are inductive only *)
(* together, and with what ties a worker to the item it handles: the waiter *)
(* handles nothing, an item is filed under its own key, its count of tries  *)
(* is within bounds, nobody is parked when nobody waits, and the clock is   *)
(* past the zero time that marks an item as not re-dirtied.                 *)

Handlers ==
    /\ now > 0
    /\ waiter # NoWorker => busy[waiter] = NoKey
    /\ waiter = NoWorker => parked = "no"
    /\ \A k \in Keys : itemsBeingProcessed[k] # NoItem =>
          itemsBeingProcessed[k].key = k /\ itemsBeingProcessed[k].requeues < MaxTries

IInv == TypeOK /\ IndexAgrees /\ OneWorkerPerKey /\ SortedByStart /\ NoLostWakeup
        /\ CleanItems /\ Handlers

\* The two invariants about the list, in terms of the predicates on lists.
LEMMA ListFacts ==
    /\ IndexAgrees <=> itemsInQueue = KeySet(items) /\ KeysDistinct(items)
    /\ SortedByStart <=> IsSorted(items)
    /\ IndexAgrees' <=> itemsInQueue' = KeySet(items') /\ KeysDistinct(items')
    /\ SortedByStart' <=> IsSorted(items')
BY Zenon DEF IndexAgrees, SortedByStart, KeySet, KeysDistinct, IsSorted

\* A new queueItem is one, and clean.
LEMMA NewItemType ==
    ASSUME NEW k \in Keys, NEW t \in Nat
    PROVE  /\ NewItem(k, t) \in Item /\ NewItem(k, t).key = k
           /\ NewItem(k, t).requeues = 0 /\ NewItem(k, t).at = t
           /\ NewItem(k, t).redirtiedAt = 0 /\ ~NewItem(k, t).forget
BY Zenon DEF NewItem, Item

\* Initially there is nothing to get wrong.
LEMMA InitIInv == Init => IInv
<1> SUFFICES ASSUME Init PROVE IInv
  OBVIOUS
<1> USE QueueAssumption DEF Init
<1>1. TypeOK
  <2>1. items \in Seq(Item) /\ itemsInQueue \in SUBSET Keys /\ exited \in SUBSET Workers
    OBVIOUS
  <2>2. itemsBeingProcessed \in [Keys -> Item \cup {NoItem}] /\ busy \in [Workers -> Keys \cup {NoKey}]
    OBVIOUS
  <2> QED BY Zenon, <2>1, <2>2 DEF TypeOK
<1>2. items = <<>> /\ DOMAIN items = {}
  OBVIOUS
<1>3. IndexAgrees /\ SortedByStart /\ CleanItems
  BY <1>2, Zenon DEF IndexAgrees, SortedByStart, CleanItems
<1>4. OneWorkerPerKey /\ NoLostWakeup /\ Handlers
  BY DEF OneWorkerPerKey, NoLostWakeup, Handlers
<1> QED BY <1>1, <1>3, <1>4, Zenon DEF IInv

\* Placing an item of an unlisted key in the list and in the index.
LEMMA PlacePreserves ==
    ASSUME IInv, NEW k \in Keys, NEW e \in Item, e.key = k, e.requeues < MaxTries,
           e.redirtiedAt = 0, ~e.forget,
           k \notin itemsInQueue,
           items' = Place(items, e), itemsInQueue' = itemsInQueue \cup {k}
    PROVE  /\ items' \in Seq(Item) /\ itemsInQueue' \in SUBSET Keys
           /\ IndexAgrees' /\ SortedByStart' /\ CleanItems'
<1>1. itemsInQueue = KeySet(items) /\ KeysDistinct(items) /\ IsSorted(items)
      /\ items \in Seq(Item) /\ itemsInQueue \in SUBSET Keys
  BY ListFacts, Zenon DEF IInv, TypeOK
<1>2. Grown(items', items, e)
  BY <1>1, PlaceKeeps, Zenon
<1>3. IndexAgrees' /\ SortedByStart'
  BY <1>1, <1>2, ListFacts, Zenon DEF Grown
<1>4. CleanItems'
  BY <1>2, Zenon DEF IInv, CleanItems, Grown
<1> QED BY <1>1, <1>2, <1>3, <1>4, Zenon DEF Grown

\* insert, whichever of its three cases applies.
LEMMA InsertPreserves ==
    ASSUME IInv, NEW k \in Keys, NEW when \in Nat \ {0}, NEW planned \in Nat \ {0},
           Insert(k, when, planned), enqueues' \in Nat,
           UNCHANGED <<now, busy, waiter, parked, timer, cancelled, exited>>
    PROVE  IInv'
<1> USE QueueAssumption
<1>0. wakeup' = TRUE /\ NoLostWakeup'
  BY Zenon DEF Insert, NoLostWakeup
<1>1. CASE itemsBeingProcessed[k] # NoItem
  <2>1. /\ itemsBeingProcessed' = [itemsBeingProcessed EXCEPT ![k] = Redirty(@, when)]
        /\ items' = items /\ itemsInQueue' = itemsInQueue
    BY <1>1, Zenon DEF Insert
  <2>2. itemsBeingProcessed \in [Keys -> Item \cup {NoItem}] /\ itemsBeingProcessed[k] \in Item
    BY <1>1, Zenon DEF IInv, TypeOK
  <2>3. LET r == Redirty(itemsBeingProcessed[k], when)
        IN  /\ r \in Item /\ r.key = itemsBeingProcessed[k].key
            /\ r.requeues = itemsBeingProcessed[k].requeues
    BY Zenon, <2>2 DEF Redirty, Item
  <2>4. \A j \in Keys : /\ itemsBeingProcessed'[j] = NoItem <=> itemsBeingProcessed[j] = NoItem
                        /\ j # k => itemsBeingProcessed'[j] = itemsBeingProcessed[j]
    BY <2>1, <2>2, <2>3, <1>1, Zenon
  <2>5. TypeOK'
    BY <2>1, <2>2, <2>3, <1>0, Zenon DEF IInv, TypeOK
  <2>6. IndexAgrees' /\ SortedByStart' /\ CleanItems'
    BY <2>1, Zenon DEF IInv, IndexAgrees, SortedByStart, CleanItems
  <2>7. OneWorkerPerKey'
    <3>1. itemsInQueue \subseteq Keys
      BY Zenon DEF IInv, TypeOK
    <3> QED BY <3>1, <2>1, <2>4, Zenon DEF IInv, OneWorkerPerKey
  <2>8. Handlers'
    BY <1>1, <2>1, <2>2, <2>3, <2>4, Zenon DEF IInv, Handlers
  <2> QED BY <1>0, <2>5, <2>6, <2>7, <2>8, Zenon DEF IInv
<1>2. CASE itemsBeingProcessed[k] = NoItem
  <2>1. /\ itemsBeingProcessed' = itemsBeingProcessed
        /\ itemsInQueue' = itemsInQueue \cup {k}
        /\ k \in itemsInQueue => items' = AdjustPosition(items, k, when)
        /\ k \notin itemsInQueue => items' = Place(items, NewItem(k, planned))
    BY <1>2, Zenon DEF Insert
  <2>2. /\ items' \in Seq(Item) /\ itemsInQueue' \in SUBSET Keys
        /\ IndexAgrees' /\ SortedByStart' /\ CleanItems'
    <3>1. CASE k \notin itemsInQueue
      BY <3>1, <2>1, PlacePreserves, NewItemType
    <3>2. CASE k \in itemsInQueue
      <4>1. /\ items \in Seq(Item) /\ k \in KeySet(items) /\ KeysDistinct(items)
            /\ IsSorted(items) /\ itemsInQueue = KeySet(items) /\ itemsInQueue \in SUBSET Keys
        BY <3>2, ListFacts, Zenon DEF IInv, TypeOK
      <4>2. LET r == AdjustPosition(items, k, when)
            IN  /\ r \in Seq(Item) /\ KeySet(r) = KeySet(items)
                /\ KeysDistinct(r) /\ IsSorted(r)
                /\ \A j \in DOMAIN r : \E h \in DOMAIN items : SameButTime(r[j], items[h])
        BY <4>1, AdjustKeeps, Zenon
      <4>3. IndexAgrees' /\ SortedByStart'
        BY <3>2, <2>1, <4>1, <4>2, ListFacts, Zenon
      <4>4. CleanItems'
        BY <3>2, <2>1, <4>2 DEF IInv, CleanItems, SameButTime
      <4> QED BY <3>2, <2>1, <4>1, <4>2, <4>3, <4>4, Zenon
    <3> QED BY <3>1, <3>2, Zenon
  <2>3. TypeOK'
    BY <1>0, <2>1, <2>2, Zenon DEF IInv, TypeOK
  <2>4. OneWorkerPerKey' /\ Handlers'
    BY <1>2, <2>1, Zenon DEF IInv, OneWorkerPerKey, Handlers
  <2> QED BY <1>0, <2>2, <2>3, <2>4, Zenon DEF IInv
<1> QED BY <1>1, <1>2, Zenon

\* Removing an item from the list and from the index; the front only gets later.
LEMMA RemovePreserves ==
    ASSUME IInv, NEW p \in DOMAIN items,
           items' = Remove(items, p), itemsInQueue' = itemsInQueue \ {items[p].key}
    PROVE  /\ items' \in Seq(Item) /\ itemsInQueue' \in SUBSET Keys
           /\ IndexAgrees' /\ SortedByStart' /\ CleanItems'
           /\ items # <<>> /\ (items' # <<>> => items[1].at <= items'[1].at)
<1>1. itemsInQueue = KeySet(items) /\ KeysDistinct(items) /\ IsSorted(items)
      /\ items \in Seq(Item) /\ itemsInQueue \in SUBSET Keys
  BY ListFacts, Zenon DEF IInv, TypeOK
<1>2. LET r == Remove(items, p)
      IN  /\ r \in Seq(Item)
          /\ KeySet(r) = KeySet(items) \ {items[p].key}
          /\ KeysDistinct(r) /\ IsSorted(r)
          /\ \A j \in DOMAIN r : \E h \in DOMAIN items : r[j] = items[h]
          /\ items # <<>>
          /\ r # <<>> => items[1].at <= r[1].at
  BY <1>1, RemoveKeeps, Zenon
<1>3. IndexAgrees' /\ SortedByStart'
  BY <1>1, <1>2, ListFacts, Zenon
<1>4. CleanItems'
  BY <1>2, Zenon DEF IInv, CleanItems
<1> QED BY <1>1, <1>2, <1>3, <1>4, Zenon

\* Taking the front element is removing position 1.
LEMMA TailIsRemove ==
    ASSUME NEW s \in Seq(Item), s # <<>>
    PROVE  Tail(s) = Remove(s, 1) /\ 1 \in DOMAIN s
<1>1. 1 \in 1..Len(s) /\ 1 \in DOMAIN s /\ Len(s) \in Nat
  OBVIOUS
<1>2. /\ Remove(s, 1) \in Seq(Item) /\ Len(Remove(s, 1)) = Len(s) - 1
      /\ \A j \in 1..(Len(s)-1) : Remove(s, 1)[j] = IF j < 1 THEN s[j] ELSE s[j+1]
  BY <1>1, RemoveProps, Zenon
<1>3. Tail(s) \in Seq(Item) /\ Len(Tail(s)) = Len(s) - 1 /\ \A j \in 1..(Len(s)-1) : Tail(s)[j] = s[j+1]
  BY HeadTailProperties, Zenon
<1>4. \A j \in 1..Len(Tail(s)) : Tail(s)[j] = Remove(s, 1)[j]
  BY <1>1, <1>2, <1>3
<1> QED BY <1>1, <1>2, <1>3, <1>4, SeqEqual, Zenon

\* Forget of a listed, or of a running, key keeps the invariant.
LEMMA ForgetPreserves ==
    ASSUME IInv, NEW k \in Keys, Forget(k)
    PROVE  IInv'
<1> USE QueueAssumption
<1>0. /\ UNCHANGED <<now, busy, waiter, parked, timer, cancelled, exited, wakeup>>
      /\ enqueues' \in Nat
  BY DEF Forget, CallMade, waitVars, IInv, TypeOK
<1>1. CASE /\ k \in itemsInQueue
           /\ items' = Remove(items, PositionOf(items, k))
           /\ itemsInQueue' = itemsInQueue \ {k}
           /\ UNCHANGED itemsBeingProcessed
  <2> DEFINE p == PositionOf(items, k)
  <2>1. p \in DOMAIN items /\ items[p].key = k
    BY <1>1, PositionOfListed, ListFacts, Zenon DEF IInv
  <2> HIDE DEF p
  <2>2. /\ items' \in Seq(Item) /\ itemsInQueue' \in SUBSET Keys
        /\ IndexAgrees' /\ SortedByStart' /\ CleanItems'
        /\ items # <<>> /\ (items' # <<>> => items[1].at <= items'[1].at)
    BY <1>1, <2>1, RemovePreserves, Zenon DEF p
  <2>3. TypeOK'
    BY <1>0, <1>1, <2>2, Zenon DEF IInv, TypeOK
  <2>4. OneWorkerPerKey' /\ Handlers'
    BY <1>0, <1>1, Zenon DEF IInv, OneWorkerPerKey, Handlers
  <2>5. NoLostWakeup'
    <3>1. SUFFICES ASSUME waiter # NoWorker, ~wakeup, parked = "timer", items' # <<>>
                   PROVE  timer <= items'[1].at
      BY <1>0, <2>2, Zenon DEF IInv, NoLostWakeup
    <3>2. timer <= items[1].at /\ items[1].at <= items'[1].at
      BY <3>1, <2>2, Zenon DEF IInv, NoLostWakeup
    <3>3. timer \in Nat /\ items[1].at \in Nat /\ items'[1].at \in Nat
      <4>1. 1 \in DOMAIN items /\ 1 \in DOMAIN items' /\ items \in Seq(Item)
        BY <3>1, <2>2 DEF IInv, TypeOK
      <4> QED BY <4>1, <2>2, ListedItems, Zenon DEF IInv, TypeOK
    <3> QED BY <3>2, <3>3
  <2> QED BY <2>2, <2>3, <2>4, <2>5, Zenon DEF IInv
<1>2. CASE /\ k \notin itemsInQueue /\ itemsBeingProcessed[k] # NoItem
           /\ itemsBeingProcessed' = [itemsBeingProcessed EXCEPT ![k].forget = TRUE]
           /\ UNCHANGED <<items, itemsInQueue>>
  <2>1. itemsBeingProcessed \in [Keys -> Item \cup {NoItem}] /\ itemsBeingProcessed[k] \in Item
    BY <1>2, Zenon DEF IInv, TypeOK
  <2>2. LET r == [itemsBeingProcessed[k] EXCEPT !.forget = TRUE]
        IN  /\ r \in Item /\ r.key = itemsBeingProcessed[k].key
            /\ r.requeues = itemsBeingProcessed[k].requeues
            /\ itemsBeingProcessed' = [itemsBeingProcessed EXCEPT ![k] = r]
    BY Zenon, <1>2, <2>1 DEF Item
  <2>3. \A j \in Keys : /\ itemsBeingProcessed'[j] = NoItem <=> itemsBeingProcessed[j] = NoItem
                        /\ j # k => itemsBeingProcessed'[j] = itemsBeingProcessed[j]
    BY Zenon, <1>2, <2>1, <2>2
  <2>4. TypeOK'
    BY <1>0, <1>2, <2>1, <2>2 DEF IInv, TypeOK
  <2>5. OneWorkerPerKey'
    <3>1. itemsInQueue \subseteq Keys
      BY Zenon DEF IInv, TypeOK
    <3> QED BY <3>1, <1>0, <1>2, <2>3, Zenon DEF IInv, OneWorkerPerKey
  <2>6. Handlers'
    BY <1>0, <1>2, <2>1, <2>2, <2>3, Zenon DEF IInv, Handlers
  <2>7. IndexAgrees' /\ SortedByStart' /\ CleanItems' /\ NoLostWakeup'
    BY <1>0, <1>2, Zenon DEF IInv, IndexAgrees, SortedByStart, CleanItems, NoLostWakeup
  <2> QED BY <2>4, <2>5, <2>6, <2>7, Zenon DEF IInv
<1> QED BY <1>1, <1>2, Zenon DEF Forget

\* getNextItem handing the front item to a worker keeps the invariant.
LEMMA TakePreserves ==
    ASSUME IInv, NEW w \in Workers, Take(w)
    PROVE  IInv'
<1> USE QueueAssumption
<1> DEFINE item == items[1]
           k == item.key
<1>1. /\ waiter = w /\ items # <<>> /\ items \in Seq(Item)
      /\ itemsBeingProcessed' = [itemsBeingProcessed EXCEPT ![k] = item]
      /\ itemsInQueue' = itemsInQueue \ {k}
      /\ busy' = [busy EXCEPT ![w] = k]
      /\ items' = Tail(items) /\ waiter' = NoWorker /\ parked' = "no" /\ parked = "no"
      /\ UNCHANGED <<now, wakeup, timer, cancelled, exited, enqueues>>
  BY Zenon DEF Take, IInv, TypeOK
<1>2. 1 \in DOMAIN items /\ items' = Remove(items, 1) /\ item \in Item /\ k \in Keys
      /\ k \in itemsInQueue /\ item.requeues < MaxTries
  <2>1. 1 \in DOMAIN items /\ items' = Remove(items, 1)
    BY <1>1, TailIsRemove, Zenon
  <2> QED BY <1>1, <2>1, ListedItems, Zenon DEF IInv, IndexAgrees, CleanItems
<1>3. itemsBeingProcessed[k] = NoItem /\ \A v \in Workers : busy[v] # k
  BY <1>2, Zenon DEF IInv, OneWorkerPerKey
<1>4. busy[w] = NoKey /\ item # NoItem /\ k # NoKey
  BY <1>1, <1>2, Zenon DEF IInv, Handlers
<1> HIDE DEF item, k
<1>5. /\ items' \in Seq(Item) /\ itemsInQueue' \in SUBSET Keys
      /\ IndexAgrees' /\ SortedByStart' /\ CleanItems'
  BY <1>1, <1>2, RemovePreserves, Zenon DEF item, k
<1>6. TypeOK'
  BY <1>1, <1>2, <1>5, Zenon DEF IInv, TypeOK
<1>7. OneWorkerPerKey'
  <2>1. /\ busy \in [Workers -> Keys \cup {NoKey}]
        /\ itemsBeingProcessed \in [Keys -> Item \cup {NoItem}] /\ itemsInQueue \subseteq Keys
    BY Zenon DEF IInv, TypeOK
  <2>2. \A v \in Workers : busy'[v] = IF v = w THEN k ELSE busy[v]
    BY <1>1, <2>1, Zenon
  <2>3. \A j \in Keys : itemsBeingProcessed'[j] = IF j = k THEN item ELSE itemsBeingProcessed[j]
    BY <1>1, <2>1, Zenon
  <2>4. \A u, v \in Workers : busy'[u] = busy'[v] /\ busy'[u] # NoKey => u = v
    BY <2>2, <1>3, Zenon DEF IInv, OneWorkerPerKey
  <2>5. \A j \in Keys : itemsBeingProcessed'[j] # NoItem <=> \E v \in Workers : busy'[v] = j
    <3> TAKE j \in Keys
    <3>1. CASE j = k
      BY <3>1, <2>2, <2>3, <1>4, Zenon
    <3>2. CASE j # k
      BY <3>2, <2>2, <2>3, <1>4, ZenonT(60) DEF IInv, OneWorkerPerKey
    <3> QED BY <3>1, <3>2, Zenon
  <2>6. \A j \in itemsInQueue' : itemsBeingProcessed'[j] = NoItem
    BY <1>1, <2>1, <2>3, Zenon DEF IInv, OneWorkerPerKey
  <2> QED BY <2>4, <2>5, <2>6, Zenon DEF OneWorkerPerKey
<1>8. NoLostWakeup'
  BY <1>1, Zenon DEF NoLostWakeup
<1>9. Handlers'
  <2>1. itemsBeingProcessed \in [Keys -> Item \cup {NoItem}] /\ item.key = k
    BY Zenon DEF IInv, TypeOK, k
  <2> QED BY <1>1, <1>2, <2>1, Zenon DEF IInv, Handlers
<1> QED BY <1>5, <1>6, <1>7, <1>8, <1>9, Zenon DEF IInv

\* What handleQueueItemObject puts back is an item of the same key, within its tries.
LEMMA RequeuedType ==
    ASSUME IInv, NEW item \in Item, NEW outcome, NEW d \in LimiterDelays,
           Requeued(item, outcome, d) # NoItem
    PROVE  LET back == Requeued(item, outcome, d)
           IN  /\ back \in Item /\ back.key = item.key /\ back.requeues < MaxTries
               /\ back.redirtiedAt = 0 /\ ~back.forget
<1> USE QueueAssumption
<1>1. item.key \in Keys /\ item.requeues \in Nat /\ item.redirtiedAt \in Nat /\ d \in Nat
      /\ now \in Nat /\ now + d \in Nat
  BY DEF Item, IInv, TypeOK
<1>2. CASE ~item.forget /\ Retries(item, outcome)
  <2>1. Requeued(item, outcome, d) = [NewItem(item.key, now + d) EXCEPT !.requeues = item.requeues + 1]
    BY <1>2, Zenon DEF Requeued
  <2>2. item.requeues + 1 < MaxTries
    BY <1>2, Zenon DEF Retries
  <2> DEFINE n == NewItem(item.key, now + d)
             m == item.requeues + 1
  <2>3. /\ n \in Item /\ n.key = item.key /\ m \in Nat /\ m < MaxTries
        /\ n.redirtiedAt = 0 /\ ~n.forget
    BY <1>1, <2>2, NewItemType
  <2> HIDE DEF n, m
  <2>4. LET r == [n EXCEPT !.requeues = m]
        IN  /\ r \in Item /\ r.key = n.key /\ r.requeues = m
            /\ r.redirtiedAt = n.redirtiedAt /\ r.forget = n.forget
    BY <2>3, Zenon DEF Item
  <2> QED BY <2>1, <2>3, <2>4, Zenon DEF n, m
<1>3. CASE ~item.forget /\ ~Retries(item, outcome) /\ item.redirtiedAt # 0
  <2>1. Requeued(item, outcome, d) = NewItem(item.key, item.redirtiedAt)
    BY <1>3, Zenon DEF Requeued
  <2> QED BY <1>1, <2>1, NewItemType
<1> QED BY <1>2, <1>3, Zenon DEF Requeued

\* The end of handleQueueItemObject, with or without a requeue, keeps it.
LEMMA FinishPreserves ==
    ASSUME IInv, NEW w \in Workers, Finish(w)
    PROVE  IInv'
<1> USE QueueAssumption
<1> DEFINE k == busy[w]
           item == itemsBeingProcessed[k]
<1>1. /\ k \in Keys /\ busy' = [busy EXCEPT ![w] = NoKey]
      /\ itemsBeingProcessed' = [itemsBeingProcessed EXCEPT ![k] = NoItem]
      /\ UNCHANGED <<now, waiter, parked, timer, cancelled, exited, enqueues>>
  BY Zenon DEF Finish, waitVars, IInv, TypeOK
<1>2. item \in Item /\ item.key = k /\ item.requeues < MaxTries /\ k \notin itemsInQueue
  BY <1>1 DEF IInv, TypeOK, OneWorkerPerKey, Handlers
<1>3. PICK outcome \in {"ok", "transient", "permanent"}, d \in LimiterDelays :
        LET back == Requeued(item, outcome, d)
        IN  IF back = NoItem
              THEN UNCHANGED <<items, itemsInQueue, wakeup>>
              ELSE /\ items' = Place(items, back)
                   /\ itemsInQueue' = itemsInQueue \cup {k}
                   /\ wakeup' = TRUE
  BY Zenon DEF Finish
<1> DEFINE back == Requeued(item, outcome, d)
<1>4. back # NoItem => /\ back \in Item /\ back.key = k /\ back.requeues < MaxTries
                       /\ back.redirtiedAt = 0 /\ ~back.forget
  BY <1>2, RequeuedType
<1> HIDE DEF k, item, back
<1>5. /\ items' \in Seq(Item) /\ itemsInQueue' \in SUBSET Keys /\ wakeup' \in BOOLEAN
      /\ IndexAgrees' /\ SortedByStart' /\ CleanItems' /\ NoLostWakeup'
  <2>1. CASE back = NoItem
    <3>1. UNCHANGED <<items, itemsInQueue, wakeup>>
      BY <2>1, <1>3, Zenon DEF back
    <3> QED BY <3>1, <1>1 DEF IInv, TypeOK, IndexAgrees, SortedByStart, CleanItems, NoLostWakeup
  <2>2. CASE back # NoItem
    <3>1. items' = Place(items, back) /\ itemsInQueue' = itemsInQueue \cup {k} /\ wakeup' = TRUE
      BY <2>2, <1>3, Zenon DEF back
    <3>2. NoLostWakeup'
      BY <3>1, Zenon DEF NoLostWakeup
    <3> QED BY <2>2, <3>1, <3>2, <1>1, <1>2, <1>4, PlacePreserves, Zenon
  <2> QED BY <2>1, <2>2, Zenon
<1>6. itemsInQueue' \subseteq itemsInQueue \cup {k}
  BY <1>3, Zenon
<1>7. TypeOK'
  BY <1>1, <1>5, Zenon DEF IInv, TypeOK
<1>8. OneWorkerPerKey'
  <2>1. /\ busy \in [Workers -> Keys \cup {NoKey}]
        /\ itemsBeingProcessed \in [Keys -> Item \cup {NoItem}] /\ itemsInQueue \subseteq Keys
    BY Zenon DEF IInv, TypeOK
  <2>2. \A v \in Workers : busy'[v] = IF v = w THEN NoKey ELSE busy[v]
    BY <1>1, <2>1, Zenon
  <2>3. \A j \in Keys : itemsBeingProcessed'[j] = IF j = k THEN NoItem ELSE itemsBeingProcessed[j]
    BY <1>1, <2>1, Zenon
  <2>4. \A u, v \in Workers : busy'[u] = busy'[v] /\ busy'[u] # NoKey => u = v
    <3>1. \A u, v \in Workers : busy[u] = busy[v] /\ busy[u] # NoKey => u = v
      BY Zenon DEF IInv, OneWorkerPerKey
    <3> SUFFICES ASSUME NEW u \in Workers, NEW v \in Workers,
                        busy'[u] = busy'[v], busy'[u] # NoKey PROVE u = v
      BY Zenon
    <3>2. busy'[u] = busy[u] /\ busy'[v] = busy[v]
      BY <2>2, Zenon
    <3> QED BY <3>1, <3>2, Zenon
  <2>5. \A v \in Workers : busy[v] = k => v = w
    BY <1>1, Zenon DEF IInv, OneWorkerPerKey, k
  <2>6. \A j \in Keys : itemsBeingProcessed'[j] # NoItem <=> \E v \in Workers : busy'[v] = j
    <3> TAKE j \in Keys
    <3>1. CASE j = k
      BY <3>1, <2>2, <2>3, <2>5, Zenon
    <3>2. CASE j # k
      <4>1. \A v \in Workers : busy'[v] = j <=> busy[v] = j
        BY <3>2, <2>2, Zenon DEF k
      <4> QED BY <3>2, <4>1, <2>3, Zenon DEF IInv, OneWorkerPerKey
    <3> QED BY <3>1, <3>2, Zenon
  <2>7. \A j \in itemsInQueue' : itemsBeingProcessed'[j] = NoItem
    BY <1>6, <1>1, <2>1, <2>3, Zenon DEF IInv, OneWorkerPerKey
  <2> QED BY <2>4, <2>6, <2>7, Zenon DEF OneWorkerPerKey
<1>9. Handlers'
  <2>1. /\ busy \in [Workers -> Keys \cup {NoKey}]
        /\ itemsBeingProcessed \in [Keys -> Item \cup {NoItem}] /\ waiter \in Workers \cup {NoWorker}
    BY Zenon DEF IInv, TypeOK
  <2> QED BY <1>1, <2>1, Zenon DEF IInv, Handlers
<1> QED BY <1>5, <1>7, <1>8, <1>9, Zenon DEF IInv

\* The steps that leave the list, the index and the handlers alone.
LEMMA WaitingPreserves ==
    ASSUME IInv, NEW w \in Workers,
           AcquireSemaphore(w) \/ Park(w) \/ WakeUp(w) \/ TimerFires(w) \/ Exit(w)
    PROVE  IInv'
<1> USE QueueAssumption
<1>1. /\ UNCHANGED <<now, items, itemsInQueue, itemsBeingProcessed, busy, cancelled, enqueues>>
      /\ wakeup' \in {wakeup, FALSE} /\ exited' \in SUBSET Workers
      /\ waiter' \in Workers \cup {NoWorker}
      /\ parked' \in {"no", "empty", "timer"}
  BY Zenon DEF AcquireSemaphore, Park, WakeUp, TimerFires, Exit, queueVars, IInv, TypeOK
<1>2. items \in Seq(Item) /\ (items # <<>> => items[1].at \in Nat)
  <2>1. items \in Seq(Item) /\ (items # <<>> => 1 \in DOMAIN items)
    BY DEF IInv, TypeOK
  <2> QED BY <2>1, ListedItems, Zenon
<1>3. timer' \in Nat
  BY <1>2, Zenon DEF AcquireSemaphore, Park, WakeUp, TimerFires, Exit, IInv, TypeOK
<1>4. TypeOK'
  BY Zenon, <1>1, <1>3 DEF IInv, TypeOK
<1>5. IndexAgrees' /\ SortedByStart' /\ CleanItems' /\ OneWorkerPerKey'
  <2>1. IndexAgrees' /\ SortedByStart' /\ CleanItems'
    BY <1>1, Zenon DEF IInv, IndexAgrees, SortedByStart, CleanItems
  <2>2. OneWorkerPerKey'
    BY <1>1, Zenon DEF IInv, OneWorkerPerKey
  <2> QED BY <2>1, <2>2, Zenon
<1>6. NoLostWakeup'
  BY <1>1, <1>2, SMTT(30) DEF AcquireSemaphore, Park, WakeUp, TimerFires, Exit, IInv, NoLostWakeup,
                    Handlers, TypeOK, queueVars
<1>7. Handlers'
  BY <1>1 DEF AcquireSemaphore, Park, WakeUp, TimerFires, Exit, Idle, IInv, Handlers, TypeOK
<1> QED BY <1>4, <1>5, <1>6, <1>7, Zenon DEF IInv

\* Every step of callers, workers and the clock keeps the invariant.
LEMMA NextIInv == IInv /\ [Next]_vars => IInv'
<1> SUFFICES ASSUME IInv, [Next]_vars PROVE IInv'
  OBVIOUS
<1> USE QueueAssumption
<1>0. now \in Nat \ {0} /\ enqueues \in Nat
  BY DEF IInv, TypeOK, Handlers
<1>1. ASSUME NEW k \in Keys, Enqueue(k) PROVE IInv'
  <2>1. PICK d \in LimiterDelays : Insert(k, now, now + d)
    BY <1>1, Zenon DEF Enqueue
  <2>2. now + d \in Nat \ {0}
    BY <1>0
  <2> QED BY <1>0, <1>1, <2>1, <2>2, InsertPreserves DEF Enqueue, CallMade, waitVars
<1>2. ASSUME NEW k \in Keys, EnqueueWithoutRateLimit(k) PROVE IInv'
  BY <1>0, <1>2, InsertPreserves DEF EnqueueWithoutRateLimit, CallMade, waitVars
<1>3. ASSUME NEW k \in Keys, EnqueueWithoutRateLimitWithDelay(k) PROVE IInv'
  <2>1. PICK d \in CallerDelays : Insert(k, now + d, now + d)
    BY <1>3, Zenon DEF EnqueueWithoutRateLimitWithDelay
  <2>2. now + d \in Nat \ {0}
    BY <1>0
  <2> QED BY <1>0, <1>3, <2>1, <2>2, InsertPreserves
          DEF EnqueueWithoutRateLimitWithDelay, CallMade, waitVars
<1>4. ASSUME NEW w \in Workers, WorkerStep(w) PROVE IInv'
  BY <1>4, WaitingPreserves, TakePreserves, FinishPreserves, Zenon DEF WorkerStep
<1>5. CASE Cancel
  BY <1>5 DEF Cancel, queueVars, waitVars, IInv, TypeOK, IndexAgrees, OneWorkerPerKey,
              SortedByStart, NoLostWakeup, CleanItems, Handlers
<1>6. CASE Tick
  BY <1>0, <1>6, SMTT(30) DEF Tick, queueVars, waitVars, IInv, TypeOK, IndexAgrees, OneWorkerPerKey,
              SortedByStart, NoLostWakeup, CleanItems, Handlers
<1>7. CASE UNCHANGED vars
  BY <1>7 DEF vars, queueVars, waitVars, IInv, TypeOK, IndexAgrees, OneWorkerPerKey,
              SortedByStart, NoLostWakeup, CleanItems, Handlers
<1> QED BY <1>1, <1>2, <1>3, <1>4, <1>5, <1>6, <1>7, ForgetPreserves, Zenon DEF Next, Caller

\* Every state of the queue satisfies the inductive invariant.
THEOREM QueueInvariant == Spec => []IInv
BY InitIInv, NextIInv, PTL DEF Spec

\* Times and requeue counts stay natural numbers; the rest keeps its type.
THEOREM QueueTypeOK == Spec => []TypeOK
<1>1. IInv => TypeOK
  BY Zenon DEF IInv
<1> QED BY <1>1, QueueInvariant, PTL

\* No item in the list has used up its tries or carries a stale mark.
THEOREM QueueCleanItems == Spec => []CleanItems
<1>1. IInv => CleanItems
  BY Zenon DEF IInv
<1> QED BY <1>1, QueueInvariant, PTL

\* Len and UnprocessedLen never panic, and no key is listed twice.
THEOREM QueueIndexAgrees == Spec => []IndexAgrees
<1>1. IInv => IndexAgrees
  BY Zenon DEF IInv
<1> QED BY <1>1, QueueInvariant, PTL

\* No two workers ever run the handler on one key at the same time.
THEOREM QueueOneWorkerPerKey == Spec => []OneWorkerPerKey
<1>1. IInv => OneWorkerPerKey
  BY Zenon DEF IInv
<1> QED BY <1>1, QueueInvariant, PTL

\* The front of the list is always the item to start first.
THEOREM QueueSorted == Spec => []SortedByStart
<1>1. IInv => SortedByStart
  BY Zenon DEF IInv
<1> QED BY <1>1, QueueInvariant, PTL

\* The waiter never sleeps through work.
THEOREM QueueNoLostWakeup == Spec => []NoLostWakeup
<1>1. IInv => NoLostWakeup
  BY Zenon DEF IInv
<1> QED BY <1>1, QueueInvariant, PTL

----------------------------------------------------------------------------
(* The queue implements the dirty set.  Every step of the queue is a step   *)
(* of the set on one key, or leaves both sets alone.                        *)

\* insert adds its key, in each of its three cases.
LEMMA InsertAdds ==
    ASSUME IInv, NEW k \in Keys, NEW when \in Nat \ {0}, NEW planned \in Nat,
           Insert(k, when, planned)
    PROVE  Abstract!Add(k)
<1> USE QueueAssumption
<1>1. itemsBeingProcessed \in [Keys -> Item \cup {NoItem}] /\ itemsInQueue \subseteq Keys
  BY Zenon DEF IInv, TypeOK
<1>2. CASE itemsBeingProcessed[k] # NoItem
  <2> DEFINE r == Redirty(itemsBeingProcessed[k], when)
  <2>1. r \in Item /\ r.redirtiedAt # 0 /\ ~r.forget
    BY Zenon, <1>1, <1>2 DEF Redirty, Item
  <2>2. /\ itemsInQueue' = itemsInQueue
        /\ \A j \in Keys : itemsBeingProcessed'[j] = IF j = k THEN r ELSE itemsBeingProcessed[j]
    BY <1>1, <1>2, Zenon DEF Insert
  <2> HIDE DEF r
  <2> QED BY <1>2, <2>1, <2>2, Zenon DEF Abstract!Add, DirtyKeys, RunningKeys
<1>3. CASE itemsBeingProcessed[k] = NoItem
  <2>1. itemsBeingProcessed' = itemsBeingProcessed /\ itemsInQueue' = itemsInQueue \cup {k}
    BY <1>3, Zenon DEF Insert
  <2> QED BY <2>1, Zenon DEF Abstract!Add, DirtyKeys, RunningKeys
<1> QED BY <1>2, <1>3, Zenon

\* Forget is a Drop of the dirty set.
LEMMA ForgetDrops ==
    ASSUME IInv, NEW k \in Keys, Forget(k)
    PROVE  Abstract!Drop(k)
<1> USE QueueAssumption
<1>1. itemsBeingProcessed \in [Keys -> Item \cup {NoItem}] /\ itemsInQueue \subseteq Keys
  BY Zenon DEF IInv, TypeOK
<1>2. CASE k \in itemsInQueue
  <2>1. itemsBeingProcessed' = itemsBeingProcessed /\ itemsInQueue' = itemsInQueue \ {k}
        /\ itemsBeingProcessed[k] = NoItem
    BY <1>2, Zenon DEF Forget, IInv, OneWorkerPerKey
  <2> QED BY <2>1, Zenon DEF Abstract!Drop, DirtyKeys, RunningKeys
<1>3. CASE k \notin itemsInQueue
  <2> DEFINE r == [itemsBeingProcessed[k] EXCEPT !.forget = TRUE]
  <2>1. r \in Item /\ r.forget /\ itemsBeingProcessed[k] # NoItem
    BY ZenonT(60), <1>1, <1>3 DEF Forget, Item
  <2>2. /\ itemsInQueue' = itemsInQueue
        /\ \A j \in Keys : itemsBeingProcessed'[j] = IF j = k THEN r ELSE itemsBeingProcessed[j]
    BY Zenon, <1>1, <1>3 DEF Forget
  <2> HIDE DEF r
  <2> QED BY <1>3, <2>1, <2>2, Zenon DEF Abstract!Drop, DirtyKeys, RunningKeys
<1> QED BY <1>2, <1>3, Zenon

\* getNextItem is a Start of the dirty set.
LEMMA TakeStarts ==
    ASSUME IInv, NEW w \in Workers, Take(w)
    PROVE  \E k \in Keys : Abstract!Start(k)
<1> USE QueueAssumption
<1> DEFINE item == items[1]
           k == item.key
<1>1. /\ itemsBeingProcessed \in [Keys -> Item \cup {NoItem}] /\ items \in Seq(Item)
      /\ 1 \in DOMAIN items
  BY DEF Take, IInv, TypeOK
<1>2. item \in Item /\ k \in Keys /\ k \in itemsInQueue /\ itemsBeingProcessed[k] = NoItem
  BY <1>1, ListedItems, Zenon DEF IInv, IndexAgrees, OneWorkerPerKey
<1>3. /\ itemsInQueue' = itemsInQueue \ {k}
      /\ \A j \in Keys : itemsBeingProcessed'[j] = IF j = k THEN item ELSE itemsBeingProcessed[j]
  BY <1>1, <1>2, Zenon DEF Take
<1>4. ~(item.redirtiedAt # 0 /\ ~item.forget)
  BY <1>1, Zenon DEF IInv, CleanItems
<1> HIDE DEF item, k
<1>5. Abstract!Start(k)
  BY <1>2, <1>3, <1>4, Zenon DEF Abstract!Start, DirtyKeys, RunningKeys
<1> QED BY <1>2, <1>5, Zenon

\* The end of a handler run is a Done of the dirty set.
LEMMA FinishIsDone ==
    ASSUME IInv, NEW w \in Workers, Finish(w)
    PROVE  \E k \in Keys : Abstract!Done(k)
<1> USE QueueAssumption
<1> DEFINE k == busy[w]
           item == itemsBeingProcessed[k]
<1>1. /\ k \in Keys /\ itemsBeingProcessed \in [Keys -> Item \cup {NoItem}]
      /\ itemsInQueue \subseteq Keys
  BY Zenon DEF Finish, IInv, TypeOK
<1>2. item # NoItem /\ item \in Item /\ k \notin itemsInQueue
  BY <1>1 DEF IInv, OneWorkerPerKey
<1>3. PICK outcome \in {"ok", "transient", "permanent"}, d \in LimiterDelays :
        LET back == Requeued(item, outcome, d)
        IN  IF back = NoItem THEN UNCHANGED itemsInQueue
                             ELSE itemsInQueue' = itemsInQueue \cup {k}
  BY Zenon DEF Finish
<1>4. \A j \in Keys : itemsBeingProcessed'[j] = IF j = k THEN NoItem ELSE itemsBeingProcessed[j]
  BY <1>1, Zenon DEF Finish
<1>5. k \in DirtyKeys => Requeued(item, outcome, d) # NoItem
  <2>1. SUFFICES ASSUME item.redirtiedAt # 0, ~item.forget
                 PROVE  Requeued(item, outcome, d) # NoItem
    BY <1>2, Zenon DEF DirtyKeys
  <2>2. /\ item.key \in Keys /\ item.redirtiedAt \in Nat /\ item.requeues \in Nat
        /\ now + d \in Nat
    BY <1>2, SMTT(30) DEF Item, IInv, TypeOK
  <2>3. NewItem(item.key, item.redirtiedAt) \in Item /\ NewItem(item.key, now + d) \in Item
    BY <2>2, NewItemType, Zenon
  <2>4. [NewItem(item.key, now + d) EXCEPT !.requeues = item.requeues + 1] \in Item
    BY <2>2, <2>3 DEF Item
  <2> QED BY <2>1, <2>3, <2>4, Zenon DEF Requeued
<1>6. itemsInQueue' \in {itemsInQueue, itemsInQueue \cup {k}}
      /\ (k \in DirtyKeys => itemsInQueue' = itemsInQueue \cup {k})
  BY <1>3, <1>5, Zenon
<1>7. RunningKeys' = RunningKeys \ {k} /\ k \in RunningKeys
  BY <1>1, <1>2, <1>4, Zenon DEF RunningKeys
<1>8. DirtyKeys' = (DirtyKeys \ {k}) \cup (itemsInQueue' \cap {k})
  BY <1>1, <1>2, <1>4, <1>6, Zenon DEF DirtyKeys
<1>9. DirtyKeys' \in {DirtyKeys, DirtyKeys \cup {k}}
  BY <1>1, <1>2, <1>6, <1>8, Zenon
<1> QED BY <1>1, <1>7, <1>9, Zenon DEF Abstract!Done

\* Whatever the interleaving of callers, workers, timers and shutdown, the queue
\* behaves like the dirty set: an Enqueue is never lost.
THEOREM QueueImplementsDirtySet == Spec => ImplementsDirtySet
<1> USE QueueAssumption
<1>1. Init => Abstract!DInit
  BY Zenon DEF Init, Abstract!DInit, DirtyKeys, RunningKeys
<1>2. IInv /\ [Next]_vars => [Abstract!DNext]_(Abstract!dvars)
  <2> SUFFICES ASSUME IInv, [Next]_vars
               PROVE  Abstract!DNext \/ (DirtyKeys' = DirtyKeys /\ RunningKeys' = RunningKeys)
    BY Zenon DEF Abstract!dvars
  <2>0. now \in Nat \ {0}
    BY DEF IInv, TypeOK, Handlers
  <2>1. ASSUME NEW k \in Keys, Caller(k) PROVE Abstract!DNext
    <3>1. CASE Forget(k)
      BY <3>1, ForgetDrops, Zenon DEF Abstract!DNext
    <3>2. CASE Enqueue(k) \/ EnqueueWithoutRateLimit(k) \/ EnqueueWithoutRateLimitWithDelay(k)
      <4>1. \E when \in Nat \ {0}, planned \in Nat : Insert(k, when, planned)
        BY <3>2, <2>0 DEF Enqueue, EnqueueWithoutRateLimit, EnqueueWithoutRateLimitWithDelay
      <4> QED BY <4>1, InsertAdds, Zenon DEF Abstract!DNext
    <3> QED BY <2>1, <3>1, <3>2, Zenon DEF Caller
  <2>2. ASSUME NEW w \in Workers, WorkerStep(w)
        PROVE  Abstract!DNext \/ (DirtyKeys' = DirtyKeys /\ RunningKeys' = RunningKeys)
    <3>1. CASE Take(w)
      BY <3>1, TakeStarts, Zenon DEF Abstract!DNext
    <3>2. CASE Finish(w)
      BY <3>2, FinishIsDone, Zenon DEF Abstract!DNext
    <3>3. CASE AcquireSemaphore(w) \/ Park(w) \/ WakeUp(w) \/ TimerFires(w) \/ Exit(w)
      <4>1. UNCHANGED <<itemsInQueue, itemsBeingProcessed>>
        BY <3>3, Zenon DEF AcquireSemaphore, Park, WakeUp, TimerFires, Exit, queueVars
      <4> QED BY <4>1, Zenon DEF DirtyKeys, RunningKeys
    <3> QED BY <2>2, <3>1, <3>2, <3>3, Zenon DEF WorkerStep
  <2>3. CASE Cancel \/ Tick \/ UNCHANGED vars
    <3>1. UNCHANGED <<itemsInQueue, itemsBeingProcessed>>
      BY <2>3, Zenon DEF Cancel, Tick, vars, queueVars
    <3> QED BY <3>1, Zenon DEF DirtyKeys, RunningKeys
  <2> QED BY <2>1, <2>2, <2>3, Zenon DEF Next
<1> QED BY <1>1, <1>2, QueueInvariant, PTL DEF Spec, ImplementsDirtySet, Abstract!DSpec
============================================================================
