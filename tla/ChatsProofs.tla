---------------------------- MODULE ChatsProofs ----------------------------
(***************************************************************************)
(* Theorems about the messages of a chat, for every bound.                 *)
(*                                                                         *)
(* AppThread: the selection stays on its message, and what a thread does   *)
(* not show can be asked for, however pages and live messages interleave.  *)
(*                                                                         *)
(* Identity, for every set of people and of handlers: its state is well    *)
(* formed, a cached miss never hides a stored number, and no message whose *)
(* handler has returned is lost, in whatever order lookups, handlers and   *)
(* the repair run interleave.                                              *)
(***************************************************************************)
EXTENDS AppThread, Identity, TLAPS, FiniteSetTheorems, NaturalsInduction, WellFoundedInduction

-----------------------------------------------------------------------------
(* The thread of a chat                                                    *)

\* Timestamps are numbers, and the message's own with one to a second.
LEMMA SecondIsNat == \A m \in Messages : Second(m) \in Nat
  BY PageAssumption, SMT DEF Second, Messages

\* Timestamps never run against the order of the messages, and are never 0.
LEMMA SecondsInOrder ==
  /\ \A m \in Messages : Second(m) # 0
  /\ \A m, n \in Messages : m < n => Second(m) <= Second(n)
<1>1. ASSUME NEW a \in Nat, NEW b \in Nat, a <= b
      PROVE  a \div PerSecond <= b \div PerSecond
  <2> DEFINE q == a \div PerSecond
             t == b \div PerSecond
  <2>1. PerSecond \in Nat \ {0} /\ q \in Nat /\ t \in Nat
    BY PageAssumption, SMT
  <2>2. PerSecond * q <= a /\ b < PerSecond * (t + 1)
    BY <2>1, SMT
  <2> HIDE DEF q, t
  <2>3. ASSUME t < q PROVE FALSE
    <3>1. PICK k \in Nat : q = (t + 1) + k
      <4>1. q - (t + 1) \in Nat /\ q = (t + 1) + (q - (t + 1))
        BY <2>1, <2>3
      <4> QED
        BY <4>1
    <3>2. PerSecond * q = PerSecond * (t + 1) + PerSecond * k
      BY <2>1, <3>1, SMT
    <3>3. PerSecond * k >= 0 /\ PerSecond * k \in Nat /\ PerSecond * q \in Nat /\ PerSecond * (t + 1) \in Nat
      BY <2>1, SMT
    <3> QED
      BY <1>1, <2>2, <3>2, <3>3, SMT
  <2> QED
    BY <2>1, <2>3 DEF q, t
<1>2. PerSecond \div PerSecond = 1
  BY PageAssumption, SMT
<1>3. ASSUME NEW m \in Messages PROVE Second(m) # 0
  <2>1. m + PerSecond - 1 \in Nat /\ PerSecond \in Nat /\ PerSecond <= m + PerSecond - 1
    BY PageAssumption, SMT DEF Messages
  <2>2. 1 <= Second(m)
    BY <1>1, <1>2, <2>1 DEF Second
  <2> QED
    BY <2>2
<1>4. ASSUME NEW m \in Messages, NEW n \in Messages, m < n PROVE Second(m) <= Second(n)
  <2>1. m + PerSecond - 1 \in Nat /\ n + PerSecond - 1 \in Nat /\ m + PerSecond - 1 <= n + PerSecond - 1
    BY <1>4, PageAssumption, SMT DEF Messages
  <2> QED
    BY <1>1, <2>1 DEF Second
<1> QED
  BY <1>3, <1>4

\* A message goes ahead of another one: it is older, or was there first.
Ahead(s, j, i) == Second(s[j]) < Second(s[i]) \/ (Second(s[j]) = Second(s[i]) /\ j <= i)
Rank(s, I, i) == Cardinality({j \in I : Ahead(s, j, i)})

\* Ahead is a total order of the places.
LEMMA AheadOrder ==
  ASSUME NEW s, NEW I, I \subseteq Nat, \A i \in I : Second(s[i]) \in Int
  PROVE  /\ \A i \in I : Ahead(s, i, i)
         /\ \A i, j \in I : i # j => (Ahead(s, i, j) <=> ~Ahead(s, j, i))
         /\ \A i, j, k \in I : Ahead(s, i, j) /\ Ahead(s, j, k) => Ahead(s, i, k)
<1> DEFINE t(i) == Second(s[i])
<1>1. \A i \in I : i \in Nat /\ t(i) \in Int
  OBVIOUS
<1>2. \A i, j : Ahead(s, i, j) <=> t(i) < t(j) \/ (t(i) = t(j) /\ i <= j)
  BY DEF Ahead
<1> HIDE DEF t
<1> QED
  BY <1>1, <1>2

\* Ranks are the numbers from 1 to the size of I, each of one element.
LEMMA Ranks ==
  ASSUME NEW s, NEW I, I \subseteq Nat, IsFiniteSet(I), \A i \in I : Second(s[i]) \in Int
  PROVE  /\ \A i \in I : Rank(s, I, i) \in 1..Cardinality(I)
         /\ \A i, j \in I : i # j /\ Ahead(s, i, j) => Rank(s, I, i) < Rank(s, I, j)
         /\ \A k \in 1..Cardinality(I) : \E i \in I : k = Rank(s, I, i)
<1> DEFINE B(i) == {j \in I : Ahead(s, j, i)}
           r == [i \in I |-> Cardinality(B(i))]
<1>1. \A i \in I : r[i] = Rank(s, I, i)
  BY DEF Rank
<1>2. ASSUME NEW i \in I
      PROVE  IsFiniteSet(B(i)) /\ Cardinality(B(i)) \in 1..Cardinality(I)
  <2>1. B(i) \in SUBSET I /\ i \in B(i)
    BY AheadOrder
  <2> HIDE DEF B
  <2>2. IsFiniteSet(B(i)) /\ Cardinality(B(i)) <= Cardinality(I)
    BY <2>1, FS_Subset
  <2>3. Cardinality(B(i)) # 0
    BY <2>1, <2>2, FS_EmptySet
  <2> QED
    BY <2>2, <2>3, FS_CardinalityType
<1>3. ASSUME NEW i \in I, NEW j \in I, i # j, Ahead(s, i, j)
      PROVE  r[i] < r[j]
  <2>1. B(i) \in SUBSET B(j) /\ j \in B(j) /\ j \notin B(i)
    BY <1>3, AheadOrder
  <2> HIDE DEF B
  <2>2. Cardinality(B(i)) <= Cardinality(B(j)) /\ Cardinality(B(i)) # Cardinality(B(j))
    BY <2>1, <1>2, FS_Subset
  <2>3. Cardinality(B(i)) \in Nat /\ Cardinality(B(j)) \in Nat
    BY <1>2
  <2> QED
    BY <2>2, <2>3
<1>4. r \in Injection(I, 1..Cardinality(I))
  <2>1. r \in [I -> 1..Cardinality(I)]
    BY <1>2
  <2>2. ASSUME NEW i \in I, NEW j \in I, r[i] = r[j] PROVE i = j
    <3> HIDE DEF r
    <3>1. r[i] \in Int
      BY <2>1, FS_CardinalityType
    <3>2. ~(r[i] < r[j]) /\ ~(r[j] < r[i])
      BY <2>2, <3>1
    <3> QED
      BY <1>3, <3>2, AheadOrder
  <2> HIDE DEF r
  <2> QED
    BY <2>1, <2>2 DEF Injection, IsInjective
<1>5. Cardinality(1..Cardinality(I)) = Cardinality(I) /\ IsFiniteSet(1..Cardinality(I))
  <2>1. Cardinality(I) \in Nat
    BY FS_CardinalityType
  <2> QED
    BY <2>1, FS_Interval
<1>6. r \in Surjection(I, 1..Cardinality(I))
  <2> HIDE DEF r
  <2> QED
    BY <1>4, <1>5, FS_Injection
<1>7. \A k \in 1..Cardinality(I) : \E i \in I : r[i] = k
  <2> HIDE DEF r
  <2> QED
    BY <1>6 DEF Surjection
<1>8. \A i \in I : r[i] \in 1..Cardinality(I)
  BY <1>2
<1> HIDE DEF r
<1> QED
  BY <1>1, <1>3, <1>7, <1>8

\* The element of a rank.
AtRank(s, I, k) == CHOOSE i \in I : k = Rank(s, I, i)

\* Places and ranks correspond.
LEMMA PlaceOfRank ==
  ASSUME NEW s, NEW I, I \subseteq Nat, IsFiniteSet(I), \A i \in I : Second(s[i]) \in Int
  PROVE  /\ \A k \in 1..Cardinality(I) : AtRank(s, I, k) \in I /\ k = Rank(s, I, AtRank(s, I, k))
         /\ \A i \in I : i = AtRank(s, I, Rank(s, I, i))
<1>1. \A k \in 1..Cardinality(I) : AtRank(s, I, k) \in I /\ k = Rank(s, I, AtRank(s, I, k))
  <2> SUFFICES ASSUME NEW k \in 1..Cardinality(I)
               PROVE  AtRank(s, I, k) \in I /\ k = Rank(s, I, AtRank(s, I, k))
    OBVIOUS
  <2>1. \E i \in I : k = Rank(s, I, i)
    BY Ranks
  <2> QED
    BY <2>1, Zenon DEF AtRank
<1>2. ASSUME NEW i \in I PROVE i = AtRank(s, I, Rank(s, I, i))
  <2> DEFINE j == AtRank(s, I, Rank(s, I, i))
  <2>1. Cardinality(I) \in Nat /\ Rank(s, I, i) \in 1..Cardinality(I)
    BY FS_CardinalityType, Ranks
  <2>2. j \in I /\ Rank(s, I, j) = Rank(s, I, i)
    BY <1>1, <2>1
  <2> HIDE DEF j
  <2>3. ~(Rank(s, I, j) < Rank(s, I, i)) /\ ~(Rank(s, I, i) < Rank(s, I, j))
    BY <2>1, <2>2
  <2>4. i = j
    BY <2>2, <2>3, Ranks, AheadOrder
  <2> QED
    BY <2>4 DEF j
<1> QED
  BY <1>1, <1>2

\* What Sorted promises: the elements at the places I, each as often as it is
\* there, one of the oldest first.
LEMMA SortedIs ==
  ASSUME NEW s, NEW I, NEW V, I \subseteq Nat, IsFiniteSet(I),
         \A i \in I : s[i] \in V /\ Second(s[i]) \in Int
  PROVE  /\ Sorted(s, I) \in Seq(V) /\ Len(Sorted(s, I)) = Cardinality(I)
         /\ Range(Sorted(s, I)) = {s[i] : i \in I}
         /\ \A i \in I : Sorted(s, I) # <<>> /\ Second(Sorted(s, I)[1]) <= Second(s[i])
<1> DEFINE q == Sorted(s, I)
<1>1. Cardinality(I) \in Nat
  BY FS_CardinalityType
<1>2. q = [k \in 1..Cardinality(I) |-> s[AtRank(s, I, k)]]
  BY Zenon DEF Sorted, AtRank, Rank, Ahead
<1>3. \A k \in 1..Cardinality(I) : AtRank(s, I, k) \in I /\ k = Rank(s, I, AtRank(s, I, k))
  BY PlaceOfRank
<1>4. \A i \in I : Rank(s, I, i) \in 1..Cardinality(I) /\ i = AtRank(s, I, Rank(s, I, i))
  BY PlaceOfRank, Ranks
<1>5. q \in Seq(V) /\ Len(q) = Cardinality(I) /\ DOMAIN q = 1..Cardinality(I)
  <2>1. \A k \in 1..Cardinality(I) : s[AtRank(s, I, k)] \in V
    BY <1>3
  <2> QED
    BY <1>1, <1>2, <2>1
<1>6. \A k \in 1..Cardinality(I) : q[k] = s[AtRank(s, I, k)]
  BY <1>2
<1> HIDE DEF q
<1>7. Range(q) = {s[i] : i \in I}
  <2>1. ASSUME NEW x \in Range(q) PROVE x \in {s[i] : i \in I}
    BY <1>3, <1>5, <1>6 DEF Range
  <2>2. ASSUME NEW i \in I PROVE s[i] \in Range(q)
    BY <1>4, <1>5, <1>6 DEF Range
  <2> QED
    BY <2>1, <2>2
<1>8. ASSUME NEW i \in I PROVE q # <<>> /\ Second(q[1]) <= Second(s[i])
  <2>1. Rank(s, I, i) \in 1..Cardinality(I) /\ 1 \in 1..Cardinality(I)
    BY <1>1, <1>4
  <2> DEFINE f == AtRank(s, I, 1)
  <2>2. f \in I /\ Rank(s, I, f) = 1 /\ q[1] = s[f]
    BY <1>3, <1>6, <2>1
  <2> HIDE DEF f
  <2>3. i = f \/ Ahead(s, f, i)
    <3>1. ~(Rank(s, I, i) < Rank(s, I, f))
      BY <2>1, <2>2
    <3> QED
      BY <2>2, <3>1, Ranks, AheadOrder
  <2>4. Second(s[f]) <= Second(s[i])
    <3>1. Second(s[f]) \in Int /\ Second(s[i]) \in Int
      BY <2>2
    <3>2. i = f \/ Second(s[f]) < Second(s[i]) \/ Second(s[f]) = Second(s[i])
      BY <2>3 DEF Ahead
    <3> QED
      BY <3>1, <3>2
  <2>5. Len(q) # 0
    BY <1>5, <2>1
  <2> QED
    BY <2>2, <2>4, <2>5
<1> QED
  BY <1>5, <1>7, <1>8 DEF q

\* The first place of a message.
FirstOf(q, n, x) == CHOOSE i \in 1..n : q[i] = x /\ \A j \in 1..(i - 1) : q[j] # q[i]

LEMMA FirstPlace ==
  ASSUME NEW q, NEW n \in Nat, NEW x, \E i \in 1..n : q[i] = x
  PROVE  FirstOf(q, n, x) \in 1..n /\ q[FirstOf(q, n, x)] = x
<1> DEFINE P == {i \in 1..n : q[i] = x}
           R == OpToRel(<, Nat)
<1>1. P \subseteq Nat /\ P # {}
  OBVIOUS
<1>2. PICK i \in P : \A j \in P : ~(<<j, i>> \in R)
  <2> HIDE DEF P, R
  <2>1. IsWellFoundedOn(R, Nat)
    BY NatLessThanWellFounded DEF R
  <2> QED
    BY <1>1, <2>1, WFMin
<1>3. \A j \in P : ~(j < i)
  <2> HIDE DEF P
  <2> QED
    BY <1>1, <1>2 DEF OpToRel
<1>4. \A j \in 1..(i - 1) : q[j] # q[i]
  BY <1>3
<1>5. i \in 1..n /\ q[i] = x
  OBVIOUS
<1> QED
  BY <1>4, <1>5, Zenon DEF FirstOf

\* In select mode the thread is open and the selection is a message of it.
SelectionInv == selectIdx > 0 => open /\ selectIdx \in 1..Len(arr) /\ arr[selectIdx] = selectMsgID

\* The type invariant, a group of variables at a time.
ThreadOK == arr \in Seq(Messages) /\ loadedHistory \in BOOLEAN /\ noMoreHistory \in BOOLEAN
ModesOK == /\ open \in BOOLEAN /\ loadingOlder \in BOOLEAN /\ pendingOlder \in BOOLEAN
           /\ connected \in BOOLEAN /\ orderly \in BOOLEAN
SelectOK == selectIdx \in Nat /\ selectMsgID \in Messages \cup {0} /\ (selectIdx = 0 <=> selectMsgID = 0)
LinkOK == up \in Seq(Nat) /\ down \in Seq(Frames)
DaemonOK == /\ stored \subseteq Messages /\ event \in Messages \cup {0}
            /\ page \in Seq(Seq(Messages)) /\ Len(page) <= 1
            /\ breaks \in 0..MaxBreaks

\* Together they are the type invariant.
LEMMA ThreadTypeGroups == ThreadTypeOK <=> ThreadOK /\ ModesOK /\ SelectOK /\ LinkOK /\ DaemonOK
  BY DEF ThreadTypeOK, ThreadOK, ModesOK, SelectOK, LinkOK, DaemonOK

\* What is shown.
LEMMA ShownIs == ThreadOK => Shown = {arr[i] : i \in 1..Len(arr)}
  BY DEF ThreadOK, Shown, Range

\* What a sequence holds.
LEMMA RangeOf == ASSUME NEW S, NEW q \in Seq(S) PROVE Range(q) = {q[i] : i \in 1..Len(q)} /\ Range(q) \subseteq S
  BY DEF Range

\* A page is a sequence of its messages, oldest first.
LEMMA PageIs ==
  ASSUME NEW P, P \subseteq Messages
  PROVE  /\ OldestFirst(P) \in Seq(Messages) /\ Range(OldestFirst(P)) = P
         /\ OldestFirst(P) = <<>> => P = {}
<1> DEFINE s == [m \in Messages |-> m]
<1>1. \A m \in Messages : s[m] = m
  OBVIOUS
<1>2. P \subseteq Nat /\ IsFiniteSet(P)
  <2>1. P \in SUBSET (1..MaxMsgs)
    BY DEF Messages
  <2>2. IsFiniteSet(1..MaxMsgs)
    BY BoundAssumption, FS_Interval
  <2>3. IsFiniteSet(P)
    BY <2>1, <2>2, FS_Subset
  <2> QED
    BY <2>1, <2>3
<1>3. \A m \in P : s[m] \in Messages /\ Second(s[m]) \in Int
  BY <1>1, SecondIsNat
<1> HIDE DEF s
<1>4. /\ Sorted(s, P) \in Seq(Messages) /\ Range(Sorted(s, P)) = {s[m] : m \in P}
      /\ \A m \in P : Sorted(s, P) # <<>>
  BY <1>2, <1>3, SortedIs
<1>5. {s[m] : m \in P} = P
  BY <1>1
<1> QED
  BY <1>4, <1>5 DEF OldestFirst, s

\* A page is of the newest messages asked for.
LEMMA PagesAre ==
  ASSUME NEW before, NEW p \in Pages(before), stored \subseteq Messages
  PROVE  \E P \in SUBSET Older(before) :
           /\ Cardinality(P) = Page \/ P = Older(before)
           /\ \A m \in P, n \in Older(before) \ P : Second(m) >= Second(n)
           /\ p \in Seq(Messages) /\ Range(p) = P /\ (p = <<>> => P = {})
<1>1. PICK P \in SUBSET Older(before) :
           /\ Cardinality(P) = Page \/ P = Older(before)
           /\ \A m \in P, n \in Older(before) \ P : Second(m) >= Second(n)
           /\ p = OldestFirst(P)
  BY Zenon DEF Pages
<1>2. P \subseteq Messages
  BY DEF Older
<1> QED
  BY <1>1, <1>2, PageIs

\* What a HISTORY frame does to the thread.
LEMMA Merges ==
  ASSUME ThreadTypeOK, HearsHistory
  PROVE  \E added :
           /\ arr' \in Seq(Messages)
           /\ Range(arr') = Shown \cup Range(Head(down).msgs)
           /\ \A m \in Range(arr') : arr' # <<>> /\ Second(arr'[1]) <= Second(m)
           /\ added = {} <=> Range(Head(down).msgs) \subseteq Shown
           /\ EndsRequest(added)
<1>1. down # <<>> /\ down \in Seq(Frames) /\ arr \in Seq(Messages)
  BY DEF HearsHistory, ThreadTypeOK
<1> DEFINE p == Head(down).msgs
           both == arr \o p
           added == {i \in (Len(arr) + 1)..Len(both) : both[i] \notin Shown}
           I == 1..Len(arr) \cup added
<1>2. p \in Seq(Messages)
  <2>1. Head(down) \in Frames
    BY <1>1
  <2> QED
    BY <2>1 DEF Frames
<1>3. arr' = Sorted(both, I) /\ EndsRequest(added)
  BY Zenon DEF HearsHistory
<1>4. /\ both \in Seq(Messages) /\ Len(both) = Len(arr) + Len(p)
      /\ \A i \in 1..Len(arr) : both[i] = arr[i]
      /\ \A i \in 1..Len(p) : both[Len(arr) + i] = p[i]
  <2> HIDE DEF p
  <2> QED
    BY <1>1, <1>2
<1>5. \A i \in (Len(arr) + 1)..Len(both) : i - Len(arr) \in 1..Len(p) /\ both[i] = p[i - Len(arr)]
  <2> SUFFICES ASSUME NEW i \in (Len(arr) + 1)..Len(both)
               PROVE  i - Len(arr) \in 1..Len(p) /\ both[i] = p[i - Len(arr)]
    OBVIOUS
  <2> HIDE DEF both, p
  <2>1. Len(arr) \in Nat /\ Len(p) \in Nat
    BY <1>1, <1>2
  <2>2. i - Len(arr) \in 1..Len(p) /\ Len(arr) + (i - Len(arr)) = i
    BY <1>4, <2>1
  <2> QED
    BY <1>4, <2>2
<1>6. Shown = {arr[i] : i \in 1..Len(arr)} /\ Range(p) = {p[i] : i \in 1..Len(p)}
  <2> HIDE DEF p
  <2> QED
    BY <1>1, <1>2, RangeOf DEF Shown
<1>7. added = {} <=> Range(p) \subseteq Shown
  <2> HIDE DEF p, both
  <2>1. ASSUME added = {}, NEW x \in Range(p) PROVE x \in Shown
    <3>1. PICK i \in 1..Len(p) : p[i] = x
      BY <1>6
    <3>2. Len(arr) + i \in (Len(arr) + 1)..Len(both) /\ both[Len(arr) + i] = x
      BY <1>1, <1>2, <1>4, <3>1
    <3> QED
      BY <2>1, <3>2
  <2>2. ASSUME Range(p) \subseteq Shown, NEW i \in added PROVE FALSE
    BY <1>5, <1>6, <2>2
  <2> QED
    BY <2>1, <2>2
<1>8. I \in SUBSET (1..Len(both)) /\ IsFiniteSet(I)
  <2>1. Len(arr) \in Nat /\ Len(both) \in Nat /\ Len(arr) <= Len(both)
    <3> HIDE DEF both, p
    <3> QED
      BY <1>1, <1>2, <1>4
  <2>2. I \in SUBSET (1..Len(both))
    <3> HIDE DEF both
    <3> QED
      BY <2>1
  <2> HIDE DEF I, both
  <2>3. IsFiniteSet(1..Len(both))
    BY <2>1, FS_Interval
  <2> QED
    BY <2>2, <2>3, FS_Subset
<1>9. I \subseteq Nat /\ \A i \in I : both[i] \in Messages /\ Second(both[i]) \in Int
  <2> HIDE DEF I, both
  <2>1. \A i \in I : both[i] \in Messages
    BY <1>4, <1>8
  <2> QED
    BY <1>8, <2>1, SecondIsNat
<1>10. {both[i] : i \in I} = Shown \cup Range(p)
  <2> HIDE DEF both, p
  <2>1. ASSUME NEW i \in I PROVE both[i] \in Shown \cup Range(p)
    <3>1. CASE i \in 1..Len(arr)
      BY <1>4, <1>6, <3>1
    <3>2. CASE i \in added
      BY <1>5, <1>6, <3>2
    <3> QED
      BY <3>1, <3>2
  <2>2. ASSUME NEW x \in Shown PROVE \E i \in I : both[i] = x
    BY <1>4, <1>6
  <2>3. ASSUME NEW x \in Range(p), x \notin Shown PROVE \E i \in I : both[i] = x
    <3>1. PICK i \in 1..Len(p) : p[i] = x
      BY <1>6
    <3>2. Len(arr) + i \in (Len(arr) + 1)..Len(both) /\ both[Len(arr) + i] = x
      BY <1>1, <1>2, <1>4, <3>1
    <3> QED
      BY <2>3, <3>2
  <2> HIDE DEF I
  <2> QED
    BY <2>1, <2>2, <2>3
<1> HIDE DEF I, both
<1>11. /\ arr' \in Seq(Messages)
       /\ Range(arr') = {both[i] : i \in I}
       /\ \A i \in I : arr' # <<>> /\ Second(arr'[1]) <= Second(both[i])
  BY <1>3, <1>8, <1>9, SortedIs
<1>12. \A m \in Range(arr') : arr' # <<>> /\ Second(arr'[1]) <= Second(m)
  BY <1>11
<1> HIDE DEF added
<1> QED
  BY <1>3, <1>7, <1>10, <1>11, <1>12

\* After a page the selection is on its message, where that is now.
LEMMA Reanchored ==
  ASSUME ThreadTypeOK, SelectionInv, HearsHistory
  PROVE  /\ arr' \in Seq(Messages) /\ selectMsgID' = selectMsgID
         /\ selectIdx = 0 => selectIdx' = 0
         /\ selectIdx > 0 => selectIdx' \in 1..Len(arr') /\ arr'[selectIdx'] = selectMsgID
<1>1. arr' \in Seq(Messages) /\ Shown \subseteq Range(arr')
  BY Merges
<1>2. Reanchors
  BY Zenon DEF HearsHistory
<1>3. selectIdx \in Nat
  BY DEF ThreadTypeOK
<1>4. ASSUME selectIdx > 0 PROVE selectIdx' \in 1..Len(arr') /\ arr'[selectIdx'] = selectMsgID
  <2>1. open /\ selectIdx \in 1..Len(arr) /\ arr[selectIdx] = selectMsgID
    BY <1>4 DEF SelectionInv
  <2>2. selectMsgID \in Shown
    BY <2>1, ShownIs, ThreadTypeGroups
  <2>3. selectMsgID \in Range(arr')
    BY <1>1, <2>2
  <2>4. \E i \in 1..Len(arr') : arr'[i] = selectMsgID
    BY <1>1, <2>3, RangeOf
  <2> DEFINE f == FirstOf(arr', Len(arr'), selectMsgID)
  <2>5. selectIdx' = f
    BY <1>2, <1>4, <2>1, <2>3, Zenon DEF Reanchors, FirstOf
  <2>6. Len(arr') \in Nat
    BY <1>1
  <2>7. f \in 1..Len(arr') /\ arr'[f] = selectMsgID
    BY <2>4, <2>6, FirstPlace
  <2> HIDE DEF f
  <2> QED
    BY <2>5, <2>7
<1>5. selectIdx = 0 => selectIdx' = 0
  BY <1>2, SMT DEF Reanchors
<1> QED
  BY <1>1, <1>2, <1>4, <1>5 DEF Reanchors

\* The head of the frames is one, the others are the rest.
LEMMA HeadIs ==
  ASSUME ThreadTypeOK, down # <<>>
  PROVE  /\ Head(down) = down[1] /\ 1 \in 1..Len(down) /\ Head(down) \in Frames
         /\ Head(down).msgs \in Seq(Messages) /\ Tail(down) \in Seq(Frames)
         /\ Len(Tail(down)) = Len(down) - 1
         /\ \A i \in 1..Len(Tail(down)) : i + 1 \in 1..Len(down) /\ Tail(down)[i] = down[i + 1]
<1>1. down \in Seq(Frames)
  BY DEF ThreadTypeOK
<1>2. Head(down) = down[1] /\ 1 \in 1..Len(down) /\ Head(down) \in Frames
  BY <1>1
<1>3. Head(down).msgs \in Seq(Messages)
  BY <1>2 DEF Frames
<1>4. /\ Tail(down) \in Seq(Frames) /\ Len(Tail(down)) = Len(down) - 1
      /\ \A i \in 1..Len(Tail(down)) : i + 1 \in 1..Len(down) /\ Tail(down)[i] = down[i + 1]
  BY <1>1
<1> QED
  BY <1>2, <1>3, <1>4

LEMMA ThreadOKStep == ThreadTypeOK /\ SelectionInv /\ [ThreadNext]_threadVars => ThreadOK'
<1> SUFFICES ASSUME ThreadTypeOK, SelectionInv, [ThreadNext]_threadVars PROVE ThreadOK'
  OBVIOUS
<1>1. CASE HearsMessage
  <2>1. Head(down).msgs \in Seq(Messages)
    BY <1>1, HeadIs, Zenon DEF HearsMessage
  <2>2. arr' = arr \o Head(down).msgs /\ UNCHANGED <<loadedHistory, noMoreHistory>>
    BY <1>1, Zenon DEF HearsMessage
  <2> QED
    BY <2>1, <2>2 DEF ThreadTypeOK, ThreadOK
<1>2. CASE HearsHistory
  <2>1. arr' \in Seq(Messages)
    BY <1>2, Reanchored
  <2>2. \E added : EndsRequest(added)
    BY <1>2, Merges
  <2>3. noMoreHistory' \in BOOLEAN
    BY <2>2, Zenon DEF EndsRequest, ThreadTypeOK
  <2>4. loadedHistory' = TRUE
    BY <1>2, Zenon DEF HearsHistory
  <2> QED
    BY <2>1, <2>3, <2>4, Zenon DEF ThreadOK
<1>3. ASSUME ~HearsMessage, ~HearsHistory PROVE UNCHANGED thread
  BY <1>3, Zenon DEF ThreadNext, threadVars, phone, thread, OpenThread, LeaveThread, ScrollsToTop,
     RequestOlderHistory, EnterSelectMode, EnterComposeMode, MoveUp, MoveDown, Hears, Handles, TakesGet,
     PushesHistory, StoresLive, StoresHistory, PushesLive, Breaks, Reconnects
<1>4. CASE UNCHANGED thread
  BY <1>4 DEF thread, ThreadOK, ThreadTypeOK
<1> QED
  BY <1>1, <1>2, <1>3, <1>4

LEMMA ModesOKStep == ThreadTypeOK /\ [ThreadNext]_threadVars => ModesOK'
<1> SUFFICES ASSUME ThreadTypeOK, [ThreadNext]_threadVars PROVE ModesOK'
  OBVIOUS
<1>1. /\ open \in BOOLEAN /\ loadingOlder \in BOOLEAN /\ pendingOlder \in BOOLEAN
      /\ connected \in BOOLEAN /\ orderly \in BOOLEAN
  BY Zenon DEF ThreadTypeOK
<1>2. open' = open \/ open' \in BOOLEAN
  BY Zenon DEF ThreadNext, threadVars, phone, thread, OpenThread, LeaveThread, ScrollsToTop,
     RequestOlderHistory, EnterSelectMode, EnterComposeMode, MoveUp, MoveDown, Hears, Handles, TakesGet,
     HearsMessage, HearsHistory, PushesHistory, StoresLive, StoresHistory, PushesLive, Breaks, Reconnects
<1>3. UNCHANGED paging \/ (loadingOlder' \in BOOLEAN /\ pendingOlder' \in BOOLEAN)
  BY Zenon DEF ThreadNext, threadVars, phone, thread, OpenThread, LeaveThread, ScrollsToTop,
     RequestOlderHistory, EnterSelectMode, EnterComposeMode, MoveUp, MoveDown, Hears, Handles, TakesGet,
     HearsMessage, HearsHistory, PushesHistory, StoresLive, StoresHistory, PushesLive, Breaks, Reconnects,
     EndsRequest
<1>4. connected' = connected \/ connected' \in BOOLEAN
  BY Zenon DEF ThreadNext, threadVars, phone, thread, OpenThread, LeaveThread, ScrollsToTop,
     RequestOlderHistory, EnterSelectMode, EnterComposeMode, MoveUp, MoveDown, Hears, Handles, TakesGet,
     HearsMessage, HearsHistory, PushesHistory, StoresLive, StoresHistory, PushesLive, Breaks, Reconnects
<1>5. orderly' = orderly \/ orderly' \in BOOLEAN
  BY Zenon DEF ThreadNext, threadVars, phone, thread, OpenThread, LeaveThread, ScrollsToTop,
     RequestOlderHistory, EnterSelectMode, EnterComposeMode, MoveUp, MoveDown, Hears, Handles, TakesGet,
     HearsMessage, HearsHistory, PushesHistory, StoresLive, StoresHistory, PushesLive, Breaks, Reconnects
<1> QED
  BY <1>1, <1>2, <1>3, <1>4, <1>5, Zenon DEF ModesOK, paging

LEMMA LinkOKStep == ThreadTypeOK /\ [ThreadNext]_threadVars => LinkOK'
<1> SUFFICES ASSUME ThreadTypeOK, [ThreadNext]_threadVars PROVE LinkOK'
  OBVIOUS
<1> USE DEF LinkOK
<1>1. /\ up \in Seq(Nat) /\ down \in Seq(Frames) /\ arr \in Seq(Messages)
      /\ stored \subseteq Messages /\ event \in Messages \cup {0} /\ page \in Seq(Seq(Messages))
  BY DEF ThreadTypeOK
<1>2. ASSUME NEW b \in Nat, Asks(b), UNCHANGED down PROVE LinkOK'
  BY <1>1, <1>2 DEF Asks
<1>3. CASE OpenThread
  BY <1>1, <1>2, <1>3 DEF OpenThread
<1>4. CASE RequestOlderHistory
  <2>1. arr # <<>> /\ Asks(Second(arr[1])) /\ UNCHANGED down
    BY <1>4, Zenon DEF RequestOlderHistory, MayRequestOlder
  <2>2. Second(arr[1]) \in Nat
    BY <1>1, <2>1, SecondIsNat
  <2> QED
    BY <1>2, <2>1, <2>2
<1>5. CASE Hears
  <2>1. down # <<>> /\ down' = Tail(down) /\ UNCHANGED up
    BY <1>5, Zenon DEF Hears, HearsMessage, HearsHistory
  <2> QED
    BY <1>1, <2>1
<1>6. CASE TakesGet
  BY <1>1, <1>6 DEF TakesGet
<1>7. ASSUME NEW l \in BOOLEAN, NEW q \in Seq(Messages), Pushes(l, q), UNCHANGED up PROVE LinkOK'
  <2> DEFINE f == [live |-> l, msgs |-> q]
  <2>1. f \in Frames
    BY Zenon DEF Frames
  <2>2. down' = Append(down, f) \/ down' = down
    BY <1>7, Zenon DEF Pushes
  <2> HIDE DEF f
  <2>3. Append(down, f) \in Seq(Frames)
    BY <1>1, <2>1
  <2>4. up' = up
    BY <1>7
  <2> QED
    BY <1>1, <2>2, <2>3, <2>4
<1>8. CASE PushesHistory
  <2>1. page # <<>> /\ Pushes(FALSE, page[1]) /\ UNCHANGED up
    BY <1>8, Zenon DEF PushesHistory
  <2>2. page[1] \in Seq(Messages)
    BY <1>1, <2>1
  <2> QED
    BY <1>7, <2>1, <2>2
<1>9. CASE PushesLive
  <2>1. event # 0 /\ Pushes(TRUE, <<event>>) /\ UNCHANGED up
    BY <1>9, Zenon DEF PushesLive
  <2>2. <<event>> \in Seq(Messages)
    BY <1>1, <2>1
  <2> QED
    BY <1>7, <2>1, <2>2
<1>10. CASE Breaks
  BY <1>10 DEF Breaks
<1>11. CASE Reconnects
  BY <1>1, <1>11 DEF Reconnects
<1>12. CASE UNCHANGED <<up, down>>
  BY <1>1, <1>12
<1>13. \/ OpenThread \/ RequestOlderHistory \/ Hears \/ TakesGet \/ PushesHistory \/ PushesLive
       \/ Breaks \/ Reconnects \/ UNCHANGED <<up, down>>
  BY Zenon DEF ThreadNext, threadVars, phone, daemon, LeaveThread, ScrollsToTop, EnterSelectMode, EnterComposeMode,
     MoveUp, MoveDown, Handles, StoresLive, StoresHistory
<1> QED
  BY <1>3, <1>4, <1>5, <1>6, <1>8, <1>9, <1>10, <1>11, <1>12, <1>13

LEMMA DaemonOKStep == ThreadTypeOK /\ [ThreadNext]_threadVars => DaemonOK'
<1> SUFFICES ASSUME ThreadTypeOK, [ThreadNext]_threadVars PROVE DaemonOK'
  OBVIOUS
<1> USE DEF DaemonOK
<1>1. /\ stored \subseteq Messages /\ event \in Messages \cup {0}
      /\ page \in Seq(Seq(Messages)) /\ Len(page) <= 1 /\ breaks \in 0..MaxBreaks
  BY DEF ThreadTypeOK
<1>2. ASSUME NEW m \in Messages, StoresLive(m) \/ StoresHistory(m) PROVE DaemonOK'
  BY <1>1, <1>2 DEF StoresLive, StoresHistory
<1>3. CASE PushesLive
  BY <1>1, <1>3 DEF PushesLive
<1>4. CASE PushesHistory
  BY <1>1, <1>4 DEF PushesHistory
<1>5. CASE TakesGet
  <2>1. PICK p \in Pages(Head(up)) : page' = <<p>>
    BY <1>5, Zenon DEF TakesGet
  <2>2. p \in Seq(Messages)
    BY <1>1, PagesAre
  <2>3. UNCHANGED <<stored, event, breaks>>
    BY <1>5, Zenon DEF TakesGet
  <2>4. <<p>> \in Seq(Seq(Messages)) /\ Len(<<p>>) <= 1
    BY <2>2
  <2> QED
    BY <1>1, <2>1, <2>3, <2>4
<1>6. CASE Breaks
  <2>1. breaks < MaxBreaks /\ breaks' = breaks + 1 /\ UNCHANGED <<stored, event, page>>
    BY <1>6, Zenon DEF Breaks, daemon
  <2> QED
    BY <1>1, <2>1, BoundAssumption
<1>7. CASE UNCHANGED <<stored, event, page, breaks>>
  BY <1>1, <1>7
<1>8. \/ \E m \in Messages : StoresLive(m) \/ StoresHistory(m)
      \/ PushesLive \/ PushesHistory \/ TakesGet \/ Breaks
      \/ UNCHANGED <<stored, event, page, breaks>>
  BY Zenon DEF ThreadNext, threadVars, phone, daemon, OpenThread, LeaveThread, ScrollsToTop, RequestOlderHistory,
     EnterSelectMode, EnterComposeMode, MoveUp, MoveDown, Hears, HearsMessage, HearsHistory, Handles,
     Reconnects
<1> QED
  BY <1>2, <1>3, <1>4, <1>5, <1>6, <1>7, <1>8

LEMMA SelectStep == ThreadTypeOK /\ SelectionInv /\ [ThreadNext]_threadVars => SelectOK' /\ SelectionInv'
<1> SUFFICES ASSUME ThreadTypeOK, SelectionInv, [ThreadNext]_threadVars PROVE SelectOK' /\ SelectionInv'
  OBVIOUS
<1> USE DEF SelectOK, SelectionInv
<1>1. SelectOK /\ arr \in Seq(Messages)
  BY DEF ThreadTypeOK
<1>2. ASSUME SetSelect(0) PROVE SelectOK' /\ SelectionInv'
  BY <1>2 DEF SetSelect
<1>3. ASSUME NEW i \in 1..Len(arr), SetSelect(i), open, UNCHANGED <<arr, open>>
      PROVE  SelectOK' /\ SelectionInv'
  <2>1. arr[i] \in Messages /\ i \in Nat /\ i # 0
    BY <1>1, <1>3
  <2>2. selectIdx' = i /\ selectMsgID' = arr[i]
    BY <1>3, <2>1 DEF SetSelect
  <2>3. arr[i] # 0
    BY <2>1 DEF Messages
  <2> QED
    BY <1>3, <2>1, <2>2, <2>3
<1>4. CASE OpenThread
  BY <1>2, <1>4 DEF OpenThread
<1>5. CASE LeaveThread
  BY <1>1, <1>2, <1>5 DEF LeaveThread, select, thread
<1>6. CASE ScrollsToTop
  BY <1>1, <1>6 DEF ScrollsToTop, RequestOlderHistory, select, thread
<1>7. CASE EnterSelectMode
  <2>1. open /\ arr # <<>> /\ SetSelect(Len(arr)) /\ UNCHANGED <<arr, open>>
    BY <1>7, Zenon DEF EnterSelectMode, thread
  <2>2. Len(arr) \in 1..Len(arr)
    BY <1>1, <2>1
  <2> QED
    BY <1>3, <2>1, <2>2
<1>8. CASE EnterComposeMode
  BY <1>2, <1>8 DEF EnterComposeMode
<1>9. CASE MoveUp
  <2>1. selectIdx > 0 /\ UNCHANGED <<arr, open>>
    BY <1>9, Zenon DEF MoveUp, RequestOlderHistory, thread
  <2>2. open /\ selectIdx \in 1..Len(arr)
    BY <2>1
  <2>3. CASE selectIdx > 1 /\ SetSelect(selectIdx - 1)
    BY <1>3, <2>1, <2>2, <2>3
  <2>4. CASE selectIdx = 1 /\ SetSelect(1)
    BY <1>3, <2>1, <2>2, <2>4
  <2> QED
    BY <1>9, <2>3, <2>4, Zenon DEF MoveUp
<1>10. CASE MoveDown
  <2>1. /\ selectIdx > 0 /\ UNCHANGED <<arr, open>>
        /\ SetSelect(IF selectIdx < Len(arr) THEN selectIdx + 1 ELSE 0)
    BY <1>10, Zenon DEF MoveDown, thread
  <2>2. open /\ selectIdx \in 1..Len(arr)
    BY <2>1
  <2>3. CASE selectIdx < Len(arr)
    <3>1. SetSelect(selectIdx + 1)
      BY <2>1, <2>3, Zenon
    <3>2. selectIdx + 1 \in 1..Len(arr)
      BY <2>2, <2>3
    <3> QED
      BY <1>3, <2>1, <2>2, <3>1, <3>2
  <2>4. CASE ~(selectIdx < Len(arr))
    BY <1>2, <2>1, <2>4, Zenon
  <2> QED
    BY <2>3, <2>4
<1>11. CASE HearsMessage
  <2>1. /\ Head(down).msgs \in Seq(Messages) /\ arr' = arr \o Head(down).msgs
        /\ UNCHANGED <<open, selectIdx, selectMsgID>>
    BY <1>11, HeadIs, Zenon DEF HearsMessage, select
  <2>2. \A i \in 1..Len(arr) : i \in 1..Len(arr') /\ arr'[i] = arr[i]
    BY <1>1, <2>1
  <2> QED
    BY <1>1, <2>1, <2>2
<1>12. CASE HearsHistory
  <2>1. UNCHANGED open
    BY <1>12, Zenon DEF HearsHistory
  <2>2. /\ arr' \in Seq(Messages) /\ selectMsgID' = selectMsgID
        /\ selectIdx = 0 => selectIdx' = 0
        /\ selectIdx > 0 => selectIdx' \in 1..Len(arr') /\ arr'[selectIdx'] = selectMsgID
    BY <1>12, Reanchored
  <2>3. CASE selectIdx = 0
    BY <1>1, <2>2, <2>3
  <2>4. CASE selectIdx > 0
    BY <1>1, <2>1, <2>2, <2>4
  <2> QED
    BY <1>1, <2>3, <2>4
<1>13. CASE UNCHANGED <<arr, open, selectIdx, selectMsgID>>
  BY <1>1, <1>13
<1>14. \/ OpenThread \/ LeaveThread \/ ScrollsToTop \/ EnterSelectMode \/ EnterComposeMode
       \/ MoveUp \/ MoveDown \/ HearsMessage \/ HearsHistory
       \/ UNCHANGED <<arr, open, selectIdx, selectMsgID>>
  BY Zenon DEF ThreadNext, threadVars, phone, thread, select, Hears, Handles, TakesGet, PushesHistory,
     StoresLive, StoresHistory, PushesLive, Breaks, Reconnects
<1> QED
  BY <1>4, <1>5, <1>6, <1>7, <1>8, <1>9, <1>10, <1>11, <1>12, <1>13, <1>14

\* Every reachable state of the phone, the frames and the daemon is well formed.
THEOREM ThreadTypeCorrect == ThreadSpec => [](ThreadTypeOK /\ SelectionInv)
<1>1. ThreadInit => ThreadTypeOK /\ SelectionInv
  <2> SUFFICES ASSUME ThreadInit PROVE ThreadTypeOK /\ SelectionInv
    OBVIOUS
  <2>1. stored \subseteq Messages
    BY BoundAssumption DEF ThreadInit, Messages
  <2>2. page \in Seq(Seq(Messages)) /\ Len(page) <= 1
    BY DEF ThreadInit
  <2>3. SelectOK /\ LinkOK /\ SelectionInv
    BY DEF ThreadInit, SelectOK, LinkOK, SelectionInv
  <2>4. ModesOK
    BY Zenon DEF ThreadInit, ModesOK
  <2>5. arr \in Seq(Messages)
    BY DEF ThreadInit
  <2>6. ThreadOK
    BY <2>5, Zenon DEF ThreadInit, ThreadOK
  <2>7. DaemonOK
    BY <2>1, <2>2, BoundAssumption DEF ThreadInit, DaemonOK
  <2> QED
    BY <2>3, <2>4, <2>6, <2>7, ThreadTypeGroups
<1>2. ThreadTypeOK /\ SelectionInv /\ [ThreadNext]_threadVars => (ThreadTypeOK /\ SelectionInv)'
  <2>1. ThreadTypeOK' <=> ThreadOK' /\ ModesOK' /\ SelectOK' /\ LinkOK' /\ DaemonOK'
    BY ThreadTypeGroups, PTL
  <2> QED
    BY <2>1, ThreadOKStep, ModesOKStep, LinkOKStep, DaemonOKStep, SelectStep
<1> QED
  BY <1>1, <1>2, PTL DEF ThreadSpec

\* SelectionStays: the selection stays on its message, whatever pages and
\* messages come in, and whatever timestamps they have.
THEOREM SelectionStaysInvariant == ThreadSpec => []SelectionStays
<1>1. SelectionInv => SelectionStays
  BY DEF SelectionInv, SelectionStays
<1> QED
  BY <1>1, ThreadTypeCorrect, PTL

\* Places of frames: a live message's, a page's.
LiveAt(i, m) == down[i].live /\ down[i].msgs = <<m>>
PageAt(i) == ~down[i].live
Live(m) == \E i \in 1..Len(down) : LiveAt(i, m)

\* A message the thread shows, or will without being asked for it.
Has(m) == m \in Shown \/ m = event \/ Live(m)

\* Nothing more is claimed of a message than that its second is in the thread,
\* or will be: a page may leave out the others of that second.
Accounted(m) == \E n \in Messages : Second(n) = Second(m) /\ Has(n)

\* The pages read and not yet heard.
PagesUnderWay ==
  {page[i] : i \in 1..Len(page)} \cup {down[i].msgs : i \in {j \in 1..Len(down) : PageAt(j)}}

\* Live frames have one message each, which is stored, in order.
FramesOne == \A i \in 1..Len(down) : ~PageAt(i) => \E m \in stored : LiveAt(i, m)
LiveOrder == \A i, j \in 1..Len(down) : \A x, y \in stored : i < j /\ LiveAt(i, x) /\ LiveAt(j, y) => Second(x) <= Second(y)
EventNewest == event # 0 => event \in stored /\ \A n \in stored : Second(n) <= Second(event)

\* One request is under way at most: its frame, its page read, or its page sent.
Single ==
  /\ Len(up) <= 1
  /\ up # <<>> => page = <<>> /\ \A i \in 1..Len(down) : ~PageAt(i)
  /\ page # <<>> => \A i \in 1..Len(down) : ~PageAt(i)
  /\ \A i, j \in 1..Len(down) : PageAt(i) /\ PageAt(j) => i = j

\* The one for older messages is for those before the oldest shown.
Request ==
  /\ pendingOlder => arr # <<>>
  /\ up # <<>> => (up[1] = 0 /\ ~pendingOlder) \/ (arr # <<>> /\ up[1] = Second(arr[1]))

\* Everything shown or under way is stored; the first shown is the oldest of it.
StoredOK == Shown \subseteq stored /\ \A P \in PagesUnderWay : Range(P) \subseteq stored
FirstIsOldest ==
  arr # <<>> => /\ \A m \in Shown : Second(arr[1]) <= Second(m)
                /\ \A m \in stored : Live(m) => Second(arr[1]) <= Second(m)

\* From the first one shown on, or the first live one under way, nothing is missing.
NoGap == arr # <<>> => \A m \in stored : Second(m) >= Second(arr[1]) => Accounted(m)
NoGapAhead == arr = <<>> => \A x, m \in stored : Live(x) /\ Second(m) > Second(x) => Accounted(m)

\* A page was read before the live messages behind it were stored.
PageFirst ==
  \A i, j \in 1..Len(down) : \A y \in stored :
    i < j /\ PageAt(i) /\ LiveAt(j, y) => \A x \in Range(down[i].msgs) : Second(x) <= Second(y)

\* From the first one of a page on nothing is missing, and an older page is of
\* older messages, or there are none.
PageOK(P) ==
  /\ \A x \in Range(P), m \in stored : Second(m) > Second(x) => m \in Range(P) \/ Accounted(m)
  /\ pendingOlder => /\ \A x \in Range(P) : Second(x) < Second(arr[1])
                     /\ P = <<>> => \A m \in stored : Second(m) >= Second(arr[1])
PagesOK == \A P \in PagesUnderWay : PageOK(P)

\* The app stops asking when it shows the oldest one.
EndOK == noMoreHistory => arr # <<>> /\ \A m \in stored : Second(m) >= Second(arr[1])

OrderInv ==
  /\ connected /\ FramesOne /\ LiveOrder /\ EventNewest /\ Single /\ Request /\ StoredOK /\ FirstIsOldest
  /\ NoGap /\ NoGapAhead /\ PageFirst /\ PagesOK /\ EndOK
ReachInv == orderly => OrderInv

LEMMA MessagesNat == \A m \in Messages : m \in Nat /\ m # 0
  BY DEF Messages

\* The types the order is argued with.
LEMMA Plain ==
  ASSUME ThreadTypeOK
  PROVE  /\ arr \in Seq(Messages) /\ Shown = {arr[i] : i \in 1..Len(arr)}
         /\ arr # <<>> => arr[1] \in Shown /\ Second(arr[1]) \in Nat /\ Second(arr[1]) # 0
         /\ stored \subseteq Messages /\ \A m \in stored : m # 0 /\ Second(m) \in Nat
         /\ event = 0 \/ event \in Messages
<1>1. /\ arr \in Seq(Messages) /\ stored \subseteq Messages /\ event \in Messages \cup {0}
      /\ page \in Seq(Seq(Messages)) /\ Len(page) <= 1
  BY DEF ThreadTypeOK
<1>2. Shown = {arr[i] : i \in 1..Len(arr)}
  BY ShownIs, ThreadTypeGroups
<1>3. arr # <<>> => arr[1] \in Messages /\ 1 \in 1..Len(arr)
  BY <1>1
<1> QED
  BY <1>1, <1>2, <1>3, MessagesNat, SecondIsNat, SecondsInOrder

\* What is accounted for stays so while the thread keeps what it has.
LEMMA AccountedStays ==
  ASSUME \A m \in Messages : Has(m) => Has(m)'
  PROVE  \A m : Accounted(m) => Accounted(m)'
BY Zenon DEF Accounted

\* The pages under way are the one read and those sent.
LEMMA PagesAreThese ==
  ASSUME ThreadTypeOK
  PROVE  /\ page = <<>> => PagesUnderWay = {down[i].msgs : i \in {j \in 1..Len(down) : PageAt(j)}}
         /\ page # <<>> => page[1] \in PagesUnderWay
         /\ \A P \in PagesUnderWay : (page # <<>> /\ P = page[1]) \/ \E i \in 1..Len(down) : PageAt(i) /\ P = down[i].msgs
         /\ \A i \in 1..Len(down) : PageAt(i) => down[i].msgs \in PagesUnderWay
         /\ \A P \in PagesUnderWay : P \in Seq(Messages)
<1>1. page = <<>> => {page[i] : i \in 1..Len(page)} = {}
  OBVIOUS
<1>2. page # <<>> => 1 \in 1..Len(page)
  BY DEF ThreadTypeOK
<1>3. \A i \in 1..Len(page) : i = 1 /\ page # <<>>
  BY DEF ThreadTypeOK
<1>4. \A i \in 1..Len(down) : down[i].msgs \in Seq(Messages)
  <2>1. \A i \in 1..Len(down) : down[i] \in Frames
    BY DEF ThreadTypeOK
  <2> QED
    BY <2>1 DEF Frames
<1>5. \A i \in 1..Len(page) : page[i] \in Seq(Messages)
  BY DEF ThreadTypeOK
<1> QED
  BY <1>1, <1>2, <1>3, <1>4, <1>5, Zenon DEF PagesUnderWay

\* The phone has heard the first frame: the others are one place further.
LEMMA FramesMoveUp ==
  ASSUME ThreadTypeOK, down # <<>>, down' = Tail(down)
  PROVE  /\ Len(down) \in Nat /\ Len(down') = Len(down) - 1 /\ 1 \in 1..Len(down)
         /\ \A i \in 1..Len(down') : i + 1 \in 1..Len(down) /\ i \in Nat
         /\ \A i \in 1..Len(down') :
              /\ PageAt(i)' <=> PageAt(i + 1)
              /\ \A m : LiveAt(i, m)' <=> LiveAt(i + 1, m)
              /\ down'[i].msgs = down[i + 1].msgs
         /\ \A m : Live(m)' => Live(m)
         /\ \A m : Live(m) => Live(m)' \/ LiveAt(1, m)
<1>1. /\ Len(down) \in Nat /\ Len(down') = Len(down) - 1 /\ 1 \in 1..Len(down)
      /\ \A i \in 1..Len(down') : i + 1 \in 1..Len(down) /\ down'[i] = down[i + 1]
  BY HeadIs DEF ThreadTypeOK
<1>2. \A i \in 1..Len(down') :
              /\ PageAt(i)' <=> PageAt(i + 1)
              /\ \A m : LiveAt(i, m)' <=> LiveAt(i + 1, m)
              /\ down'[i].msgs = down[i + 1].msgs
  BY <1>1, Zenon DEF PageAt, LiveAt
<1>3. \A m : Live(m)' => Live(m)
  BY <1>1, <1>2, Zenon DEF Live
<1>4. ASSUME NEW m, Live(m), ~LiveAt(1, m) PROVE Live(m)'
  <2>1. PICK i \in 1..Len(down) : LiveAt(i, m)
    BY <1>4, Zenon DEF Live
  <2>2. i # 1
    BY <1>4, <2>1
  <2>3. PICK j \in 1..Len(down') : j + 1 = i
    <3>1. i - 1 \in 1..Len(down') /\ (i - 1) + 1 = i
      BY <1>1, <2>2
    <3> QED
      BY <3>1
  <2>4. LiveAt(j, m)'
    BY <1>2, <2>1, <2>3
  <2> QED
    BY <2>4, Zenon DEF Live
<1> QED
  BY <1>1, <1>2, <1>3, <1>4

\* A frame was pushed: it is the last one, the others are where they were.
LEMMA FrameAdded ==
  ASSUME ThreadTypeOK, NEW f, down' = Append(down, f)
  PROVE  \E n \in Nat :
         /\ Len(down) \in Nat /\ n = Len(down) + 1 /\ Len(down') = n
         /\ down'[n] = f /\ \A i \in 1..n : i \in 1..Len(down) \/ i = n
         /\ \A i \in 1..Len(down) :
              /\ i \in 1..n /\ i < n
              /\ PageAt(i)' <=> PageAt(i)
              /\ \A m : LiveAt(i, m)' <=> LiveAt(i, m)
              /\ down'[i].msgs = down[i].msgs
         /\ \A m : Live(m)' <=> Live(m) \/ (f.live /\ f.msgs = <<m>>)
<1>1. /\ Len(down) \in Nat /\ Len(down') = Len(down) + 1
      /\ down'[Len(down) + 1] = f /\ \A i \in 1..Len(down) : down'[i] = down[i]
  BY DEF ThreadTypeOK
<1>2. PICK n \in Nat : n = Len(down) + 1
  BY <1>1
<1>3. \A i \in 1..n : i \in 1..Len(down) \/ i = n
  BY <1>1, <1>2
<1>4. \A i \in 1..Len(down) : i \in 1..n /\ i < n
  BY <1>1, <1>2
<1>5. down'[n] = f /\ Len(down') = n /\ n \in 1..n
  BY <1>1, <1>2
<1>6. \A i \in 1..Len(down) :
              /\ PageAt(i)' <=> PageAt(i)
              /\ \A m : LiveAt(i, m)' <=> LiveAt(i, m)
              /\ down'[i].msgs = down[i].msgs
  BY <1>1, Zenon DEF PageAt, LiveAt
<1>7. \A m : LiveAt(n, m)' <=> f.live /\ f.msgs = <<m>>
  BY <1>5, Zenon DEF LiveAt
<1>8. \A m : Live(m)' <=> Live(m) \/ (f.live /\ f.msgs = <<m>>)
  BY <1>3, <1>4, <1>5, <1>6, <1>7, Zenon DEF Live
<1> QED
  BY <1>1, <1>2, <1>3, <1>4, <1>5, <1>6, <1>8

\* A page stays right while what it leaves out stays accounted for.
LEMMA PageStays ==
  ASSUME NEW P, PageOK(P),
         \A m \in stored : Accounted(m) => Accounted(m)' \/ m \in Range(P),
         \A m \in stored' \ stored : Accounted(m)' /\ (arr' # <<>> => Second(m) >= Second(arr'[1])),
         pendingOlder' => pendingOlder /\ arr' # <<>> /\ arr'[1] = arr[1]
  PROVE  PageOK(P)'
<1>1. ASSUME NEW x \in Range(P), NEW m \in stored', Second(m) > Second(x) PROVE m \in Range(P) \/ Accounted(m)'
  BY <1>1 DEF PageOK
<1>2. ASSUME pendingOlder' PROVE \A x \in Range(P) : Second(x) < Second(arr'[1])
  BY <1>2, Zenon DEF PageOK
<1>3. ASSUME pendingOlder', P = <<>>, NEW m \in stored' PROVE Second(m) >= Second(arr'[1])
  BY <1>3 DEF PageOK
<1> QED
  BY <1>1, <1>2, <1>3 DEF PageOK

\* pushMsg appends the newest message but those behind it.
LEMMA HearsMessageOrder ==
  ASSUME ThreadTypeOK, ThreadTypeOK', OrderInv, HearsMessage
  PROVE  OrderInv'
<1>1. /\ down # <<>> /\ ~PageAt(1) /\ down' = Tail(down) /\ arr' = arr \o down[1].msgs
      /\ UNCHANGED <<loadedHistory, noMoreHistory, pendingOlder, up, connected, stored, event, page, orderly>>
  BY HeadIs, Zenon DEF HearsMessage, PageAt, paging, daemon
<1>2. PICK m \in stored : LiveAt(1, m)
  BY <1>1, HeadIs, Zenon DEF OrderInv, FramesOne
<1>3. /\ Shown' = Shown \cup {m} /\ arr' # <<>>
      /\ arr # <<>> => arr'[1] = arr[1]
      /\ arr = <<>> => arr'[1] = m
  <2>1. arr \in Seq(Messages) /\ m \in Messages /\ down[1].msgs = <<m>>
    BY <1>2, Zenon DEF ThreadTypeOK, LiveAt
  <2>2. arr' = arr \o <<m>>
    BY <1>1, <2>1, Zenon
  <2>3. /\ arr' \in Seq(Messages) /\ Len(arr') = Len(arr) + 1 /\ arr'[Len(arr) + 1] = m
        /\ \A i \in 1..Len(arr) : arr'[i] = arr[i]
    BY <2>1, <2>2
  <2>4. arr' # <<>> /\ (arr # <<>> => arr'[1] = arr[1]) /\ (arr = <<>> => arr'[1] = m)
    BY <2>1, <2>3
  <2>5. Shown = {arr[i] : i \in 1..Len(arr)} /\ Shown' = {arr'[i] : i \in 1..Len(arr')}
    BY <2>1, <2>3, RangeOf, Zenon DEF Shown
  <2>6. Shown' = Shown \cup {m}
    <3>1. Len(arr) \in Nat /\ Len(arr) + 1 \in 1..Len(arr')
      BY <2>1, <2>3
    <3>2. \A i \in 1..Len(arr') : i \in 1..Len(arr) \/ i = Len(arr) + 1
      BY <2>3, <3>1
    <3>3. \A i \in 1..Len(arr) : i \in 1..Len(arr')
      BY <2>3, <3>1
    <3> QED
      BY <2>3, <2>5, <3>1, <3>2, <3>3, Zenon
  <2> QED
    BY <2>4, <2>6
<1>4. \A x \in stored : Live(x)' => Second(m) <= Second(x)
  <2> SUFFICES ASSUME NEW x \in stored, Live(x)' PROVE Second(m) <= Second(x)
    OBVIOUS
  <2>1. PICK i \in 1..Len(down') : LiveAt(i, x)'
    BY Zenon DEF Live
  <2>2. 1 \in 1..Len(down) /\ i + 1 \in 1..Len(down) /\ LiveAt(i + 1, x) /\ 1 < i + 1
    BY <1>1, <2>1, FramesMoveUp
  <2> QED
    BY <1>2, <2>2 DEF OrderInv, LiveOrder
<1>5. \A x : LiveAt(1, x) => x = m
  BY <1>2, SMT DEF LiveAt
<1>6. \A x : Accounted(x) => Accounted(x)'
  <2>1. \A x : Has(x) => Has(x)'
    BY <1>1, <1>3, <1>5, FramesMoveUp, Zenon DEF Has
  <2> QED
    BY <2>1, AccountedStays
<1>7. Live(m)
  BY <1>1, <1>2, FramesMoveUp, Zenon DEF Live
<1>8. PagesUnderWay' \subseteq PagesUnderWay
  <2> SUFFICES ASSUME NEW P \in PagesUnderWay' PROVE P \in PagesUnderWay
    OBVIOUS
  <2>1. \/ \E i \in 1..Len(page) : P = page[i]
        \/ \E i \in 1..Len(down') : PageAt(i)' /\ P = down'[i].msgs
    BY <1>1, Zenon DEF PagesUnderWay
  <2>2. \A i \in 1..Len(down') :
          i + 1 \in 1..Len(down) /\ (PageAt(i)' => PageAt(i + 1)) /\ down'[i].msgs = down[i + 1].msgs
    BY <1>1, FramesMoveUp
  <2> QED
    BY <2>1, <2>2, Zenon DEF PagesUnderWay
<1>9. FramesOne'
  BY <1>1, FramesMoveUp, Zenon DEF OrderInv, FramesOne
<1>10. LiveOrder'
  <2> SUFFICES ASSUME NEW i \in 1..Len(down'), NEW j \in 1..Len(down'), NEW x \in stored, NEW y \in stored,
                      i < j, LiveAt(i, x)', LiveAt(j, y)'
               PROVE  Second(x) <= Second(y)
    BY <1>1, Zenon DEF LiveOrder
  <2>1. i + 1 < j + 1 /\ i + 1 \in 1..Len(down) /\ j + 1 \in 1..Len(down) /\ LiveAt(i + 1, x) /\ LiveAt(j + 1, y)
    BY <1>1, FramesMoveUp
  <2> QED
    BY <2>1, Zenon DEF OrderInv, LiveOrder
<1>11. EventNewest'
  BY <1>1, Zenon DEF OrderInv, EventNewest
<1>12. Single'
  <2>1. \A i \in 1..Len(down') : PageAt(i)' => PageAt(i + 1) /\ i + 1 \in 1..Len(down)
    BY <1>1, FramesMoveUp
  <2>2. ASSUME NEW i \in 1..Len(down'), NEW j \in 1..Len(down'), PageAt(i)', PageAt(j)' PROVE i = j
    <3>1. i + 1 = j + 1
      BY <2>1, <2>2, Zenon DEF OrderInv, Single
    <3> QED
      BY <3>1
  <2> QED
    BY <1>1, <2>1, <2>2, Zenon DEF OrderInv, Single
<1>13. Request'
  <2>1. arr # <<>> => arr' # <<>> /\ arr'[1] = arr[1]
    BY <1>3
  <2> QED
    BY <1>1, <1>3, <2>1, Zenon DEF OrderInv, Request
<1>14. StoredOK'
  BY <1>1, <1>3, <1>8, Zenon DEF OrderInv, StoredOK
<1>15. FirstIsOldest'
  <2>1. ASSUME NEW x \in Shown' \cup {y \in stored : Live(y)'} PROVE Second(arr'[1]) <= Second(x)
    <3>1. CASE arr = <<>>
      <4>1. Shown = {}
        BY <3>1, Plain
      <4> QED
        BY <1>3, <1>4, <2>1, <3>1, <4>1, Plain
    <3>2. CASE arr # <<>>
      <4>1. \A y \in stored : Live(y)' => Live(y)
        BY <1>1, FramesMoveUp
      <4> QED
        BY <1>3, <1>7, <2>1, <3>2, <4>1 DEF OrderInv, FirstIsOldest
    <3> QED
      BY <3>1, <3>2
  <2> QED
    BY <1>1, <2>1 DEF FirstIsOldest
<1>16. NoGap'
  <2>1. ASSUME NEW x \in stored, Second(x) >= Second(arr'[1]) PROVE Accounted(x)'
    <3>1. CASE arr # <<>>
      BY <1>3, <1>6, <2>1, <3>1 DEF OrderInv, NoGap
    <3>2. CASE arr = <<>>
      <4>1. Second(x) = Second(m) \/ Second(x) > Second(m)
        BY <1>3, <2>1, <3>2, Plain
      <4>2. m \in Messages /\ Has(m)'
        BY <1>3, Plain DEF Has
      <4>3. Second(x) > Second(m) => Accounted(x)
        BY <1>7, <3>2 DEF OrderInv, NoGapAhead
      <4> QED
        BY <1>6, <4>1, <4>2, <4>3, Zenon DEF Accounted
    <3> QED
      BY <3>1, <3>2
  <2> QED
    BY <1>1, <2>1 DEF NoGap
<1>17. NoGapAhead'
  BY <1>3 DEF NoGapAhead
<1>18. PageFirst'
  <2> SUFFICES ASSUME NEW i \in 1..Len(down'), NEW j \in 1..Len(down'), NEW y \in stored,
                      i < j, PageAt(i)', LiveAt(j, y)', NEW x \in Range(down'[i].msgs)
               PROVE  Second(x) <= Second(y)
    BY <1>1, Zenon DEF PageFirst
  <2>1. /\ i + 1 < j + 1 /\ i + 1 \in 1..Len(down) /\ j + 1 \in 1..Len(down) /\ PageAt(i + 1)
        /\ LiveAt(j + 1, y) /\ x \in Range(down[i + 1].msgs)
    BY <1>1, FramesMoveUp
  <2> QED
    BY <2>1, Zenon DEF OrderInv, PageFirst
<1>19. PagesOK'
  <2> SUFFICES ASSUME NEW P \in PagesUnderWay' PROVE PageOK(P)'
    BY Zenon DEF PagesOK
  <2>1. PageOK(P)
    BY <1>8, Zenon DEF OrderInv, PagesOK
  <2>2. pendingOlder' => pendingOlder /\ arr' # <<>> /\ arr'[1] = arr[1]
    BY <1>1, <1>3, Zenon DEF OrderInv, Request
  <2>3. stored' \ stored = {}
    BY <1>1
  <2> QED
    BY <1>6, <2>1, <2>2, <2>3, PageStays
<1>20. EndOK'
  <2>1. noMoreHistory => arr # <<>> /\ arr'[1] = arr[1]
    BY <1>3 DEF OrderInv, EndOK
  <2> QED
    BY <1>1, <1>3, <2>1, Zenon DEF OrderInv, EndOK
<1> QED
  BY <1>1, <1>9, <1>10, <1>11, <1>12, <1>13, <1>14, <1>15, <1>16, <1>17, <1>18, <1>19, <1>20, Zenon DEF OrderInv

\* A page is merged: the thread begins with the oldest of both, and the page
\* was the only thing under way that could add older ones.
LEMMA HearsHistoryOrder ==
  ASSUME ThreadTypeOK, ThreadTypeOK', OrderInv, HearsHistory
  PROVE  OrderInv'
<1> DEFINE p == down[1].msgs
<1>1. /\ down # <<>> /\ PageAt(1) /\ down' = Tail(down) /\ Head(down).msgs = p
      /\ UNCHANGED <<up, connected, stored, event, page, orderly>>
  BY HeadIs, Zenon DEF HearsHistory, PageAt, daemon
<1>2. PICK added :
           /\ Range(arr') = Shown \cup Range(p)
           /\ \A m \in Range(arr') : arr' # <<>> /\ Second(arr'[1]) <= Second(m)
           /\ added = {} <=> Range(p) \subseteq Shown
           /\ EndsRequest(added)
  BY <1>1, Merges, Zenon
<1>3. p \in PagesUnderWay /\ p \in Seq(Messages)
  BY <1>1, FramesMoveUp, PagesAreThese
<1> HIDE DEF p
<1>4. Shown' = Shown \cup Range(p)
  BY <1>2, Zenon DEF Shown
<1>5. \A m \in Shown' : arr' # <<>> /\ Second(arr'[1]) <= Second(m)
  BY <1>2, Zenon DEF Shown
<1>6. arr' # <<>> => arr'[1] \in Shown'
  <2> SUFFICES ASSUME arr' # <<>> PROVE arr'[1] \in Shown'
    OBVIOUS
  <2>1. arr' \in Seq(Messages) /\ 1 \in 1..Len(arr')
    BY DEF ThreadTypeOK
  <2> QED
    BY <2>1, RangeOf DEF Shown
<1>7. up = <<>> /\ page = <<>>
  BY <1>1, FramesMoveUp, Zenon DEF OrderInv, Single
<1>8. \A i \in 1..Len(down') : ~PageAt(i)'
  <2> SUFFICES ASSUME NEW i \in 1..Len(down'), PageAt(i)' PROVE FALSE
    OBVIOUS
  <2>1. PageAt(i + 1) /\ i + 1 \in 1..Len(down) /\ i + 1 # 1 /\ 1 \in 1..Len(down)
    BY <1>1, FramesMoveUp
  <2> QED
    BY <1>1, <2>1, Zenon DEF OrderInv, Single
<1>9. PagesUnderWay' = {}
  <2> SUFFICES ASSUME NEW P \in PagesUnderWay' PROVE FALSE
    OBVIOUS
  <2>1. \/ \E i \in 1..Len(page) : P = page[i]
        \/ \E i \in 1..Len(down') : PageAt(i)' /\ P = down'[i].msgs
    BY <1>1, Zenon DEF PagesUnderWay
  <2>2. Len(page) = 0
    BY <1>7
  <2> QED
    BY <1>8, <2>1, <2>2
<1>10. pendingOlder' = FALSE /\ (noMoreHistory' => noMoreHistory \/ (pendingOlder /\ added = {}))
  BY <1>2, Zenon DEF EndsRequest, paging, ThreadTypeOK
<1>11. \A m : Live(m)' <=> Live(m)
  <2>1. \A m : ~LiveAt(1, m)
    BY <1>1, Zenon DEF LiveAt, PageAt
  <2> QED
    BY <1>1, <2>1, FramesMoveUp, Zenon
<1>12. \A m : Accounted(m) => Accounted(m)'
  <2>1. \A m : Has(m) => Has(m)'
    BY <1>1, <1>4, <1>11, Zenon DEF Has
  <2> QED
    BY <2>1, AccountedStays
<1>13. Range(p) \subseteq stored /\ Shown \subseteq stored /\ PageOK(p)
  BY <1>3, Zenon DEF OrderInv, StoredOK, PagesOK
<1>14. FramesOne'
  <2>1. \A i \in 1..Len(down') : \E m \in stored : LiveAt(i, m)'
    BY <1>1, <1>8, FramesMoveUp, Zenon DEF OrderInv, FramesOne
  <2> QED
    BY <1>1, <2>1, Zenon DEF FramesOne
<1>15. LiveOrder'
  <2> SUFFICES ASSUME NEW i \in 1..Len(down'), NEW j \in 1..Len(down'), NEW x \in stored, NEW y \in stored,
                      i < j, LiveAt(i, x)', LiveAt(j, y)'
               PROVE  Second(x) <= Second(y)
    BY <1>1, Zenon DEF LiveOrder
  <2>1. i + 1 < j + 1 /\ i + 1 \in 1..Len(down) /\ j + 1 \in 1..Len(down) /\ LiveAt(i + 1, x) /\ LiveAt(j + 1, y)
    BY <1>1, FramesMoveUp
  <2> QED
    BY <2>1, Zenon DEF OrderInv, LiveOrder
<1>16. EventNewest'
  BY <1>1, Zenon DEF OrderInv, EventNewest
<1>17. Single'
  BY <1>1, <1>7, <1>8 DEF Single
<1>18. Request'
  BY <1>1, <1>7, <1>10, Zenon DEF Request
<1>19. StoredOK'
  BY <1>1, <1>4, <1>9, <1>13, Zenon DEF StoredOK
<1>20. FirstIsOldest'
  <2>1. ASSUME arr' # <<>>, NEW m \in stored, Live(m)' PROVE Second(arr'[1]) <= Second(m)
    <3>1. Second(arr'[1]) \in Nat /\ Second(m) \in Nat
      BY <1>1, <1>6, <1>4, <1>13, <2>1, Plain
    <3>2. CASE arr # <<>>
      <4>1. arr[1] \in Shown' /\ Second(arr[1]) <= Second(m) /\ Second(arr[1]) \in Nat
        BY <1>4, <1>11, <2>1, <3>2, Plain DEF OrderInv, FirstIsOldest
      <4>2. Second(arr'[1]) <= Second(arr[1])
        BY <1>5, <4>1
      <4> QED
        BY <3>1, <4>1, <4>2
    <3>3. CASE arr = <<>>
      <4>1. Shown = {}
        BY <3>3, Plain
      <4>2. arr'[1] \in Range(p)
        BY <1>4, <1>6, <2>1, <4>1
      <4>3. PICK j \in 1..Len(down) : LiveAt(j, m)
        BY <1>11, <2>1, Zenon DEF Live
      <4>4. 1 < j /\ 1 \in 1..Len(down)
        <5>1. j # 1
          BY <1>1, <4>3, Zenon DEF LiveAt, PageAt
        <5> QED
          BY <1>1, <5>1, FramesMoveUp
      <4> QED
        BY <1>1, <4>2, <4>3, <4>4, Zenon DEF OrderInv, PageFirst, p
    <3> QED
      BY <3>2, <3>3
  <2> QED
    BY <1>1, <1>5, <2>1 DEF FirstIsOldest
<1>21. NoGap'
  <2>1. ASSUME arr' # <<>>, NEW m \in stored, Second(m) >= Second(arr'[1]) PROVE Accounted(m)'
    <3>1. Second(arr'[1]) \in Nat /\ Second(m) \in Nat
      BY <1>1, <1>6, <1>4, <1>13, <2>1, Plain
    <3>2. CASE arr'[1] \in Shown
      <4>1. arr # <<>>
        BY <3>2, Plain
      <4>2. Second(arr[1]) <= Second(arr'[1]) /\ Second(arr[1]) \in Nat
        BY <3>2, <4>1, Plain DEF OrderInv, FirstIsOldest
      <4>3. Second(m) >= Second(arr[1])
        BY <2>1, <3>1, <4>2
      <4> QED
        BY <1>12, <4>1, <4>3 DEF OrderInv, NoGap
    <3>3. CASE arr'[1] \in Range(p)
      <4>1. CASE Second(m) > Second(arr'[1])
        <5>1. m \in Range(p) \/ Accounted(m)
          BY <1>13, <3>3, <4>1 DEF PageOK
        <5>2. m \in Range(p) => m \in Messages /\ Has(m)'
          BY <1>4, Plain DEF Has
        <5> QED
          BY <1>12, <5>1, <5>2, Zenon DEF Accounted
      <4>2. CASE Second(m) = Second(arr'[1])
        <5>1. PICK n \in Messages : n = arr'[1] /\ n \in Range(p)
          <6>1. arr'[1] \in Messages
            BY <1>3, <3>3, RangeOf
          <6> QED
            BY <3>3, <6>1
        <5>2. Has(n)'
          BY <1>4, <5>1, Zenon DEF Has
        <5> QED
          BY <4>2, <5>1, <5>2, Zenon DEF Accounted
      <4> QED
        BY <2>1, <3>1, <4>1, <4>2
    <3> QED
      BY <1>4, <1>6, <2>1, <3>2, <3>3
  <2> QED
    BY <1>1, <2>1 DEF NoGap
<1>22. NoGapAhead'
  <2>1. arr' = <<>> => arr = <<>>
    <3> SUFFICES ASSUME arr # <<>> PROVE arr' # <<>>
      OBVIOUS
    <3>1. arr[1] \in Shown'
      BY <1>4, Plain
    <3> QED
      BY <1>5, <3>1
  <2> QED
    BY <1>1, <1>11, <1>12, <2>1, Zenon DEF OrderInv, NoGapAhead
<1>23. PageFirst'
  BY <1>8, Zenon DEF PageFirst
<1>24. PagesOK'
  BY <1>9, Zenon DEF PagesOK
<1>25. EndOK'
  <2>1. ASSUME noMoreHistory' PROVE arr' # <<>> /\ \A m \in stored : Second(m) >= Second(arr'[1])
    <3>1. arr # <<>> /\ \A m \in stored : Second(m) >= Second(arr[1])
      <4>1. CASE noMoreHistory
        BY <4>1, Zenon DEF OrderInv, EndOK
      <4>2. CASE pendingOlder /\ added = {}
        <5>1. arr # <<>>
          BY <4>2, Zenon DEF OrderInv, Request
        <5>2. Range(p) = {}
          <6> SUFFICES ASSUME NEW x \in Range(p) PROVE FALSE
            OBVIOUS
          <6>1. x \in Shown /\ Second(x) < Second(arr[1])
            BY <1>2, <1>13, <4>2, Zenon DEF PageOK
          <6>2. Second(arr[1]) <= Second(x) /\ Second(x) \in Nat /\ Second(arr[1]) \in Nat
            BY <1>13, <5>1, <6>1, Plain DEF OrderInv, FirstIsOldest
          <6> QED
            BY <6>1, <6>2
        <5>3. p = <<>>
          <6>1. p # <<>> => 1 \in 1..Len(p)
            BY <1>3
          <6>2. Range(p) = {p[i] : i \in 1..Len(p)}
            BY <1>3, RangeOf
          <6> QED
            BY <5>2, <6>1, <6>2
        <5> QED
          BY <1>13, <4>2, <5>1, <5>3, Zenon DEF PageOK
      <4> QED
        BY <1>10, <2>1, <4>1, <4>2
    <3>2. arr[1] \in Shown' /\ Second(arr[1]) \in Nat
      BY <1>4, <3>1, Plain
    <3>3. arr' # <<>> /\ Second(arr'[1]) <= Second(arr[1])
      BY <1>5, <3>2
    <3>4. Second(arr'[1]) \in Nat
      BY <1>4, <1>6, <1>13, <3>3, Plain
    <3> QED
      BY <3>1, <3>2, <3>3, <3>4, Plain
  <2> QED
    BY <1>1, <2>1, Zenon DEF EndOK
<1> QED
  BY <1>1, <1>14, <1>15, <1>16, <1>17, <1>18, <1>19, <1>20, <1>21, <1>22, <1>23, <1>24, <1>25, Zenon DEF OrderInv

\* What depends on the frames alone.
Lined == FramesOne /\ LiveOrder /\ PageFirst

LEMMA LinedStays == ASSUME UNCHANGED <<down, stored>>, Lined PROVE Lined'
  BY Zenon DEF Lined, FramesOne, LiveOrder, PageFirst, LiveAt, PageAt

LEMMA PagesSame ==
  ASSUME UNCHANGED <<down, page>>
  PROVE  PagesUnderWay' = PagesUnderWay
  BY Zenon DEF PagesUnderWay, PageAt

LEMMA AccountedSame ==
  ASSUME UNCHANGED <<arr, event, down>>
  PROVE  \A m : (Accounted(m)' <=> Accounted(m)) /\ (Live(m)' <=> Live(m))
<1>1. \A m : (Has(m)' <=> Has(m)) /\ (Live(m)' <=> Live(m))
  BY Zenon DEF Has, Shown, Live, LiveAt
<1> QED
  BY <1>1, Zenon DEF Accounted

\* Whether a request is under way.
LEMMA AskedIs == Asked <=> page # <<>> \/ up # <<>> \/ \E i \in 1..Len(down) : PageAt(i)
  BY Zenon DEF Asked, PageAt

\* The user opens the thread or asks for more when nothing is under way, leaves,
\* or moves the selection.
LEMMA PhoneOrder ==
  ASSUME ThreadTypeOK, OrderInv,
         UNCHANGED <<arr, noMoreHistory, down, connected, stored, event, page>>,
         \/ UNCHANGED <<up, pendingOlder>>
         \/ up' = up /\ pendingOlder' = FALSE
         \/ ~Asked /\ up' = Append(up, 0) /\ pendingOlder' = FALSE
         \/ ~Asked /\ arr # <<>> /\ up' = Append(up, Second(arr[1]))
  PROVE  OrderInv'
<1>1. PagesUnderWay' = PagesUnderWay
  BY PagesSame
<1>2. \A m : (Accounted(m)' <=> Accounted(m)) /\ (Live(m)' <=> Live(m))
  BY AccountedSame
<1>3. FramesOne' /\ LiveOrder' /\ PageFirst'
  BY LinedStays, Zenon DEF OrderInv, Lined
<1>4. EventNewest' /\ EndOK'
  BY Zenon DEF OrderInv, EventNewest, EndOK
<1>5. StoredOK' /\ FirstIsOldest' /\ NoGap' /\ NoGapAhead'
  BY <1>1, <1>2, Zenon DEF OrderInv, StoredOK, FirstIsOldest, NoGap, NoGapAhead, Shown
<1>6. \A i : PageAt(i)' <=> PageAt(i)
  BY Zenon DEF PageAt
<1>7. CASE up' = up /\ (pendingOlder' = pendingOlder \/ pendingOlder' = FALSE)
  <2>1. Single'
    BY <1>6, <1>7, Zenon DEF OrderInv, Single
  <2>2. Request'
    <3>1. /\ pendingOlder => arr # <<>>
          /\ up # <<>> => (up[1] = 0 /\ ~pendingOlder) \/ (arr # <<>> /\ up[1] = Second(arr[1]))
      BY Zenon DEF OrderInv, Request
    <3>2. pendingOlder' => pendingOlder
      BY <1>7, Zenon
    <3> QED
      BY <1>7, <3>1, <3>2, Zenon DEF Request
  <2>3. \A P : PageOK(P) => PageOK(P)'
    BY <1>2, <1>7, Zenon DEF PageOK
  <2>4. PagesOK'
    BY <1>1, <2>3, Zenon DEF OrderInv, PagesOK
  <2> QED
    BY <1>3, <1>4, <1>5, <2>1, <2>2, <2>4, Zenon DEF OrderInv
<1>8. CASE /\ ~Asked
           /\ \/ up' = Append(up, 0) /\ pendingOlder' = FALSE
              \/ arr # <<>> /\ up' = Append(up, Second(arr[1]))
  <2>1. page = <<>> /\ up = <<>> /\ \A i \in 1..Len(down) : ~PageAt(i)
    BY <1>8, AskedIs, Zenon
  <2>2. Len(up') = 1 /\ up' # <<>> /\ up'[1] = IF up' = Append(up, 0) THEN 0 ELSE Second(arr[1])
    BY <1>8, <2>1
  <2>3. Single'
    BY <1>6, <2>1, <2>2 DEF Single
  <2>4. up' = Append(up, 0) => up'[1] = 0
    BY <2>1
  <2>5. up' = Append(up, Second(arr[1])) => up'[1] = Second(arr[1])
    BY <2>1
  <2>6. (pendingOlder' => arr # <<>>) /\ ((up'[1] = 0 /\ ~pendingOlder') \/ (arr # <<>> /\ up'[1] = Second(arr[1])))
    BY <1>8, <2>4, <2>5, Zenon
  <2>7. Request'
    BY <2>6, Zenon DEF Request
  <2>8. PagesUnderWay = {}
    <3>1. PagesUnderWay = {down[i].msgs : i \in {j \in 1..Len(down) : PageAt(j)}}
      BY <2>1, PagesAreThese
    <3> QED
      BY <2>1, <3>1, Zenon
  <2>9. PagesOK'
    BY <1>1, <2>8, Zenon DEF PagesOK
  <2> QED
    BY <1>3, <1>4, <1>5, <2>3, <2>7, <2>9, Zenon DEF OrderInv
<1>9. \/ up' = up /\ (pendingOlder' = pendingOlder \/ pendingOlder' = FALSE)
      \/ /\ ~Asked
         /\ \/ up' = Append(up, 0) /\ pendingOlder' = FALSE
            \/ arr # <<>> /\ up' = Append(up, Second(arr[1]))
  BY Zenon
<1> QED
  BY <1>7, <1>8, <1>9

\* A live message is stored: it is the newest one, and about to be pushed.
LEMMA StoresLiveOrder ==
  ASSUME ThreadTypeOK, ThreadTypeOK', OrderInv, NEW m \in Messages, StoresLive(m), InOrder(m)
  PROVE  OrderInv'
<1>1. /\ event = 0 /\ event' = m /\ stored' = stored \cup {m} /\ \A n \in stored : n < m
      /\ UNCHANGED <<arr, noMoreHistory, pendingOlder, up, down, connected, page>>
  BY Zenon DEF StoresLive, InOrder, phone, thread, paging
<1>2. m # 0 /\ Second(m) \in Nat /\ \A n \in stored : Second(n) \in Nat /\ Second(n) <= Second(m)
  BY <1>1, MessagesNat, SecondIsNat, SecondsInOrder, Plain
<1>3. PagesUnderWay' = PagesUnderWay
  BY <1>1, PagesSame
<1>4. /\ Shown' = Shown
      /\ \A i : PageAt(i)' <=> PageAt(i)
      /\ \A i, n : LiveAt(i, n)' <=> LiveAt(i, n)
      /\ \A n : Live(n)' <=> Live(n)
  BY <1>1, Zenon DEF Shown, PageAt, LiveAt, Live
<1>5. \A n \in Messages : Has(n) => Has(n)'
  <2>1. \A n \in Messages : n # event
    BY <1>1, MessagesNat
  <2> QED
    BY <1>4, <2>1, Zenon DEF Has
<1>6. \A n \in stored : Accounted(n) => Accounted(n)'
  BY <1>5, AccountedStays
<1>7. Accounted(m)'
  BY <1>1, Zenon DEF Accounted, Has
<1>8. arr # <<>> => arr[1] \in stored /\ Second(arr[1]) \in Nat /\ Second(arr[1]) <= Second(m)
  BY <1>2, Plain DEF OrderInv, StoredOK
<1>9. \A i \in 1..Len(down), n \in stored' : LiveAt(i, n) => n \in stored
  <2> SUFFICES ASSUME NEW i \in 1..Len(down), NEW n, LiveAt(i, n) PROVE n \in stored
    OBVIOUS
  <2>1. PICK k \in stored : LiveAt(i, k)
    BY Zenon DEF OrderInv, FramesOne, LiveAt, PageAt
  <2> QED
    BY <2>1, SMT DEF LiveAt
<1>10. FramesOne'
  BY <1>1, <1>4, Zenon DEF OrderInv, FramesOne
<1>11. LiveOrder' /\ PageFirst'
  <2>1. ASSUME NEW i \in 1..Len(down), NEW j \in 1..Len(down), NEW x \in stored', NEW y \in stored',
               i < j, LiveAt(i, x), LiveAt(j, y)
        PROVE  Second(x) <= Second(y)
    BY <1>9, <2>1, Zenon DEF OrderInv, LiveOrder
  <2>2. ASSUME NEW i \in 1..Len(down), NEW j \in 1..Len(down), NEW y \in stored',
               i < j, PageAt(i), LiveAt(j, y), NEW x \in Range(down[i].msgs)
        PROVE  Second(x) <= Second(y)
    BY <1>9, <2>2, Zenon DEF OrderInv, PageFirst
  <2>3. LiveOrder'
    <3> SUFFICES ASSUME NEW i \in 1..Len(down), NEW j \in 1..Len(down), NEW x \in stored', NEW y \in stored',
                        i < j, LiveAt(i, x)', LiveAt(j, y)'
                 PROVE  Second(x) <= Second(y)
      BY <1>1, SMT DEF LiveOrder, Second
    <3> QED
      BY <1>4, <2>1, Zenon
  <2>4. PageFirst'
    BY <1>1, <1>4, <2>2, Zenon DEF PageFirst
  <2> QED
    BY <2>3, <2>4
<1>12. EventNewest'
  BY <1>1, <1>2 DEF EventNewest
<1>13. Single' /\ Request'
  BY <1>1, <1>4, Zenon DEF OrderInv, Single, Request
<1>14. StoredOK'
  BY <1>1, <1>3, <1>4, Zenon DEF OrderInv, StoredOK
<1>15. FirstIsOldest'
  <2>1. \A n \in stored' : Live(n) => n \in stored
    BY <1>9, Zenon DEF Live
  <2> QED
    BY <1>1, <1>4, <2>1, Zenon DEF OrderInv, FirstIsOldest
<1>16. NoGap' /\ NoGapAhead'
  <2>1. \A n \in stored' : Live(n) => n \in stored
    BY <1>9, Zenon DEF Live
  <2> QED
    BY <1>1, <1>4, <1>6, <1>7, <2>1, Zenon DEF OrderInv, NoGap, NoGapAhead
<1>17. PagesOK'
  <2> SUFFICES ASSUME NEW P \in PagesUnderWay' PROVE PageOK(P)'
    BY Zenon DEF PagesOK
  <2>1. PageOK(P)
    BY <1>3, Zenon DEF OrderInv, PagesOK
  <2>2. pendingOlder' => pendingOlder /\ arr' # <<>> /\ arr'[1] = arr[1]
    BY <1>1, Zenon DEF OrderInv, Request
  <2>3. \A n \in stored' \ stored : Accounted(n)' /\ (arr' # <<>> => Second(n) >= Second(arr'[1]))
    <3>1. m \in stored' => Accounted(m)' /\ (arr' # <<>> => Second(m) >= Second(arr'[1]))
      BY <1>1, <1>2, <1>7, <1>8
    <3> QED
      BY <1>1, <3>1, Zenon
  <2> QED
    BY <1>6, <2>1, <2>2, <2>3, PageStays
<1>18. EndOK'
  BY <1>1, <1>2, <1>8 DEF OrderInv, EndOK
<1> QED
  BY <1>1, <1>10, <1>11, <1>12, <1>13, <1>14, <1>15, <1>16, <1>17, <1>18, Zenon DEF OrderInv

\* A page is read: the newest of what is asked for, so what it leaves out
\* after its first is what the thread has already.
LEMMA TakesGetOrder ==
  ASSUME ThreadTypeOK, ThreadTypeOK', OrderInv, TakesGet
  PROVE  OrderInv'
<1>1. /\ page = <<>> /\ up # <<>> /\ up' = Tail(up)
      /\ UNCHANGED <<arr, noMoreHistory, pendingOlder, down, connected, stored, event>>
  BY Zenon DEF TakesGet, phone, thread, paging
<1>2. PICK p \in Pages(Head(up)) : page' = <<p>>
  BY Zenon DEF TakesGet
<1>3. up \in Seq(Nat) /\ Len(up) = 1 /\ Head(up) = up[1] /\ up' = <<>> /\ up[1] \in Nat
  <2>1. up \in Seq(Nat) /\ Len(up) <= 1
    BY Zenon DEF ThreadTypeOK, OrderInv, Single
  <2>2. Len(up) \in Nat /\ Len(up) # 0
    BY <1>1, <2>1
  <2>3. \A n \in Nat : n <= 1 /\ n # 0 => n = 1
    OBVIOUS
  <2>4. Len(up) = 1
    BY <2>1, <2>2, <2>3, Zenon
  <2> QED
    BY <1>1, <2>1, <2>4
<1>4. PICK P \in SUBSET Older(up[1]) :
           /\ Cardinality(P) = Page \/ P = Older(up[1])
           /\ \A m \in P, n \in Older(up[1]) \ P : Second(m) >= Second(n)
           /\ p \in Seq(Messages) /\ Range(p) = P /\ (p = <<>> => P = {})
  BY <1>2, <1>3, PagesAre, Plain
<1>5. Older(up[1]) = {m \in stored : up[1] = 0 \/ Second(m) < up[1]}
  BY DEF Older
<1>6. Range(p) \subseteq stored
  BY <1>4, <1>5
<1>7. \A x \in Range(p), m \in stored : Second(m) > Second(x) => m \in Range(p) \/ Accounted(m)
  <2> SUFFICES ASSUME NEW x \in Range(p), NEW m \in stored, Second(m) > Second(x), m \notin Range(p)
               PROVE  Accounted(m)
    OBVIOUS
  <2>1. Second(x) \in Nat /\ Second(m) \in Nat
    BY <1>6, Plain
  <2>2. m \notin Older(up[1])
    <3> SUFFICES ASSUME m \in Older(up[1]) PROVE FALSE
      OBVIOUS
    <3>1. Second(x) >= Second(m)
      BY <1>4
    <3> QED
      BY <2>1, <3>1
  <2>3. up[1] # 0 /\ Second(m) >= up[1]
    BY <1>3, <1>5, <2>1, <2>2
  <2>4. arr # <<>> /\ up[1] = Second(arr[1])
    BY <1>1, <2>3, Zenon DEF OrderInv, Request
  <2> QED
    BY <2>3, <2>4 DEF OrderInv, NoGap
<1>8. ASSUME pendingOlder
      PROVE  /\ \A x \in Range(p) : Second(x) < Second(arr[1])
             /\ p = <<>> => \A m \in stored : Second(m) >= Second(arr[1])
  <2>1. arr # <<>> /\ up[1] = Second(arr[1])
    BY <1>1, <1>8, Zenon DEF OrderInv, Request
  <2>2. Second(arr[1]) \in Nat /\ Second(arr[1]) # 0
    BY <2>1, Plain
  <2>3. \A x \in Range(p) : Second(x) < Second(arr[1])
    BY <1>4, <1>5, <2>1, <2>2
  <2>4. ASSUME p = <<>>, NEW m \in stored PROVE Second(m) >= Second(arr[1])
    <3>1. P = {} /\ Cardinality(P) = 0
      BY <1>4, <2>4, FS_EmptySet
    <3>2. Older(up[1]) = {}
      BY <1>4, <3>1, PageAssumption
    <3>3. ~(Second(m) < Second(arr[1]))
      BY <1>5, <2>1, <3>2
    <3> QED
      BY <2>2, <3>3, Plain
  <2> QED
    BY <2>3, <2>4
<1>9. PageOK(p)
  BY <1>7, <1>8, Zenon DEF PageOK
<1>10. \A m : (Accounted(m)' <=> Accounted(m)) /\ (Live(m)' <=> Live(m))
  BY <1>1, AccountedSame
<1>11. /\ Shown' = Shown /\ \A i : PageAt(i)' <=> PageAt(i)
       /\ \A i \in 1..Len(down) : ~PageAt(i)
  BY <1>1, Zenon DEF Shown, PageAt, OrderInv, Single
<1>12. \A Q \in PagesUnderWay' : Q = p
  <2> SUFFICES ASSUME NEW Q \in PagesUnderWay' PROVE Q = p
    OBVIOUS
  <2>1. \/ \E i \in 1..Len(page') : Q = page'[i]
        \/ \E i \in 1..Len(down) : PageAt(i)
    BY <1>1, <1>11, Zenon DEF PagesUnderWay
  <2>2. \A i \in 1..Len(page') : page'[i] = p
    BY <1>2
  <2> QED
    BY <1>11, <2>1, <2>2
<1>13. FramesOne' /\ LiveOrder' /\ PageFirst'
  BY <1>1, LinedStays, Zenon DEF OrderInv, Lined
<1>14. EventNewest' /\ EndOK'
  BY <1>1, Zenon DEF OrderInv, EventNewest, EndOK
<1>15. Single'
  <2>1. Len(up') <= 1 /\ up' = <<>>
    BY <1>3
  <2> QED
    BY <1>1, <1>11, <2>1, Zenon DEF Single
<1>16. Request'
  BY <1>1, <1>3, Zenon DEF OrderInv, Request
<1>17. StoredOK'
  BY <1>1, <1>6, <1>11, <1>12, Zenon DEF OrderInv, StoredOK
<1>18. FirstIsOldest' /\ NoGap' /\ NoGapAhead'
  BY <1>1, <1>10, <1>11, Zenon DEF OrderInv, FirstIsOldest, NoGap, NoGapAhead
<1>19. PagesOK'
  <2>1. PageOK(p)'
    BY <1>1, <1>9, <1>10, Zenon DEF PageOK
  <2> QED
    BY <1>12, <2>1, Zenon DEF PagesOK
<1> QED
  BY <1>1, <1>13, <1>14, <1>15, <1>16, <1>17, <1>18, <1>19, Zenon DEF OrderInv

\* The message stored last is pushed, behind everything older.
LEMMA PushesLiveOrder ==
  ASSUME ThreadTypeOK, ThreadTypeOK', OrderInv, PushesLive
  PROVE  OrderInv'
<1> DEFINE f == [live |-> TRUE, msgs |-> <<event>>]
<1>1. /\ event # 0 /\ event' = 0 /\ down' = Append(down, f)
      /\ UNCHANGED <<arr, noMoreHistory, pendingOlder, up, connected, stored, page>>
  BY Zenon DEF PushesLive, Pushes, OrderInv, phone, thread, paging
<1>2. event \in stored /\ \A m \in stored : Second(m) <= Second(event)
  BY <1>1, Zenon DEF OrderInv, EventNewest
<1>3. f.live /\ f.msgs = <<event>>
  BY Zenon
<1>4. \A m : f.msgs = <<m>> <=> m = event
  BY <1>3, SMT
<1> HIDE DEF f
<1>5. PICK n \in Nat :
         /\ Len(down) \in Nat /\ n = Len(down) + 1 /\ Len(down') = n
         /\ down'[n] = f /\ \A i \in 1..n : i \in 1..Len(down) \/ i = n
         /\ \A i \in 1..Len(down) :
              /\ i \in 1..n /\ i < n
              /\ PageAt(i)' <=> PageAt(i)
              /\ \A m : LiveAt(i, m)' <=> LiveAt(i, m)
              /\ down'[i].msgs = down[i].msgs
         /\ \A m : Live(m)' <=> Live(m) \/ (f.live /\ f.msgs = <<m>>)
  BY <1>1, FrameAdded
<1>6. ~PageAt(n)' /\ \A m : LiveAt(n, m)' <=> m = event
  BY <1>3, <1>4, <1>5, Zenon DEF PageAt, LiveAt
<1>7. \A m : Live(m)' <=> Live(m) \/ m = event
  BY <1>3, <1>4, <1>5, Zenon
<1>8. Shown' = Shown /\ \A m : Accounted(m) => Accounted(m)'
  <2>1. Shown' = Shown /\ \A m : Has(m) => Has(m)'
    BY <1>1, <1>7, Zenon DEF Has, Shown
  <2> QED
    BY <2>1, AccountedStays
<1>9. PagesUnderWay' \subseteq PagesUnderWay
  <2> SUFFICES ASSUME NEW P \in PagesUnderWay' PROVE P \in PagesUnderWay
    OBVIOUS
  <2>1. \/ \E i \in 1..Len(page) : P = page[i]
        \/ \E i \in 1..n : PageAt(i)' /\ P = down'[i].msgs
    BY <1>1, <1>5, Zenon DEF PagesUnderWay
  <2> QED
    BY <1>5, <1>6, <2>1, Zenon DEF PagesUnderWay
<1>10. \A i \in 1..n : PageAt(i)' => i \in 1..Len(down) /\ PageAt(i)
  BY <1>5, <1>6, Zenon
<1>11. FramesOne'
  BY <1>1, <1>2, <1>5, <1>6, Zenon DEF OrderInv, FramesOne
<1>12. LiveOrder'
  <2> SUFFICES ASSUME NEW i \in 1..n, NEW j \in 1..n, NEW x \in stored, NEW y \in stored,
                      i < j, LiveAt(i, x)', LiveAt(j, y)'
               PROVE  Second(x) <= Second(y)
    BY <1>1, <1>5, Zenon DEF LiveOrder
  <2>1. CASE j = n
    BY <1>2, <1>6, <2>1
  <2>2. CASE j \in 1..Len(down)
    <3>1. i # n
      BY <1>5, <2>2
    <3>2. i \in 1..Len(down) /\ LiveAt(i, x) /\ LiveAt(j, y)
      BY <1>5, <2>2, <3>1, Zenon
    <3> QED
      BY <2>2, <3>2, Zenon DEF OrderInv, LiveOrder
  <2> QED
    BY <1>5, <2>1, <2>2
<1>13. PageFirst'
  <2> SUFFICES ASSUME NEW i \in 1..n, NEW j \in 1..n, NEW y \in stored,
                      i < j, PageAt(i)', LiveAt(j, y)', NEW x \in Range(down'[i].msgs)
               PROVE  Second(x) <= Second(y)
    BY <1>1, <1>5, Zenon DEF PageFirst
  <2>1. i \in 1..Len(down) /\ PageAt(i) /\ down'[i].msgs = down[i].msgs
    BY <1>5, <1>10, Zenon
  <2>2. CASE j = n
    <3>1. x \in stored
      BY <2>1, PagesAreThese, Zenon DEF OrderInv, StoredOK
    <3> QED
      BY <1>2, <1>6, <2>2, <3>1
  <2>3. CASE j \in 1..Len(down)
    <3>1. LiveAt(j, y)
      BY <1>5, <2>3, Zenon
    <3> QED
      BY <2>1, <2>3, <3>1, Zenon DEF OrderInv, PageFirst
  <2> QED
    BY <1>5, <2>2, <2>3
<1>14. EventNewest'
  BY <1>1, Zenon DEF EventNewest
<1>15. Single' /\ Request'
  BY <1>1, <1>5, <1>10, Zenon DEF OrderInv, Single, Request
<1>16. StoredOK'
  BY <1>1, <1>8, <1>9, Zenon DEF OrderInv, StoredOK
<1>17. FirstIsOldest'
  <2>1. arr # <<>> => Second(arr[1]) <= Second(event)
    BY <1>2, Plain DEF OrderInv, StoredOK
  <2> QED
    BY <1>1, <1>7, <1>8, <2>1, Zenon DEF OrderInv, FirstIsOldest
<1>18. NoGap'
  BY <1>1, <1>8, Zenon DEF OrderInv, NoGap
<1>19. NoGapAhead'
  <2> SUFFICES ASSUME arr = <<>>, NEW x \in stored, NEW m \in stored, Live(x)', Second(m) > Second(x)
               PROVE  Accounted(m)'
    BY <1>1, Zenon DEF NoGapAhead
  <2>1. x # event
    BY <1>2, Plain
  <2>2. Live(x)
    BY <1>7, <2>1, Zenon
  <2> QED
    BY <1>8, <2>2, Zenon DEF OrderInv, NoGapAhead
<1>20. PagesOK'
  <2> SUFFICES ASSUME NEW P \in PagesUnderWay' PROVE PageOK(P)'
    BY Zenon DEF PagesOK
  <2>1. PageOK(P)
    BY <1>9, Zenon DEF OrderInv, PagesOK
  <2>2. pendingOlder' => pendingOlder /\ arr' # <<>> /\ arr'[1] = arr[1]
    BY <1>1, Zenon DEF OrderInv, Request
  <2>3. stored' \ stored = {}
    BY <1>1
  <2> QED
    BY <1>8, <2>1, <2>2, <2>3, PageStays
<1>21. EndOK'
  BY <1>1, Zenon DEF OrderInv, EndOK
<1> QED
  BY <1>1, <1>11, <1>12, <1>13, <1>14, <1>15, <1>16, <1>17, <1>18, <1>19, <1>20, <1>21, Zenon DEF OrderInv

\* The page read is pushed, behind the live messages pushed since.
LEMMA PushesHistoryOrder ==
  ASSUME ThreadTypeOK, ThreadTypeOK', OrderInv, PushesHistory
  PROVE  OrderInv'
<1> DEFINE f == [live |-> FALSE, msgs |-> page[1]]
<1>1. /\ page # <<>> /\ page' = <<>> /\ down' = Append(down, f)
      /\ UNCHANGED <<arr, noMoreHistory, pendingOlder, up, connected, stored, event>>
  BY Zenon DEF PushesHistory, Pushes, OrderInv, phone, thread, paging
<1>2. f.live = FALSE /\ f.msgs = page[1]
  BY Zenon
<1> HIDE DEF f
<1>3. PICK n \in Nat :
         /\ Len(down) \in Nat /\ n = Len(down) + 1 /\ Len(down') = n
         /\ down'[n] = f /\ \A i \in 1..n : i \in 1..Len(down) \/ i = n
         /\ \A i \in 1..Len(down) :
              /\ i \in 1..n /\ i < n
              /\ PageAt(i)' <=> PageAt(i)
              /\ \A m : LiveAt(i, m)' <=> LiveAt(i, m)
              /\ down'[i].msgs = down[i].msgs
         /\ \A m : Live(m)' <=> Live(m) \/ (f.live /\ f.msgs = <<m>>)
  BY <1>1, FrameAdded
<1>4. PageAt(n)' /\ \A m : ~LiveAt(n, m)'
  BY <1>2, <1>3, Zenon DEF PageAt, LiveAt
<1>5. \A m : Live(m)' <=> Live(m)
  BY <1>2, <1>3, Zenon
<1>6. Shown' = Shown /\ \A m : Accounted(m)' <=> Accounted(m)
  <2>1. Shown' = Shown /\ \A m : Has(m)' <=> Has(m)
    BY <1>1, <1>5, Zenon DEF Has, Shown
  <2> QED
    BY <2>1, Zenon DEF Accounted
<1>7. up = <<>> /\ \A i \in 1..Len(down) : ~PageAt(i)
  BY <1>1, Zenon DEF OrderInv, Single
<1>8. \A i \in 1..n : PageAt(i)' => i = n
  BY <1>3, <1>7, Zenon
<1>9. PagesUnderWay' \subseteq PagesUnderWay
  <2> SUFFICES ASSUME NEW P \in PagesUnderWay' PROVE P \in PagesUnderWay
    OBVIOUS
  <2>1. \/ \E i \in 1..Len(page') : P = page'[i]
        \/ \E i \in 1..n : PageAt(i)' /\ P = down'[i].msgs
    BY <1>3, Zenon DEF PagesUnderWay
  <2>2. ~ \E i \in 1..Len(page') : P = page'[i]
    BY <1>1
  <2>3. P = page[1]
    BY <1>2, <1>3, <1>8, <2>1, <2>2, Zenon
  <2> QED
    BY <1>1, <2>3, PagesAreThese
<1>10. FramesOne'
  BY <1>1, <1>3, <1>4, Zenon DEF OrderInv, FramesOne
<1>11. LiveOrder'
  <2> SUFFICES ASSUME NEW i \in 1..n, NEW j \in 1..n, NEW x \in stored, NEW y \in stored,
                      i < j, LiveAt(i, x)', LiveAt(j, y)'
               PROVE  Second(x) <= Second(y)
    BY <1>1, <1>3, Zenon DEF LiveOrder
  <2>1. i \in 1..Len(down) /\ j \in 1..Len(down) /\ LiveAt(i, x) /\ LiveAt(j, y)
    BY <1>3, <1>4, Zenon
  <2> QED
    BY <2>1, Zenon DEF OrderInv, LiveOrder
<1>12. PageFirst'
  <2> SUFFICES ASSUME NEW i \in 1..n, NEW j \in 1..n, i < j, PageAt(i)'
               PROVE  FALSE
    BY <1>3, Zenon DEF PageFirst
  <2>1. i = n
    BY <1>8, Zenon
  <2> QED
    BY <1>3, <2>1
<1>13. EventNewest' /\ EndOK'
  BY <1>1, Zenon DEF OrderInv, EventNewest, EndOK
<1>14. Single' /\ Request'
  BY <1>1, <1>3, <1>7, <1>8, Zenon DEF OrderInv, Single, Request
<1>15. StoredOK'
  BY <1>1, <1>6, <1>9, Zenon DEF OrderInv, StoredOK
<1>16. FirstIsOldest' /\ NoGap' /\ NoGapAhead'
  BY <1>1, <1>5, <1>6, Zenon DEF OrderInv, FirstIsOldest, NoGap, NoGapAhead
<1>17. PagesOK'
  <2>1. \A P : PageOK(P) => PageOK(P)'
    BY <1>1, <1>6, Zenon DEF PageOK
  <2> QED
    BY <1>9, <2>1, Zenon DEF OrderInv, PagesOK
<1> QED
  BY <1>1, <1>10, <1>11, <1>12, <1>13, <1>14, <1>15, <1>16, <1>17, Zenon DEF OrderInv

\* A request for older messages is for those before the first one shown.
LEMMA RequestOrder ==
  ASSUME ThreadTypeOK, OrderInv, RequestOlderHistory, orderly'
  PROVE  OrderInv'
<1>1. /\ arr # <<>> /\ ~Asked /\ Asks(Second(arr[1]))
      /\ UNCHANGED <<arr, noMoreHistory, down, connected, stored, event, page>>
  BY Zenon DEF RequestOlderHistory, MayRequestOlder, thread, daemon
<1>2. up' = Append(up, Second(arr[1]))
  BY <1>1, Zenon DEF Asks, OrderInv
<1> QED
  BY <1>1, <1>2, PhoneOrder, Zenon

\* Every step of an orderly run keeps the order.
LEMMA ReachStep ==
  ASSUME ThreadTypeOK, ThreadTypeOK', ReachInv, [ThreadNext]_threadVars
  PROVE  ReachInv'
<1> SUFFICES ASSUME orderly' PROVE OrderInv'
  BY Zenon DEF ReachInv
<1>1. ASSUME NEW m \in Messages, StoresHistory(m) PROVE FALSE
  BY <1>1, Zenon DEF StoresHistory
<1>2. ~Breaks
  BY Zenon DEF Breaks
<1>3. orderly
  BY <1>1, <1>2, Zenon DEF ThreadNext, threadVars, phone, thread, OpenThread, LeaveThread, ScrollsToTop,
     RequestOlderHistory, EnterSelectMode, EnterComposeMode, MoveUp, MoveDown, Hears, Handles, TakesGet,
     HearsMessage, HearsHistory, PushesHistory, StoresLive, PushesLive, Reconnects
<1>4. OrderInv
  BY <1>3, Zenon DEF ReachInv
<1>5. ~Reconnects
  BY <1>4, Zenon DEF Reconnects, OrderInv
<1>6. CASE OpenThread
  <2>1. /\ pendingOlder' = FALSE /\ (IF loadedHistory THEN UNCHANGED up ELSE Asks(0))
        /\ loadedHistory \/ ~Asked
        /\ UNCHANGED <<arr, noMoreHistory, down, connected, stored, event, page>>
    BY <1>6, Zenon DEF OpenThread, thread, daemon
  <2>2. up' = up \/ (~Asked /\ up' = Append(up, 0))
    BY <1>4, <2>1, Zenon DEF Asks, OrderInv
  <2> QED
    BY <1>4, <2>1, <2>2, PhoneOrder, Zenon
<1>7. CASE LeaveThread
  <2>1. /\ pendingOlder' = pendingOlder \/ pendingOlder' = FALSE
        /\ UNCHANGED <<arr, noMoreHistory, up, down, connected, stored, event, page>>
    BY <1>7, Zenon DEF LeaveThread, thread, daemon, paging
  <2> QED
    BY <1>4, <2>1, PhoneOrder, Zenon
<1>8. CASE ScrollsToTop \/ (MoveUp /\ RequestOlderHistory)
  <2>1. RequestOlderHistory
    BY <1>8, Zenon DEF ScrollsToTop
  <2> QED
    BY <1>4, <2>1, RequestOrder, Zenon
<1>9. CASE \/ EnterSelectMode \/ EnterComposeMode \/ (MoveUp /\ ~RequestOlderHistory) \/ MoveDown
           \/ UNCHANGED threadVars
  <2>1. UNCHANGED <<pendingOlder, up, arr, noMoreHistory, down, connected, stored, event, page>>
    BY <1>9, Zenon DEF EnterSelectMode, EnterComposeMode, MoveUp, MoveDown, threadVars, phone, thread, daemon, paging
  <2> QED
    BY <1>4, <2>1, PhoneOrder, Zenon
<1>10. CASE Hears
  BY <1>4, <1>10, HearsMessageOrder, HearsHistoryOrder, Zenon DEF Hears
<1>11. CASE Handles
  BY <1>4, <1>11, TakesGetOrder, PushesHistoryOrder, Zenon DEF Handles
<1>12. ASSUME NEW m \in Messages, StoresLive(m) PROVE OrderInv'
  <2>1. InOrder(m)
    BY <1>12, Zenon DEF StoresLive
  <2> QED
    BY <1>4, <1>12, <2>1, StoresLiveOrder, Zenon
<1>13. CASE PushesLive
  BY <1>4, <1>13, PushesLiveOrder, Zenon
<1> QED
  BY <1>1, <1>2, <1>5, <1>6, <1>7, <1>8, <1>9, <1>10, <1>11, <1>12, <1>13, Zenon DEF ThreadNext

\* At the start nothing is shown or under way.
LEMMA ReachInit == ThreadInit => ReachInv
<1> SUFFICES ASSUME ThreadInit PROVE OrderInv
  BY Zenon DEF ReachInv
<1>1. /\ arr = <<>> /\ noMoreHistory = FALSE /\ pendingOlder = FALSE
      /\ up = <<>> /\ down = <<>> /\ connected = TRUE /\ event = 0 /\ page = <<>>
  BY Zenon DEF ThreadInit
<1>2. Len(down) = 0 /\ Len(page) = 0 /\ Len(up) <= 1 /\ 1..Len(down) = {} /\ 1..Len(page) = {}
  BY <1>1
<1>3. PagesUnderWay = {}
  BY <1>2, Zenon DEF PagesUnderWay
<1>4. Shown = {}
  BY <1>1 DEF Shown, Range
<1>5. FramesOne /\ LiveOrder /\ PageFirst /\ \A m : ~Live(m)
  BY <1>2, Zenon DEF FramesOne, LiveOrder, PageFirst, Live
<1>6. EventNewest /\ NoGap /\ NoGapAhead /\ EndOK /\ FirstIsOldest /\ Request
  BY <1>1, <1>5, Zenon DEF EventNewest, NoGap, NoGapAhead, EndOK, FirstIsOldest, Request
<1>7. Single
  BY <1>1, <1>2, Zenon DEF Single
<1>8. StoredOK /\ PagesOK
  BY <1>3, <1>4, Zenon DEF StoredOK, PagesOK
<1> QED
  BY <1>1, <1>5, <1>6, <1>7, <1>8, Zenon DEF OrderInv

\* HistoryWithinReach: what a thread does not show is older than what it shows
\* and can be asked for, or of a second that a page has cut in two
\* (history.go:806), however many messages share a second.
THEOREM HistoryWithinReachInvariant == ThreadSpec => []HistoryWithinReach
<1>1. ThreadTypeOK /\ ThreadTypeOK' /\ ReachInv /\ [ThreadNext]_threadVars => ReachInv'
  BY ReachStep
<1>2. ThreadTypeOK /\ ReachInv => HistoryWithinReach
  <2> SUFFICES ASSUME ThreadTypeOK, ReachInv, orderly, arr # <<>>, Quiet, NEW m \in stored \ Shown,
                      ~CutOff(m)
               PROVE  Second(m) < Second(arr[1]) /\ ~noMoreHistory
    BY Zenon DEF HistoryWithinReach, WithinReach
  <2>1. OrderInv /\ m \in stored /\ down = <<>> /\ event = 0
    BY Zenon DEF ReachInv, Quiet
  <2>2. ~Accounted(m)
    <3>1. 1..Len(down) = {} /\ \A n \in Messages : n # 0
      BY <2>1, MessagesNat
    <3>2. \A n \in Messages : Has(n) => n \in Shown
      BY <2>1, <3>1, Zenon DEF Has, Live
    <3> QED
      BY <3>2, SMT DEF Accounted, CutOff
  <2>3. ~(Second(m) >= Second(arr[1]))
    BY <2>1, <2>2, Zenon DEF OrderInv, NoGap
  <2>4. Second(arr[1]) \in Nat /\ Second(m) \in Nat
    BY <2>1, Plain
  <2>5. Second(m) < Second(arr[1])
    BY <2>3, <2>4
  <2> QED
    BY <2>1, <2>3, <2>5, Zenon DEF OrderInv, EndOK
<1> QED
  BY <1>1, <1>2, ReachInit, ThreadTypeCorrect, PTL DEF ThreadSpec

-----------------------------------------------------------------------------
(* Whose chat a message belongs to                                         *)

USE HandlersAssumption, BoundsAssumption, BatchAssumption

\* The type invariant, a group of variables at a time.
SetsOK ==
  /\ pairs \subseteq Lids /\ active \subseteq Lids /\ learned \subseteq Lids
  /\ hit \subseteq Lids /\ todo \subseteq Lids
MissOK == miss \in [Lids -> Misses]
JobOK == job \in [Actors -> {Idle} \cup Jobs]
TablesOK ==
  /\ rows \subseteq Msgs \X Forms
  /\ last \in [Lids -> [Forms -> 0..MaxTime]]
  /\ handled \subseteq Msgs
CountsOK ==
  /\ phase \in {"serve", "resync", "targets", "ask", "list", "move", "names"}
  /\ tries \in 0..MaxRetries
  /\ arrivals \in 0..MaxArrivals /\ fails \in 0..MaxFails /\ restarts \in 0..MaxRestarts

\* A miss for a number the table has got since is one whose number whatsmeow's
\* memory has, and so is a miss that is about to be recorded.
MissExplained == \A l \in pairs : miss[l] = "absent" => l \in active
FillExplained ==
  \A a \in Actors :
    (At(a, "fill") /\ job[a].val = "absent" /\ job[a].lid \in pairs) => job[a].lid \in active

\* A lookup that is about to fill the maps has an answer to fill in.
FillAnswered ==
  \A a \in Actors : At(a, "fill") => job[a].val \in {"pn", "absent", "failed"}
MissInv == MissExplained /\ FillExplained /\ FillAnswered

\* What the repair has still to move is listed under its LID, and so is the
\* chat it is looking up.
HandlerJobs == \A h \in Handlers : job[h] # Idle => job[h].time > 0
TodoListed == phase = "move" => \A l \in todo : Listed(l, "lid")
RepairJob == job["repair"] # Idle => phase = "move" /\ job["repair"].lid \in todo
RepairInv == HandlerJobs /\ TodoListed /\ RepairJob

\* Between the two statements of putMessage the row is under the chat the
\* handler is going to list, or the repair has moved it under one that is.
Pending ==
  \A h \in Handlers : At(h, "summary") =>
    \/ <<Msg(h), job[h].form>> \in rows
    \/ <<Msg(h), "pn">> \in rows /\ Listed(job[h].lid, "pn")

IInv == TypeOK /\ MissInv /\ RepairInv /\ Pending /\ NothingLost


\* The type invariant is its groups.
LEMMA TypeGroups == TypeOK <=> SetsOK /\ MissOK /\ JobOK /\ TablesOK /\ CountsOK
  BY DEF TypeOK, SetsOK, MissOK, JobOK, TablesOK, CountsOK

\* The bounds are natural numbers.
LEMMA BoundsNat == MaxTime \in Nat /\ MaxArrivals \in Nat /\ MaxFails \in Nat
  BY BoundsAssumption

\* The later of two times is one of them, and not before the other.
LEMMA MaxOfTwo ==
  ASSUME NEW x \in Nat, NEW y \in Nat
  PROVE  Max({x, y}) \in {x, y} /\ Max({x, y}) >= x /\ Max({x, y}) >= y
<1>1. \E z \in {x, y} : \A w \in {x, y} : z >= w
  OBVIOUS
<1> QED
  BY <1>1 DEF Max

\* The initial state satisfies the invariant.
LEMMA InitIInv == Init => IInv
  BY DEF Init, IInv, TypeOK, MissInv, MissExplained, FillExplained, FillAnswered,
         RepairInv, HandlerJobs,
         TodoListed, RepairJob, Pending, NothingLost, Listed, At, Idle, Misses, Forms, Actors

-----------------------------------------------------------------------------
(* Lemmas about the updates the actions are built from.                    *)

\* An actor at a stage has a job; a job that changes its fields remains one.
LEMMA JobAt ==
  ASSUME JobOK, NEW a \in Actors, NEW s \in Stages, At(a, s)
  PROVE  job[a] \in Jobs
  BY DEF JobOK, At, Idle, Stages

\* A job is not the lack of one.
LEMMA NotIdle == \A j \in Jobs : j # Idle
<1> SUFFICES ASSUME NEW j \in Jobs PROVE j # Idle
  OBVIOUS
<1>1. j.at \in Stages /\ Idle.at = "idle"
  BY DEF Jobs, Idle
<1> QED
  BY <1>1 DEF Stages

LEMMA JobChange ==
  ASSUME NEW j \in Jobs, NEW s \in Stages
  PROVE  /\ [j EXCEPT !.at = s, !.val = ""] \in Jobs
         /\ [j EXCEPT !.at = s, !.val = "", !.old = FALSE] \in Jobs
         /\ \A f \in Forms : [j EXCEPT !.at = s, !.val = "", !.old = FALSE, !.form = f] \in Jobs
  BY DEF Jobs

\* A handler's message.
LEMMA MsgOK ==
  ASSUME NEW h, job[h] \in Jobs, job[h].time > 0
  PROVE  job[h].lid \in Lids /\ job[h].form \in Forms /\ Msg(h) \in Msgs
<1>1. job[h].lid \in Lids /\ job[h].time \in 0..MaxTime /\ job[h].form \in Forms
  BY DEF Jobs
<1>2. job[h].time \in 1..MaxTime
  BY <1>1, BoundsNat
<1> QED
  BY <1>1, <1>2 DEF Msg, Msgs

\* One actor's job changes, the others' do not.
LEMMA JobSet ==
  ASSUME JobOK, NEW a \in Actors, NEW j \in {Idle} \cup Jobs, Becomes(a, j)
  PROVE  JobOK' /\ job'[a] = j /\ \A b \in Actors : b # a => job'[b] = job[b]
  BY DEF JobOK, Becomes

\* A lookup that goes on, or ends, is at another stage of the same job.
LEMMA GoesStep ==
  ASSUME JobOK, NEW a \in Actors, NEW s \in Stages, job[a] \in Jobs, Goes(a, s)
  PROVE  /\ JobOK' /\ job'[a] \in Jobs /\ job'[a].at = s
         /\ job'[a].lid = job[a].lid /\ job'[a].time = job[a].time
         /\ job'[a].form = job[a].form
         /\ \A b \in Actors : b # a => job'[b] = job[b]
<1>1. [job[a] EXCEPT !.at = s, !.val = "", !.old = FALSE] \in Jobs
  BY JobChange
<1>2. Becomes(a, [job[a] EXCEPT !.at = s, !.val = "", !.old = FALSE])
  BY DEF Goes
<1>3. /\ JobOK' /\ job'[a] = [job[a] EXCEPT !.at = s, !.val = "", !.old = FALSE]
      /\ \A b \in Actors : b # a => job'[b] = job[b]
  BY <1>1, <1>2, JobSet
<1> QED
  BY <1>1, <1>3 DEF Jobs

LEMMA FindsStep ==
  ASSUME JobOK, NEW a \in Actors, NEW f \in Forms, job[a] \in Jobs, Finds(a, f)
  PROVE  /\ JobOK' /\ job'[a] \in Jobs /\ job'[a].at = "found"
         /\ job'[a].lid = job[a].lid /\ job'[a].time = job[a].time
         /\ job'[a].form = f
         /\ \A b \in Actors : b # a => job'[b] = job[b]
<1>1. [job[a] EXCEPT !.at = "found", !.val = "", !.old = FALSE, !.form = f] \in Jobs
  BY JobChange DEF Stages
<1>2. Becomes(a, [job[a] EXCEPT !.at = "found", !.val = "", !.old = FALSE, !.form = f])
  BY DEF Finds
<1>3. /\ JobOK' /\ job'[a] = [job[a] EXCEPT !.at = "found", !.val = "", !.old = FALSE, !.form = f]
      /\ \A b \in Actors : b # a => job'[b] = job[b]
  BY <1>1, <1>2, JobSet
<1> QED
  BY <1>1, <1>3 DEF Jobs

\* A reset marks lookups under way; it changes nothing else of a job.
LEMMA ResetStep ==
  ASSUME JobOK, Reset
  PROVE  /\ JobOK' /\ MissOK' /\ \A l \in Lids : miss'[l] = "none"
         /\ \A a \in Actors :
              /\ job[a] = Idle <=> job'[a] = Idle
              /\ job'[a].at = job[a].at
              /\ job[a] # Idle => /\ job'[a].val = job[a].val /\ job'[a].lid = job[a].lid
                                  /\ job'[a].time = job[a].time /\ job'[a].form = job[a].form
<1>1. MissOK' /\ \A l \in Lids : miss'[l] = "none"
  BY DEF Reset, MissOK, Misses
<1>2. JobOK'
  <2>1. ASSUME NEW a \in Actors PROVE job'[a] \in {Idle} \cup Jobs
    <3>1. CASE At(a, "query") \/ At(a, "fill")
      <4>1. job[a] \in Jobs
        BY <3>1, JobAt DEF Stages
      <4>2. [job[a] EXCEPT !.old = TRUE] \in Jobs
        BY <4>1 DEF Jobs
      <4> QED
        BY <3>1, <4>2 DEF Reset
    <3>2. CASE ~(At(a, "query") \/ At(a, "fill"))
      BY <3>2 DEF Reset, JobOK
    <3> QED
      BY <3>1, <3>2
  <2> QED
    BY <2>1 DEF Reset, JobOK
<1>3. ASSUME NEW a \in Actors
      PROVE  /\ job[a] = Idle <=> job'[a] = Idle
             /\ job'[a].at = job[a].at
             /\ job[a] # Idle => /\ job'[a].val = job[a].val /\ job'[a].lid = job[a].lid
                                 /\ job'[a].time = job[a].time /\ job'[a].form = job[a].form
  BY DEF Reset, JobOK, At, Idle, Jobs, Stages
<1> QED
  BY <1>1, <1>2, <1>3

\* What a lookup leaves in the maps is a hit or a miss with its reason.
LEMMA CachedOK ==
  ASSUME SetsOK, MissOK, NEW l \in Lids, NEW val \in {"pn", "absent", "failed"},
         Cached(l, val)
  PROVE  hit' \subseteq Lids /\ MissOK'
  BY DEF SetsOK, MissOK, Misses, Cached

LEMMA LearnsCaches ==
  ASSUME SetsOK, MissOK, NEW h, NEW l \in Lids, LearnsNumber(h, l) \/ FindsPair(l)
  PROVE  hit' \subseteq Lids /\ learned' \subseteq Lids /\ MissOK'
<1>1. CASE LearnsNumber(h, l)
  <2>1. learned' \subseteq Lids
    BY <1>1 DEF LearnsNumber, SetsOK
  <2>2. CASE UNCHANGED cache
    BY <2>1, <2>2 DEF cache, SetsOK, MissOK
  <2>3. CASE Cached(l, IF l \in pairs THEN "pn" ELSE "absent")
    BY <2>1, <2>3, CachedOK
  <2> QED
    BY <1>1, <2>2, <2>3 DEF LearnsNumber
<1>2. CASE FindsPair(l)
  <2>1. CASE UNCHANGED cache
    BY <1>2, <2>1 DEF FindsPair, cache, SetsOK, MissOK
  <2>2. CASE Cached(l, "pn")
    BY <1>2, <2>2, CachedOK DEF FindsPair, SetsOK
  <2> QED
    BY <1>2, <2>1, <2>2 DEF FindsPair
<1> QED
  BY <1>1, <1>2

\* The summary of putMessage lists a chat, and forgets nothing.
LEMMA SummaryStep ==
  ASSUME TablesOK, NEW h \in Handlers, job[h] \in Jobs, PutSummary(h)
  PROVE  /\ last' \in [Lids -> [Forms -> 0..MaxTime]]
         /\ \A l \in Lids, f \in Forms : last'[l][f] >= last[l][f]
         /\ last'[job[h].lid][job[h].form] >= job[h].time
<1> DEFINE p == job[h].lid  g == job[h].form  t == job[h].time
<1>1. p \in Lids /\ g \in Forms /\ t \in 0..MaxTime /\ last[p][g] \in 0..MaxTime
  BY DEF Jobs, TablesOK
<1>2. last' = [last EXCEPT ![p][g] = Max({last[p][g], t})]
  BY DEF PutSummary
<1>3. /\ Max({last[p][g], t}) \in {last[p][g], t}
      /\ Max({last[p][g], t}) >= last[p][g] /\ Max({last[p][g], t}) >= t
  BY <1>1, MaxOfTwo
<1> HIDE DEF p, g, t
<1>4. last' \in [Lids -> [Forms -> 0..MaxTime]]
  BY <1>1, <1>2, <1>3 DEF TablesOK
<1>5. last'[p][g] = Max({last[p][g], t})
  BY <1>1, <1>2 DEF TablesOK
<1>6. ASSUME NEW l \in Lids, NEW f \in Forms PROVE last'[l][f] >= last[l][f]
  <2>1. last[l][f] \in 0..MaxTime
    BY DEF TablesOK
  <2>2. CASE l = p /\ f = g
    BY <1>3, <1>5, <2>2
  <2>3. CASE ~(l = p /\ f = g)
    BY <1>1, <1>2, <2>1, <2>3 DEF TablesOK
  <2> QED
    BY <2>2, <2>3
<1> QED
  BY <1>3, <1>4, <1>5, <1>6 DEF p, g, t

\* A move takes every row of a person to the number, and its chat with the
\* later of the two times; other people's chats stay what they are.
LEMMA MovedStep ==
  ASSUME TablesOK, NEW l \in Lids, Moved(l)
  PROVE  /\ rows' \subseteq Msgs \X Forms
         /\ last' \in [Lids -> [Forms -> 0..MaxTime]]
         /\ last'[l].pn >= last[l].lid /\ last'[l].pn >= last[l].pn
         /\ \A k \in Lids : k # l => last'[k] = last[k]
         /\ \A m \in Msgs, f \in Forms :
              <<m, f>> \in rows => IF m[1] = l THEN <<m, "pn">> \in rows' ELSE <<m, f>> \in rows'
<1>1. rows' = {IF r[1][1] = l THEN <<r[1], "pn">> ELSE r : r \in rows}
  BY DEF Moved
<1>2. rows' \subseteq Msgs \X Forms
  BY <1>1 DEF TablesOK, Forms
<1>3. ASSUME NEW m \in Msgs, NEW f \in Forms, <<m, f>> \in rows
      PROVE  IF m[1] = l THEN <<m, "pn">> \in rows' ELSE <<m, f>> \in rows'
  BY <1>1, <1>3
<1> DEFINE x == last[l].lid  y == last[l].pn
<1>4. x \in 0..MaxTime /\ y \in 0..MaxTime
  BY DEF TablesOK, Forms
<1>5. Max({x, y}) \in {x, y} /\ Max({x, y}) >= x /\ Max({x, y}) >= y
  BY <1>4, MaxOfTwo
<1>6. last' = [last EXCEPT ![l] = [lid |-> 0, pn |-> Max({x, y})]]
  BY DEF Moved
<1> HIDE DEF x, y
<1>7. [lid |-> 0, pn |-> Max({x, y})] \in [Forms -> 0..MaxTime]
  BY <1>4, <1>5 DEF Forms
<1>8. /\ last' \in [Lids -> [Forms -> 0..MaxTime]]
      /\ last'[l].pn >= x /\ last'[l].pn >= y
      /\ \A k \in Lids : k # l => last'[k] = last[k]
  BY <1>5, <1>6, <1>7 DEF TablesOK
<1> QED
  BY <1>2, <1>3, <1>8 DEF x, y

-----------------------------------------------------------------------------

\* The sets of LIDs.
LEMMA SetsStep == TypeOK /\ FillAnswered /\ [Next]_vars => SetsOK'
<1> SUFFICES ASSUME TypeOK, FillAnswered, [Next]_vars PROVE SetsOK'
  OBVIOUS
<1> USE DEF SetsOK, sources, cache, tables, repair, bounds
<1>1. ASSUME NEW a \in Actors, Look(a) PROVE SetsOK'
  BY <1>1, TypeGroups DEF Look, Finds, Goes
<1>2. ASSUME NEW a \in Actors, Query(a) PROVE SetsOK'
  BY <1>2, TypeGroups DEF Query
<1>3. ASSUME NEW a \in Actors, Fill(a) PROVE SetsOK'
  <2>1. job[a] \in Jobs /\ job[a].lid \in Lids /\ job[a].val \in {"pn", "absent", "failed"}
    BY <1>3, TypeGroups, JobAt DEF Fill, FillAnswered, Stages, Jobs
  <2> QED
    BY <1>3, <2>1, TypeGroups, CachedOK DEF Fill
<1>4. ASSUME NEW a \in Actors, AskOthers(a) PROVE SetsOK'
  BY <1>4, TypeGroups DEF AskOthers, Finds
<1>5. ASSUME NEW h \in Handlers, Learns(h) PROVE SetsOK'
  <2>1. h \in Actors /\ job[h].lid \in Lids
    BY <1>5, TypeGroups, JobAt DEF Learns, Stages, Jobs, Actors
  <2> QED
    BY <1>5, <2>1, TypeGroups, LearnsCaches DEF Learns
<1>6. ASSUME NEW h \in Handlers, PutRow(h) PROVE SetsOK'
  BY <1>6, TypeGroups DEF PutRow, Goes
<1>7. ASSUME NEW h \in Handlers, PutSummary(h) PROVE SetsOK'
  BY <1>7, TypeGroups DEF PutSummary
<1>8. ASSUME NEW h \in Handlers, NEW m \in Msgs, NEW f \in Forms, NEW c \in BOOLEAN,
             Arrives(h, m, f, c) PROVE SetsOK'
  BY <1>8, TypeGroups DEF Arrives
<1>9. ASSUME NEW l \in Lids, MissExpires(l) PROVE SetsOK'
  BY <1>9, TypeGroups DEF MissExpires
<1>10. ASSUME NEW l \in Lids, Activates(l) PROVE SetsOK'
  BY <1>10, TypeGroups DEF Activates
<1>11. ASSUME NEW l \in Lids, StoresPair(l) PROVE SetsOK'
  BY <1>11, TypeGroups DEF StoresPair
<1>12. CASE ResyncContacts
  BY <1>12, TypeGroups DEF ResyncContacts, Reset
<1>13. CASE Targets
  BY <1>13, TypeGroups DEF Targets
<1>14. CASE AskedAll
  BY <1>14, TypeGroups DEF AskedAll, Reset
<1>15. CASE Lists
  BY <1>15, TypeGroups DEF Lists
<1>16. CASE MigrateLID
  BY <1>16, TypeGroups DEF MigrateLID, Moved
<1>17. CASE LeavesUnmapped
  BY <1>17, TypeGroups DEF LeavesUnmapped
<1>18. CASE Migrated
  BY <1>18, TypeGroups DEF Migrated
<1>19. CASE Throttled
  BY <1>19, TypeGroups DEF Throttled
<1>20. ASSUME NEW b \in Batches, GivesUp(b) PROVE SetsOK'
  BY <1>20, TypeGroups DEF GivesUp
<1>21. ASSUME NEW b \in Batches, NEW known \in SUBSET b, Answered(b, known) PROVE SetsOK'
  BY <1>21, TypeGroups DEF Answered, Batches
<1>22. ASSUME NEW l \in Lids, Resolves(l) PROVE SetsOK'
  BY <1>22, TypeGroups DEF Resolves
<1>23. ASSUME NEW p \in {"serve", "resync", "list"}, Restart(p) PROVE SetsOK'
  BY <1>23, TypeGroups DEF Restart
<1>24. CASE UNCHANGED vars
  BY <1>24, TypeGroups DEF vars
<1> QED
  BY <1>1, <1>2, <1>3, <1>4, <1>5, <1>6, <1>7, <1>8, <1>9, <1>10, <1>11, <1>12,
     <1>13, <1>14, <1>15, <1>16, <1>17, <1>18, <1>19, <1>20, <1>21, <1>22, <1>23, <1>24
  DEF Next, LookupStep, HandlerStep, RepairStep

\* The recorded misses.
LEMMA MissStep == TypeOK /\ FillAnswered /\ [Next]_vars => MissOK'
<1> SUFFICES ASSUME TypeOK, FillAnswered, [Next]_vars PROVE MissOK'
  OBVIOUS
<1> USE DEF MissOK, Misses, sources, cache, tables, repair, bounds
<1>1. ASSUME NEW a \in Actors, Look(a) PROVE MissOK'
  BY <1>1, TypeGroups DEF Look, Finds, Goes
<1>2. ASSUME NEW a \in Actors, Query(a) PROVE MissOK'
  BY <1>2, TypeGroups DEF Query
<1>3. ASSUME NEW a \in Actors, Fill(a) PROVE MissOK'
  <2>1. job[a] \in Jobs /\ job[a].lid \in Lids /\ job[a].val \in {"pn", "absent", "failed"}
    BY <1>3, TypeGroups, JobAt DEF Fill, FillAnswered, Stages, Jobs
  <2> QED
    BY <1>3, <2>1, TypeGroups, CachedOK DEF Fill
<1>4. ASSUME NEW a \in Actors, AskOthers(a) PROVE MissOK'
  BY <1>4, TypeGroups DEF AskOthers, Finds
<1>5. ASSUME NEW h \in Handlers, Learns(h) PROVE MissOK'
  <2>1. h \in Actors /\ job[h].lid \in Lids
    BY <1>5, TypeGroups, JobAt DEF Learns, Stages, Jobs, Actors
  <2> QED
    BY <1>5, <2>1, TypeGroups, LearnsCaches DEF Learns
<1>6. ASSUME NEW h \in Handlers, PutRow(h) PROVE MissOK'
  BY <1>6, TypeGroups DEF PutRow, Goes
<1>7. ASSUME NEW h \in Handlers, PutSummary(h) PROVE MissOK'
  BY <1>7, TypeGroups DEF PutSummary
<1>8. ASSUME NEW h \in Handlers, NEW m \in Msgs, NEW f \in Forms, NEW c \in BOOLEAN,
             Arrives(h, m, f, c) PROVE MissOK'
  BY <1>8, TypeGroups DEF Arrives
<1>9. ASSUME NEW l \in Lids, MissExpires(l) PROVE MissOK'
  BY <1>9, TypeGroups DEF MissExpires
<1>10. ASSUME NEW l \in Lids, Activates(l) PROVE MissOK'
  BY <1>10, TypeGroups DEF Activates
<1>11. ASSUME NEW l \in Lids, StoresPair(l) PROVE MissOK'
  BY <1>11, TypeGroups DEF StoresPair
<1>12. CASE ResyncContacts
  BY <1>12, TypeGroups, ResetStep DEF ResyncContacts
<1>13. CASE Targets
  BY <1>13, TypeGroups DEF Targets
<1>14. CASE AskedAll
  BY <1>14, TypeGroups, ResetStep DEF AskedAll
<1>15. CASE Lists
  BY <1>15, TypeGroups DEF Lists
<1>16. CASE MigrateLID
  BY <1>16, TypeGroups DEF MigrateLID, Moved
<1>17. CASE LeavesUnmapped
  BY <1>17, TypeGroups DEF LeavesUnmapped
<1>18. CASE Migrated
  BY <1>18, TypeGroups DEF Migrated
<1>19. CASE Throttled
  BY <1>19, TypeGroups DEF Throttled
<1>20. ASSUME NEW b \in Batches, GivesUp(b) PROVE MissOK'
  BY <1>20, TypeGroups DEF GivesUp
<1>21. ASSUME NEW b \in Batches, NEW known \in SUBSET b, Answered(b, known) PROVE MissOK'
  BY <1>21, TypeGroups DEF Answered
<1>22. ASSUME NEW l \in Lids, Resolves(l) PROVE MissOK'
  BY <1>22, TypeGroups DEF Resolves
<1>23. ASSUME NEW p \in {"serve", "resync", "list"}, Restart(p) PROVE MissOK'
  BY <1>23, TypeGroups DEF Restart
<1>24. CASE UNCHANGED vars
  BY <1>24, TypeGroups DEF vars
<1> QED
  BY <1>1, <1>2, <1>3, <1>4, <1>5, <1>6, <1>7, <1>8, <1>9, <1>10, <1>11, <1>12,
     <1>13, <1>14, <1>15, <1>16, <1>17, <1>18, <1>19, <1>20, <1>21, <1>22, <1>23, <1>24
  DEF Next, LookupStep, HandlerStep, RepairStep

\* What the actors are in the middle of.
LEMMA JobStep == TypeOK /\ [Next]_vars => JobOK'
<1> SUFFICES ASSUME TypeOK, [Next]_vars PROVE JobOK'
  OBVIOUS
<1> USE DEF sources, cache, tables, repair, bounds
<1>1. ASSUME NEW a \in Actors, Look(a) PROVE JobOK'
  <2>1. job[a] \in Jobs
    BY <1>1, TypeGroups, JobAt DEF Look, Stages
  <2> QED
    BY <1>1, <2>1, TypeGroups, GoesStep, FindsStep DEF Look, Stages, Forms
<1>2. ASSUME NEW a \in Actors, Query(a) PROVE JobOK'
  <2>1. job[a] \in Jobs
    BY <1>2, TypeGroups, JobAt DEF Query, Stages
  <2>2. ASSUME NEW v \in {"pn", "absent", "failed"}
        PROVE  [job[a] EXCEPT !.at = "fill", !.val = v] \in Jobs
    BY <2>1 DEF Jobs, Stages
  <2>3. \E v \in {"pn", "absent", "failed"} : Becomes(a, [job[a] EXCEPT !.at = "fill", !.val = v])
    BY <1>2 DEF Query
  <2> QED
    BY <2>2, <2>3, TypeGroups, JobSet
<1>3. ASSUME NEW a \in Actors, Fill(a) PROVE JobOK'
  <2>1. job[a] \in Jobs
    BY <1>3, TypeGroups, JobAt DEF Fill, Stages
  <2> QED
    BY <1>3, <2>1, TypeGroups, GoesStep, FindsStep DEF Fill, Stages, Forms
<1>4. ASSUME NEW a \in Actors, AskOthers(a) PROVE JobOK'
  <2>1. job[a] \in Jobs
    BY <1>4, TypeGroups, JobAt DEF AskOthers, Stages
  <2> QED
    BY <1>4, <2>1, TypeGroups, FindsStep DEF AskOthers, Forms
<1>5. ASSUME NEW h \in Handlers, Learns(h) PROVE JobOK'
  <2>1. h \in Actors /\ job[h] \in Jobs
    BY <1>5, TypeGroups, JobAt DEF Learns, Stages, Actors
  <2> QED
    BY <1>5, <2>1, TypeGroups, GoesStep DEF Learns, Stages
<1>6. ASSUME NEW h \in Handlers, PutRow(h) PROVE JobOK'
  <2>1. h \in Actors /\ job[h] \in Jobs
    BY <1>6, TypeGroups, JobAt DEF PutRow, Stages, Actors
  <2> QED
    BY <1>6, <2>1, TypeGroups, GoesStep DEF PutRow, Stages
<1>7. ASSUME NEW h \in Handlers, PutSummary(h) PROVE JobOK'
  BY <1>7, TypeGroups, JobSet DEF PutSummary, Actors
<1>8. ASSUME NEW h \in Handlers, NEW m \in Msgs, NEW f \in Forms, NEW c \in BOOLEAN,
             Arrives(h, m, f, c) PROVE JobOK'
  <2>1. [at |-> IF f = "lid" THEN "look" ELSE "found", lid |-> m[1], time |-> m[2], addr |-> f,
         device |-> c, form |-> f, val |-> "", old |-> FALSE] \in Jobs
    BY DEF Jobs, Msgs, Stages
  <2> QED
    BY <1>8, <2>1, TypeGroups, JobSet DEF Arrives, Actors
<1>9. ASSUME NEW l \in Lids, MissExpires(l) PROVE JobOK'
  BY <1>9, TypeGroups DEF MissExpires, JobOK
<1>10. ASSUME NEW l \in Lids, Activates(l) PROVE JobOK'
  BY <1>10, TypeGroups DEF Activates, JobOK
<1>11. ASSUME NEW l \in Lids, StoresPair(l) PROVE JobOK'
  BY <1>11, TypeGroups DEF StoresPair, JobOK
<1>12. CASE ResyncContacts
  BY <1>12, TypeGroups, ResetStep DEF ResyncContacts, JobOK
<1>13. CASE Targets
  BY <1>13, TypeGroups DEF Targets, JobOK
<1>14. CASE AskedAll
  BY <1>14, TypeGroups, ResetStep DEF AskedAll
<1>15. CASE Lists
  BY <1>15, TypeGroups DEF Lists, JobOK
<1>16. CASE MigrateLID
  BY <1>16, TypeGroups, JobSet DEF MigrateLID, Actors
<1>17. CASE LeavesUnmapped
  BY <1>17, TypeGroups, JobSet DEF LeavesUnmapped, Actors
<1>18. CASE Migrated
  BY <1>18, TypeGroups DEF Migrated, JobOK
<1>19. CASE Throttled
  BY <1>19, TypeGroups DEF Throttled, JobOK
<1>20. ASSUME NEW b \in Batches, GivesUp(b) PROVE JobOK'
  BY <1>20, TypeGroups DEF GivesUp, JobOK
<1>21. ASSUME NEW b \in Batches, NEW known \in SUBSET b, Answered(b, known) PROVE JobOK'
  BY <1>21, TypeGroups DEF Answered, JobOK
<1>22. ASSUME NEW l \in Lids, Resolves(l) PROVE JobOK'
  <2>1. [at |-> "look", lid |-> l, time |-> 0, addr |-> "lid", device |-> FALSE,
         form |-> "lid", val |-> "", old |-> FALSE] \in Jobs
    BY DEF Jobs, Stages, Forms
  <2> QED
    BY <1>22, <2>1, TypeGroups, JobSet DEF Resolves, Actors
<1>23. ASSUME NEW p \in {"serve", "resync", "list"}, Restart(p) PROVE JobOK'
  BY <1>23, TypeGroups DEF Restart, JobOK
<1>24. CASE UNCHANGED vars
  BY <1>24, TypeGroups DEF vars, JobOK
<1> QED
  BY <1>1, <1>2, <1>3, <1>4, <1>5, <1>6, <1>7, <1>8, <1>9, <1>10, <1>11, <1>12,
     <1>13, <1>14, <1>15, <1>16, <1>17, <1>18, <1>19, <1>20, <1>21, <1>22, <1>23, <1>24
  DEF Next, LookupStep, HandlerStep, RepairStep

\* The repair's phase and the counters.
LEMMA CountsStep == TypeOK /\ [Next]_vars => CountsOK'
<1> SUFFICES ASSUME TypeOK, [Next]_vars PROVE CountsOK'
  OBVIOUS
<1> USE DEF CountsOK, sources, cache, tables, repair, bounds
<1>1. ASSUME NEW a \in Actors, Look(a) PROVE CountsOK'
  BY <1>1, TypeGroups DEF Look, Finds, Goes
<1>2. ASSUME NEW a \in Actors, Query(a) PROVE CountsOK'
  BY <1>2, TypeGroups DEF Query
<1>3. ASSUME NEW a \in Actors, Fill(a) PROVE CountsOK'
  BY <1>3, TypeGroups DEF Fill, Finds, Goes, Cached
<1>4. ASSUME NEW a \in Actors, AskOthers(a) PROVE CountsOK'
  BY <1>4, TypeGroups DEF AskOthers, Finds
<1>5. ASSUME NEW h \in Handlers, Learns(h) PROVE CountsOK'
  BY <1>5, TypeGroups DEF Learns, LearnsNumber, FindsPair, Cached, Goes
<1>6. ASSUME NEW h \in Handlers, PutRow(h) PROVE CountsOK'
  BY <1>6, TypeGroups DEF PutRow, Goes
<1>7. ASSUME NEW h \in Handlers, PutSummary(h) PROVE CountsOK'
  BY <1>7, TypeGroups DEF PutSummary
<1>8. ASSUME NEW h \in Handlers, NEW m \in Msgs, NEW f \in Forms, NEW c \in BOOLEAN,
             Arrives(h, m, f, c) PROVE CountsOK'
  <2>1. UNCHANGED <<phase, tries, fails, restarts>>
    BY <1>8 DEF Arrives
  <2>2. arrivals < MaxArrivals /\ arrivals' = arrivals + 1
    BY <1>8 DEF Arrives
  <2>3. CountsOK
    BY TypeGroups
  <2>4. arrivals' \in 0..MaxArrivals
    BY <2>2, <2>3, BoundsNat
  <2> QED
    BY <2>1, <2>3, <2>4
<1>9. ASSUME NEW l \in Lids, MissExpires(l) PROVE CountsOK'
  BY <1>9, TypeGroups DEF MissExpires
<1>10. ASSUME NEW l \in Lids, Activates(l) PROVE CountsOK'
  BY <1>10, TypeGroups DEF Activates
<1>11. ASSUME NEW l \in Lids, StoresPair(l) PROVE CountsOK'
  BY <1>11, TypeGroups DEF StoresPair
<1>12. CASE ResyncContacts
  BY <1>12, TypeGroups DEF ResyncContacts, Reset
<1>13. CASE Targets
  BY <1>13, TypeGroups DEF Targets
<1>14. CASE AskedAll
  BY <1>14, TypeGroups DEF AskedAll, Reset
<1>15. CASE Lists
  BY <1>15, TypeGroups DEF Lists
<1>16. CASE MigrateLID
  BY <1>16, TypeGroups DEF MigrateLID, Moved
<1>17. CASE LeavesUnmapped
  BY <1>17, TypeGroups DEF LeavesUnmapped
<1>18. CASE Migrated
  BY <1>18, TypeGroups DEF Migrated
<1>19. CASE Throttled
  BY <1>19, TypeGroups DEF Throttled
<1>20. ASSUME NEW b \in Batches, GivesUp(b) PROVE CountsOK'
  BY <1>20, TypeGroups DEF GivesUp
<1>21. ASSUME NEW b \in Batches, NEW known \in SUBSET b, Answered(b, known) PROVE CountsOK'
  BY <1>21, TypeGroups DEF Answered
<1>22. ASSUME NEW l \in Lids, Resolves(l) PROVE CountsOK'
  BY <1>22, TypeGroups DEF Resolves
<1>23. ASSUME NEW p \in {"serve", "resync", "list"}, Restart(p) PROVE CountsOK'
  BY <1>23, TypeGroups DEF Restart
<1>24. CASE UNCHANGED vars
  BY <1>24, TypeGroups DEF vars
<1> QED
  BY <1>1, <1>2, <1>3, <1>4, <1>5, <1>6, <1>7, <1>8, <1>9, <1>10, <1>11, <1>12,
     <1>13, <1>14, <1>15, <1>16, <1>17, <1>18, <1>19, <1>20, <1>21, <1>22, <1>23, <1>24
  DEF Next, LookupStep, HandlerStep, RepairStep

\* The two tables.
LEMMA TablesStep == TypeOK /\ HandlerJobs /\ [Next]_vars => TablesOK'
<1> SUFFICES ASSUME TypeOK, HandlerJobs, [Next]_vars PROVE TablesOK'
  OBVIOUS
<1> USE DEF sources, cache, tables, repair, bounds, tables
<1>1. ASSUME NEW a \in Actors, Look(a) PROVE TablesOK'
  BY <1>1, TypeGroups DEF Look, Finds, Goes, TablesOK
<1>2. ASSUME NEW a \in Actors, Query(a) PROVE TablesOK'
  BY <1>2, TypeGroups DEF Query, TablesOK
<1>3. ASSUME NEW a \in Actors, Fill(a) PROVE TablesOK'
  BY <1>3, TypeGroups DEF Fill, Finds, Goes, Cached, TablesOK
<1>4. ASSUME NEW a \in Actors, AskOthers(a) PROVE TablesOK'
  BY <1>4, TypeGroups DEF AskOthers, Finds, TablesOK
<1>5. ASSUME NEW h \in Handlers, Learns(h) PROVE TablesOK'
  BY <1>5, TypeGroups DEF Learns, LearnsNumber, FindsPair, Cached, Goes, TablesOK
<1>6. ASSUME NEW h \in Handlers, PutRow(h) PROVE TablesOK'
  <2>1. h \in Actors /\ job[h] \in Jobs /\ job[h].time > 0
    BY <1>6, TypeGroups, JobAt DEF PutRow, Stages, Actors, HandlerJobs, At, Idle
  <2>2. <<Msg(h), job[h].form>> \in Msgs \X Forms
    BY <2>1, MsgOK
  <2> QED
    BY <1>6, <2>2, TypeGroups DEF PutRow, TablesOK
<1>7. ASSUME NEW h \in Handlers, PutSummary(h) PROVE TablesOK'
  <2>1. h \in Actors /\ job[h] \in Jobs /\ job[h].time > 0
    BY <1>7, TypeGroups, JobAt DEF PutSummary, Stages, Actors, HandlerJobs, At, Idle
  <2>2. Msg(h) \in Msgs
    BY <2>1, MsgOK
  <2>3. last' \in [Lids -> [Forms -> 0..MaxTime]]
    BY <1>7, <2>1, TypeGroups, SummaryStep
  <2> QED
    BY <1>7, <2>2, <2>3, TypeGroups DEF PutSummary, TablesOK
<1>8. ASSUME NEW h \in Handlers, NEW m \in Msgs, NEW f \in Forms, NEW c \in BOOLEAN,
             Arrives(h, m, f, c) PROVE TablesOK'
  BY <1>8, TypeGroups DEF Arrives, TablesOK
<1>9. ASSUME NEW l \in Lids, MissExpires(l) PROVE TablesOK'
  BY <1>9, TypeGroups DEF MissExpires, TablesOK
<1>10. ASSUME NEW l \in Lids, Activates(l) PROVE TablesOK'
  BY <1>10, TypeGroups DEF Activates, TablesOK
<1>11. ASSUME NEW l \in Lids, StoresPair(l) PROVE TablesOK'
  BY <1>11, TypeGroups DEF StoresPair, TablesOK
<1>12. CASE ResyncContacts
  BY <1>12, TypeGroups DEF ResyncContacts, Reset, TablesOK
<1>13. CASE Targets
  BY <1>13, TypeGroups DEF Targets, TablesOK
<1>14. CASE AskedAll
  BY <1>14, TypeGroups DEF AskedAll, Reset, TablesOK
<1>15. CASE Lists
  BY <1>15, TypeGroups DEF Lists, TablesOK
<1>16. CASE MigrateLID
  <2>1. job["repair"] \in Jobs /\ job["repair"].lid \in Lids
    BY <1>16, TypeGroups, JobAt DEF MigrateLID, Stages, Actors, Jobs
  <2>2. rows' \subseteq Msgs \X Forms /\ last' \in [Lids -> [Forms -> 0..MaxTime]]
    BY <1>16, <2>1, TypeGroups, MovedStep DEF MigrateLID
  <2> QED
    BY <1>16, <2>2, TypeGroups DEF MigrateLID, TablesOK
<1>17. CASE LeavesUnmapped
  BY <1>17, TypeGroups DEF LeavesUnmapped, TablesOK
<1>18. CASE Migrated
  BY <1>18, TypeGroups DEF Migrated, TablesOK
<1>19. CASE Throttled
  BY <1>19, TypeGroups DEF Throttled, TablesOK
<1>20. ASSUME NEW b \in Batches, GivesUp(b) PROVE TablesOK'
  BY <1>20, TypeGroups DEF GivesUp, TablesOK
<1>21. ASSUME NEW b \in Batches, NEW known \in SUBSET b, Answered(b, known) PROVE TablesOK'
  BY <1>21, TypeGroups DEF Answered, TablesOK
<1>22. ASSUME NEW l \in Lids, Resolves(l) PROVE TablesOK'
  BY <1>22, TypeGroups DEF Resolves, TablesOK
<1>23. ASSUME NEW p \in {"serve", "resync", "list"}, Restart(p) PROVE TablesOK'
  BY <1>23, TypeGroups DEF Restart, TablesOK
<1>24. CASE UNCHANGED vars
  BY <1>24, TypeGroups DEF vars, TablesOK
<1> QED
  BY <1>1, <1>2, <1>3, <1>4, <1>5, <1>6, <1>7, <1>8, <1>9, <1>10, <1>11, <1>12,
     <1>13, <1>14, <1>15, <1>16, <1>17, <1>18, <1>19, <1>20, <1>21, <1>22, <1>23, <1>24
  DEF Next, LookupStep, HandlerStep, RepairStep

\* The type invariant is kept.
LEMMA TypeStep == TypeOK /\ FillAnswered /\ HandlerJobs /\ [Next]_vars => TypeOK'
<1> SUFFICES ASSUME TypeOK, FillAnswered, HandlerJobs, [Next]_vars PROVE TypeOK'
  OBVIOUS
<1>1. SetsOK' /\ MissOK' /\ JobOK' /\ TablesOK' /\ CountsOK'
  BY SetsStep, MissStep, JobStep, TablesStep, CountsStep
<1> QED
  BY <1>1 DEF TypeOK, SetsOK, MissOK, JobOK, TablesOK, CountsOK

-----------------------------------------------------------------------------
(* Misses.                                                                 *)

\* A miss that is recorded, or outlived by a pair that is stored.
LEMMA MissExplainedStep == TypeOK /\ MissInv /\ [Next]_vars => MissExplained'
<1> SUFFICES ASSUME TypeOK, MissInv, [Next]_vars PROVE MissExplained'
  OBVIOUS
<1> USE DEF sources, cache, tables, repair, bounds, MissInv, MissExplained
<1>1. ASSUME NEW a \in Actors, Look(a) PROVE MissExplained'
  BY <1>1, TypeGroups DEF Look, Finds, Goes
<1>2. ASSUME NEW a \in Actors, Query(a) PROVE MissExplained'
  BY <1>2, TypeGroups DEF Query
<1>3. ASSUME NEW a \in Actors, Fill(a) PROVE MissExplained'
  <2>1. a \in Actors /\ job[a] \in Jobs /\ job[a].lid \in Lids
    BY <1>3, TypeGroups, JobAt DEF Fill, Stages, Jobs
  <2>2. CASE UNCHANGED cache
    BY <1>3, <2>2 DEF Fill
  <2>3. CASE Cached(job[a].lid, job[a].val)
    BY <1>3, <2>1, <2>3, TypeGroups DEF Fill, Cached, FillExplained, MissOK, SetsOK
  <2> QED
    BY <1>3, <2>2, <2>3 DEF Fill
<1>4. ASSUME NEW a \in Actors, AskOthers(a) PROVE MissExplained'
  BY <1>4, TypeGroups DEF AskOthers, Finds
<1>5. ASSUME NEW h \in Handlers, Learns(h) PROVE MissExplained'
  <2>1. h \in Actors /\ job[h].lid \in Lids
    BY <1>5, TypeGroups, JobAt DEF Learns, Stages, Jobs, Actors
  <2>2. UNCHANGED <<pairs, active>>
    BY <1>5 DEF Learns
  <2>3. \/ UNCHANGED cache
        \/ Cached(job[h].lid, IF job[h].lid \in pairs THEN "pn" ELSE "absent")
        \/ Cached(job[h].lid, "pn")
    BY <1>5 DEF Learns, LearnsNumber, FindsPair
  <2> QED
    BY <2>1, <2>2, <2>3, TypeGroups DEF Cached, MissOK, SetsOK
<1>6. ASSUME NEW h \in Handlers, PutRow(h) PROVE MissExplained'
  BY <1>6, TypeGroups DEF PutRow, Goes
<1>7. ASSUME NEW h \in Handlers, PutSummary(h) PROVE MissExplained'
  BY <1>7, TypeGroups DEF PutSummary
<1>8. ASSUME NEW h \in Handlers, NEW m \in Msgs, NEW f \in Forms, NEW c \in BOOLEAN,
             Arrives(h, m, f, c) PROVE MissExplained'
  BY <1>8, TypeGroups DEF Arrives
<1>9. ASSUME NEW l \in Lids, MissExpires(l) PROVE MissExplained'
  BY <1>9, TypeGroups DEF MissExpires, MissOK
<1>10. ASSUME NEW l \in Lids, Activates(l) PROVE MissExplained'
  BY <1>10, TypeGroups DEF Activates
<1>11. ASSUME NEW l \in Lids, StoresPair(l) PROVE MissExplained'
  BY <1>11, TypeGroups DEF StoresPair
<1>12. CASE ResyncContacts
  <2>1. CASE Reset
    BY <1>12, <2>1, TypeGroups, ResetStep DEF ResyncContacts, SetsOK
  <2>2. CASE UNCHANGED cache
    BY <1>12, <2>2 DEF ResyncContacts
  <2> QED
    BY <1>12, <2>1, <2>2 DEF ResyncContacts
<1>13. CASE Targets
  BY <1>13, TypeGroups DEF Targets
<1>14. CASE AskedAll
  BY <1>14, TypeGroups, ResetStep DEF AskedAll, SetsOK
<1>15. CASE Lists
  BY <1>15, TypeGroups DEF Lists
<1>16. CASE MigrateLID
  BY <1>16, TypeGroups DEF MigrateLID, Moved
<1>17. CASE LeavesUnmapped
  BY <1>17, TypeGroups DEF LeavesUnmapped
<1>18. CASE Migrated
  BY <1>18, TypeGroups DEF Migrated
<1>19. CASE Throttled
  BY <1>19, TypeGroups DEF Throttled
<1>20. ASSUME NEW b \in Batches, GivesUp(b) PROVE MissExplained'
  BY <1>20, TypeGroups DEF GivesUp
<1>21. ASSUME NEW b \in Batches, NEW known \in SUBSET b, Answered(b, known) PROVE MissExplained'
  BY <1>21, TypeGroups DEF Answered
<1>22. ASSUME NEW l \in Lids, Resolves(l) PROVE MissExplained'
  BY <1>22, TypeGroups DEF Resolves
<1>23. ASSUME NEW p \in {"serve", "resync", "list"}, Restart(p) PROVE MissExplained'
  BY <1>23, TypeGroups DEF Restart, SetsOK
<1>24. CASE UNCHANGED vars
  BY <1>24, TypeGroups DEF vars
<1> QED
  BY <1>1, <1>2, <1>3, <1>4, <1>5, <1>6, <1>7, <1>8, <1>9, <1>10, <1>11, <1>12,
     <1>13, <1>14, <1>15, <1>16, <1>17, <1>18, <1>19, <1>20, <1>21, <1>22, <1>23, <1>24
  DEF Next, LookupStep, HandlerStep, RepairStep

\* Only one actor's job changes, and if it is about to fill the maps its
\* answer is sound.
LEMMA OneJobFills ==
  ASSUME FillExplained, FillAnswered, NEW a \in Actors, UNCHANGED <<pairs, active>>,
         \A b \in Actors : b # a => job'[b] = job[b],
         job'[a].at = "fill" =>
           /\ job'[a].val \in {"pn", "absent", "failed"}
           /\ job'[a].val = "absent" /\ job'[a].lid \in pairs => job'[a].lid \in active
  PROVE  FillExplained' /\ FillAnswered'
  BY DEF FillExplained, FillAnswered, At

\* A lookup that is about to fill the maps.
LEMMA FillStep == TypeOK /\ MissInv /\ [Next]_vars => (FillExplained /\ FillAnswered)'
<1> SUFFICES ASSUME TypeOK, MissInv, [Next]_vars PROVE (FillExplained /\ FillAnswered)'
  OBVIOUS
<1> USE DEF sources, cache, tables, repair, bounds, MissInv
<1>1. ASSUME NEW a \in Actors, Look(a) PROVE (FillExplained /\ FillAnswered)'
  <2>1. a \in Actors /\ job[a] \in Jobs /\ UNCHANGED <<pairs, active>>
    BY <1>1, TypeGroups, JobAt DEF Look, Stages, Actors, sources
  <2>2. /\ \A b \in Actors : b # a => job'[b] = job[b]
        /\ job'[a].at # "fill"
    BY <1>1, <2>1, TypeGroups, GoesStep, FindsStep DEF Look, Stages, Forms
  <2> QED
    BY <2>1, <2>2, OneJobFills
<1>2. ASSUME NEW a \in Actors, Query(a) PROVE (FillExplained /\ FillAnswered)'
  <2>1. a \in Actors /\ job[a] \in Jobs /\ UNCHANGED <<pairs, active>>
    BY <1>2, TypeGroups, JobAt DEF Query, Stages, sources
  <2>2. PICK v \in {"pn", "absent", "failed"} :
          /\ Becomes(a, [job[a] EXCEPT !.at = "fill", !.val = v])
          /\ v = "absent" => job[a].lid \notin pairs
    BY <1>2 DEF Query
  <2>3. [job[a] EXCEPT !.at = "fill", !.val = v] \in Jobs
    BY <2>1 DEF Jobs, Stages
  <2>4. /\ \A b \in Actors : b # a => job'[b] = job[b]
        /\ job'[a] = [job[a] EXCEPT !.at = "fill", !.val = v]
    BY <2>1, <2>2, <2>3, TypeGroups, JobSet
  <2>5. job'[a].val = v /\ job'[a].lid = job[a].lid
    BY <2>1, <2>4 DEF Jobs
  <2> QED
    BY <2>1, <2>2, <2>4, <2>5, OneJobFills
<1>3. ASSUME NEW a \in Actors, Fill(a) PROVE (FillExplained /\ FillAnswered)'
  <2>1. a \in Actors /\ job[a] \in Jobs /\ UNCHANGED <<pairs, active>>
    BY <1>3, TypeGroups, JobAt DEF Fill, Stages, Actors, sources
  <2>2. /\ \A b \in Actors : b # a => job'[b] = job[b]
        /\ job'[a].at # "fill"
    BY <1>3, <2>1, TypeGroups, GoesStep, FindsStep DEF Fill, Stages, Forms
  <2> QED
    BY <2>1, <2>2, OneJobFills
<1>4. ASSUME NEW a \in Actors, AskOthers(a) PROVE (FillExplained /\ FillAnswered)'
  <2>1. a \in Actors /\ job[a] \in Jobs /\ UNCHANGED <<pairs, active>>
    BY <1>4, TypeGroups, JobAt DEF AskOthers, Stages, Actors, sources
  <2>2. /\ \A b \in Actors : b # a => job'[b] = job[b]
        /\ job'[a].at # "fill"
    BY <1>4, <2>1, TypeGroups, GoesStep, FindsStep DEF AskOthers, Forms
  <2> QED
    BY <2>1, <2>2, OneJobFills
<1>5. ASSUME NEW h \in Handlers, Learns(h) PROVE (FillExplained /\ FillAnswered)'
  <2>1. h \in Actors /\ job[h] \in Jobs /\ UNCHANGED <<pairs, active>>
    BY <1>5, TypeGroups, JobAt DEF Learns, Stages, Actors, sources
  <2>2. /\ \A b \in Actors : b # h => job'[b] = job[b]
        /\ job'[h].at # "fill"
    BY <1>5, <2>1, TypeGroups, GoesStep, FindsStep DEF Learns, Stages
  <2> QED
    BY <2>1, <2>2, OneJobFills
<1>6. ASSUME NEW h \in Handlers, PutRow(h) PROVE (FillExplained /\ FillAnswered)'
  <2>1. h \in Actors /\ job[h] \in Jobs /\ UNCHANGED <<pairs, active>>
    BY <1>6, TypeGroups, JobAt DEF PutRow, Stages, Actors, sources
  <2>2. /\ \A b \in Actors : b # h => job'[b] = job[b]
        /\ job'[h].at # "fill"
    BY <1>6, <2>1, TypeGroups, GoesStep, FindsStep DEF PutRow, Stages
  <2> QED
    BY <2>1, <2>2, OneJobFills
<1>7. ASSUME NEW h \in Handlers, PutSummary(h) PROVE (FillExplained /\ FillAnswered)'
  <2>1. h \in Actors /\ job[h] \in Jobs /\ UNCHANGED <<pairs, active>>
    BY <1>7, TypeGroups, JobAt DEF PutSummary, Stages, Actors, sources
  <2>2. /\ \A b \in Actors : b # h => job'[b] = job[b]
        /\ job'[h].at # "fill"
    BY <1>7, <2>1, TypeGroups, JobSet DEF PutSummary, Idle
  <2> QED
    BY <2>1, <2>2, OneJobFills
<1>8. ASSUME NEW h \in Handlers, NEW m \in Msgs, NEW f \in Forms, NEW c \in BOOLEAN,
             Arrives(h, m, f, c) PROVE (FillExplained /\ FillAnswered)'
  <2>1. h \in Actors /\ UNCHANGED <<pairs, active>>
    BY <1>8 DEF Arrives, Actors
  <2>2. /\ \A b \in Actors : b # h => job'[b] = job[b]
        /\ job'[h].at # "fill"
    BY <1>8, TypeGroups DEF Arrives, Becomes, JobOK, Actors
  <2> QED
    BY <2>1, <2>2, OneJobFills
<1>9. ASSUME NEW l \in Lids, MissExpires(l) PROVE (FillExplained /\ FillAnswered)'
  BY <1>9 DEF MissExpires, FillExplained, FillAnswered, At
<1>10. ASSUME NEW l \in Lids, Activates(l) PROVE (FillExplained /\ FillAnswered)'
  BY <1>10 DEF Activates, FillExplained, FillAnswered, At
<1>11. ASSUME NEW l \in Lids, StoresPair(l) PROVE (FillExplained /\ FillAnswered)'
  BY <1>11 DEF StoresPair, FillExplained, FillAnswered, At
<1>12. CASE ResyncContacts
  <2>1. CASE Reset
    <3>1. UNCHANGED <<pairs, active>>
      BY <1>12 DEF ResyncContacts
    <3>2. \A a \in Actors : job[a].at = "fill" => job[a] # Idle
      BY DEF Idle
    <3> QED
      BY <2>1, <3>1, <3>2, TypeGroups, ResetStep DEF FillExplained, FillAnswered, At, Idle
  <2>2. CASE UNCHANGED <<cache, job>>
    BY <1>12, <2>2 DEF ResyncContacts, FillExplained, FillAnswered, At
  <2> QED
    BY <1>12, <2>1, <2>2 DEF ResyncContacts
<1>13. CASE Targets
  BY <1>13 DEF Targets, FillExplained, FillAnswered, At
<1>14. CASE AskedAll
  <2>1. UNCHANGED <<pairs, active>> /\ Reset
    BY <1>14 DEF AskedAll
  <2>2. \A a \in Actors : job[a].at = "fill" => job[a] # Idle
    BY DEF Idle
  <2> QED
    BY <2>1, <2>2, TypeGroups, ResetStep DEF FillExplained, FillAnswered, At, Idle
<1>15. CASE Lists
  BY <1>15 DEF Lists, FillExplained, FillAnswered, At
<1>16. CASE MigrateLID
  <2>1. "repair" \in Actors /\ job["repair"] \in Jobs /\ UNCHANGED <<pairs, active>>
    BY <1>16, TypeGroups, JobAt DEF MigrateLID, Stages, Actors, sources
  <2>2. /\ \A b \in Actors : b # "repair" => job'[b] = job[b]
        /\ job'["repair"].at # "fill"
    BY <1>16, <2>1, TypeGroups, JobSet DEF MigrateLID, Idle
  <2> QED
    BY <2>1, <2>2, OneJobFills
<1>17. CASE LeavesUnmapped
  <2>1. "repair" \in Actors /\ job["repair"] \in Jobs /\ UNCHANGED <<pairs, active>>
    BY <1>17, TypeGroups, JobAt DEF LeavesUnmapped, Stages, Actors, sources
  <2>2. /\ \A b \in Actors : b # "repair" => job'[b] = job[b]
        /\ job'["repair"].at # "fill"
    BY <1>17, <2>1, TypeGroups, JobSet DEF LeavesUnmapped, Idle
  <2> QED
    BY <2>1, <2>2, OneJobFills
<1>18. CASE Migrated
  BY <1>18 DEF Migrated, FillExplained, FillAnswered, At
<1>19. CASE Throttled
  BY <1>19 DEF Throttled, FillExplained, FillAnswered, At
<1>20. ASSUME NEW b \in Batches, GivesUp(b) PROVE (FillExplained /\ FillAnswered)'
  BY <1>20 DEF GivesUp, FillExplained, FillAnswered, At
<1>21. ASSUME NEW b \in Batches, NEW known \in SUBSET b, Answered(b, known) PROVE (FillExplained /\ FillAnswered)'
  BY <1>21 DEF Answered, FillExplained, FillAnswered, At
<1>22. ASSUME NEW l \in Lids, Resolves(l) PROVE (FillExplained /\ FillAnswered)'
  <2>1. "repair" \in Actors /\ UNCHANGED <<pairs, active>>
    BY <1>22 DEF Resolves, Actors
  <2>2. /\ \A b \in Actors : b # "repair" => job'[b] = job[b]
        /\ job'["repair"].at # "fill"
    BY <1>22, TypeGroups DEF Resolves, Becomes, JobOK, Actors
  <2> QED
    BY <2>1, <2>2, OneJobFills
<1>23. ASSUME NEW p \in {"serve", "resync", "list"}, Restart(p) PROVE (FillExplained /\ FillAnswered)'
  BY <1>23 DEF Restart, FillExplained, FillAnswered, At, Idle
<1>24. CASE UNCHANGED vars
  BY <1>24 DEF vars, FillExplained, FillAnswered, At
<1> QED
  BY <1>1, <1>2, <1>3, <1>4, <1>5, <1>6, <1>7, <1>8, <1>9, <1>10, <1>11, <1>12,
     <1>13, <1>14, <1>15, <1>16, <1>17, <1>18, <1>19, <1>20, <1>21, <1>22, <1>23, <1>24
  DEF Next, LookupStep, HandlerStep, RepairStep

\* What a lookup changes: its own job, which stays about the same chat.
LEMMA LookupFrame ==
  ASSUME TypeOK, NEW a \in Actors, LookupStep(a)
  PROVE  /\ job[a] \in Jobs /\ \A b \in Actors : b # a => job'[b] = job[b]
         /\ job'[a].lid = job[a].lid /\ job'[a].time = job[a].time
         /\ job'[a].at # "summary"
         /\ UNCHANGED <<tables, phase, todo, handled>>
<1>1. job[a] \in Jobs
  BY TypeGroups, JobAt DEF LookupStep, Look, Query, Fill, AskOthers, Stages
<1>2. CASE Look(a) \/ Fill(a) \/ AskOthers(a)
  BY <1>1, <1>2, TypeGroups, GoesStep, FindsStep
  DEF Look, Fill, AskOthers, Stages, Forms, repair
<1>3. CASE Query(a)
  <2>1. PICK v \in {"pn", "absent", "failed"} :
          Becomes(a, [job[a] EXCEPT !.at = "fill", !.val = v])
    BY <1>3 DEF Query
  <2>2. [job[a] EXCEPT !.at = "fill", !.val = v] \in Jobs
    BY <1>1 DEF Jobs, Stages
  <2>3. /\ \A b \in Actors : b # a => job'[b] = job[b]
        /\ job'[a] = [job[a] EXCEPT !.at = "fill", !.val = v]
    BY <2>1, <2>2, TypeGroups, JobSet
  <2> QED
    BY <1>1, <1>3, <2>3 DEF Query, Jobs, repair
<1> QED
  BY <1>1, <1>2, <1>3 DEF LookupStep

-----------------------------------------------------------------------------
(* The repair.                                                             *)

\* Only one actor's job changes, and it stays about the same message.
LEMMA OneJobTimed ==
  ASSUME HandlerJobs, NEW a \in Actors, job[a] \in Jobs,
         \A b \in Actors : b # a => job'[b] = job[b],
         job'[a].time = job[a].time \/ job'[a] = Idle
  PROVE  HandlerJobs'
  BY NotIdle DEF HandlerJobs, Actors

\* The handlers' jobs are messages.
LEMMA HandlerJobsStep == TypeOK /\ HandlerJobs /\ [Next]_vars => HandlerJobs'
<1> SUFFICES ASSUME TypeOK, HandlerJobs, [Next]_vars PROVE HandlerJobs'
  OBVIOUS
<1> USE DEF sources, cache, tables, repair, bounds
<1>1. ASSUME NEW a \in Actors, LookupStep(a) PROVE HandlerJobs'
  BY <1>1, LookupFrame, OneJobTimed
<1>5. ASSUME NEW h \in Handlers, Learns(h) PROVE HandlerJobs'
  <2>1. h \in Actors /\ job[h] \in Jobs
    BY <1>5, TypeGroups, JobAt DEF Learns, Stages, Actors
  <2>2. /\ \A b \in Actors : b # h => job'[b] = job[b]
        /\ job'[h].time = job[h].time
    BY <1>5, <2>1, TypeGroups, GoesStep, FindsStep DEF Learns, Stages
  <2> QED
    BY <2>1, <2>2, OneJobTimed
<1>6. ASSUME NEW h \in Handlers, PutRow(h) PROVE HandlerJobs'
  <2>1. h \in Actors /\ job[h] \in Jobs
    BY <1>6, TypeGroups, JobAt DEF PutRow, Stages, Actors
  <2>2. /\ \A b \in Actors : b # h => job'[b] = job[b]
        /\ job'[h].time = job[h].time
    BY <1>6, <2>1, TypeGroups, GoesStep, FindsStep DEF PutRow, Stages
  <2> QED
    BY <2>1, <2>2, OneJobTimed
<1>7. ASSUME NEW h \in Handlers, PutSummary(h) PROVE HandlerJobs'
  <2>1. h \in Actors /\ job[h] \in Jobs
    BY <1>7, TypeGroups, JobAt DEF PutSummary, Stages, Actors
  <2>2. /\ \A b \in Actors : b # h => job'[b] = job[b]
        /\ job'[h] = Idle
    BY <1>7, <2>1, TypeGroups, JobSet DEF PutSummary, Idle
  <2> QED
    BY <2>1, <2>2, OneJobTimed
<1>8. ASSUME NEW h \in Handlers, NEW m \in Msgs, NEW f \in Forms, NEW c \in BOOLEAN,
             Arrives(h, m, f, c) PROVE HandlerJobs'
  <2>1. /\ \A b \in Actors : b # h => job'[b] = job[b]
        /\ job'[h].time = m[2]
    BY <1>8, TypeGroups DEF Arrives, Becomes, JobOK, Actors
  <2>2. m[2] \in 1..MaxTime
    BY DEF Msgs
  <2> QED
    BY <2>1, <2>2, BoundsNat DEF HandlerJobs, Actors
<1>9. ASSUME NEW l \in Lids, MissExpires(l) PROVE HandlerJobs'
  BY <1>9 DEF MissExpires, HandlerJobs
<1>10. ASSUME NEW l \in Lids, Activates(l) PROVE HandlerJobs'
  BY <1>10 DEF Activates, HandlerJobs
<1>11. ASSUME NEW l \in Lids, StoresPair(l) PROVE HandlerJobs'
  BY <1>11 DEF StoresPair, HandlerJobs
<1>12. CASE ResyncContacts
  <2>1. CASE Reset
    BY <2>1, TypeGroups, ResetStep DEF HandlerJobs, Actors
  <2>2. CASE UNCHANGED <<cache, job>>
    BY <2>2 DEF HandlerJobs
  <2> QED
    BY <1>12, <2>1, <2>2 DEF ResyncContacts
<1>13. CASE Targets
  BY <1>13 DEF Targets, HandlerJobs
<1>14. CASE AskedAll
  BY <1>14, TypeGroups, ResetStep DEF AskedAll, HandlerJobs, Actors
<1>15. CASE Lists
  BY <1>15 DEF Lists, HandlerJobs
<1>16. CASE MigrateLID
  <2>1. "repair" \in Actors /\ job["repair"] \in Jobs
    BY <1>16, TypeGroups, JobAt DEF MigrateLID, Stages, Actors
  <2>2. /\ \A b \in Actors : b # "repair" => job'[b] = job[b]
        /\ job'["repair"] = Idle
    BY <1>16, <2>1, TypeGroups, JobSet DEF MigrateLID, Idle
  <2> QED
    BY <2>1, <2>2, OneJobTimed
<1>17. CASE LeavesUnmapped
  <2>1. "repair" \in Actors /\ job["repair"] \in Jobs
    BY <1>17, TypeGroups, JobAt DEF LeavesUnmapped, Stages, Actors
  <2>2. /\ \A b \in Actors : b # "repair" => job'[b] = job[b]
        /\ job'["repair"] = Idle
    BY <1>17, <2>1, TypeGroups, JobSet DEF LeavesUnmapped, Idle
  <2> QED
    BY <2>1, <2>2, OneJobTimed
<1>18. CASE Migrated
  BY <1>18 DEF Migrated, HandlerJobs
<1>19. CASE Throttled
  BY <1>19 DEF Throttled, HandlerJobs
<1>20. ASSUME NEW b \in Batches, GivesUp(b) PROVE HandlerJobs'
  BY <1>20 DEF GivesUp, HandlerJobs
<1>21. ASSUME NEW b \in Batches, NEW known \in SUBSET b, Answered(b, known) PROVE HandlerJobs'
  BY <1>21 DEF Answered, HandlerJobs
<1>22. ASSUME NEW l \in Lids, Resolves(l) PROVE HandlerJobs'
  BY <1>22, TypeGroups DEF Resolves, Becomes, JobOK, HandlerJobs, Actors
<1>23. ASSUME NEW p \in {"serve", "resync", "list"}, Restart(p) PROVE HandlerJobs'
  BY <1>23 DEF Restart, HandlerJobs, Actors
<1>24. CASE UNCHANGED vars
  BY <1>24 DEF vars, HandlerJobs
<1> QED
  BY <1>1, <1>5, <1>6, <1>7, <1>8, <1>9, <1>10, <1>11, <1>12, <1>13, <1>14, <1>15,
     <1>16, <1>17, <1>18, <1>19, <1>20, <1>21, <1>22, <1>23, <1>24
  DEF Next, HandlerStep, RepairStep

\* What the repair has still to move.
LEMMA TodoListedStep == TypeOK /\ HandlerJobs /\ TodoListed /\ RepairJob /\ [Next]_vars => TodoListed'
<1> SUFFICES ASSUME TypeOK, HandlerJobs, TodoListed, RepairJob, [Next]_vars PROVE TodoListed'
  OBVIOUS
<1> USE DEF sources, cache, tables, repair, bounds, tables
<1>1. ASSUME NEW a \in Actors, Look(a) PROVE TodoListed'
  BY <1>1 DEF Look, Finds, Goes, TodoListed, Listed
<1>2. ASSUME NEW a \in Actors, Query(a) PROVE TodoListed'
  BY <1>2 DEF Query, TodoListed, Listed
<1>3. ASSUME NEW a \in Actors, Fill(a) PROVE TodoListed'
  BY <1>3 DEF Fill, Finds, Goes, Cached, TodoListed, Listed
<1>4. ASSUME NEW a \in Actors, AskOthers(a) PROVE TodoListed'
  BY <1>4 DEF AskOthers, Finds, TodoListed, Listed
<1>5. ASSUME NEW h \in Handlers, Learns(h) PROVE TodoListed'
  BY <1>5 DEF Learns, LearnsNumber, FindsPair, Cached, Goes, TodoListed, Listed
<1>6. ASSUME NEW h \in Handlers, PutRow(h) PROVE TodoListed'
  BY <1>6 DEF PutRow, Goes, TodoListed, Listed
<1>7. ASSUME NEW h \in Handlers, PutSummary(h) PROVE TodoListed'
  <2>1. h \in Actors /\ job[h] \in Jobs
    BY <1>7, TypeGroups, JobAt DEF PutSummary, Stages, Actors
  <2>2. \A l \in Lids, f \in Forms : last'[l][f] >= last[l][f]
    BY <1>7, <2>1, TypeGroups, SummaryStep
  <2>3. last' \in [Lids -> [Forms -> 0..MaxTime]]
    BY <1>7, <2>1, TypeGroups, SummaryStep
  <2>4. UNCHANGED <<phase, todo>>
    BY <1>7 DEF PutSummary
  <2>5. ASSUME phase = "move", NEW l \in todo PROVE last'[l]["lid"] > 0
    <3>1. l \in Lids /\ "lid" \in Forms /\ last[l]["lid"] > 0
      BY <2>5, TypeGroups DEF TodoListed, Listed, SetsOK, Forms
    <3>2. last[l]["lid"] \in 0..MaxTime /\ last'[l]["lid"] \in 0..MaxTime
      BY <2>3, <3>1, TypeGroups DEF TablesOK
    <3> QED
      BY <2>2, <3>1, <3>2
  <2> QED
    BY <2>4, <2>5 DEF TodoListed, Listed
<1>8. ASSUME NEW h \in Handlers, NEW m \in Msgs, NEW f \in Forms, NEW c \in BOOLEAN,
             Arrives(h, m, f, c) PROVE TodoListed'
  BY <1>8 DEF Arrives, TodoListed, Listed
<1>9. ASSUME NEW l \in Lids, MissExpires(l) PROVE TodoListed'
  BY <1>9 DEF MissExpires, TodoListed, Listed
<1>10. ASSUME NEW l \in Lids, Activates(l) PROVE TodoListed'
  BY <1>10 DEF Activates, TodoListed, Listed
<1>11. ASSUME NEW l \in Lids, StoresPair(l) PROVE TodoListed'
  BY <1>11 DEF StoresPair, TodoListed, Listed
<1>12. CASE ResyncContacts
  BY <1>12 DEF ResyncContacts, TodoListed
<1>13. CASE Targets
  BY <1>13 DEF Targets, TodoListed, Listed
<1>14. CASE AskedAll
  BY <1>14 DEF AskedAll, TodoListed
<1>15. CASE Lists
  BY <1>15 DEF Lists, TodoListed, Listed
<1>16. CASE MigrateLID
  <2>1. job["repair"] \in Jobs /\ job["repair"].lid \in Lids
    BY <1>16, TypeGroups, JobAt DEF MigrateLID, Stages, Actors, Jobs
  <2>2. \A k \in Lids : k # job["repair"].lid => last'[k] = last[k]
    BY <1>16, <2>1, TypeGroups, MovedStep DEF MigrateLID
  <2> QED
    BY <1>16, <2>2, TypeGroups DEF MigrateLID, TodoListed, Listed, SetsOK
<1>17. CASE LeavesUnmapped
  BY <1>17 DEF LeavesUnmapped, TodoListed, Listed
<1>18. CASE Migrated
  BY <1>18 DEF Migrated, TodoListed, Listed
<1>19. CASE Throttled
  BY <1>19 DEF Throttled, TodoListed, Listed
<1>20. ASSUME NEW b \in Batches, GivesUp(b) PROVE TodoListed'
  BY <1>20 DEF GivesUp, TodoListed, Listed
<1>21. ASSUME NEW b \in Batches, NEW known \in SUBSET b, Answered(b, known) PROVE TodoListed'
  BY <1>21 DEF Answered, TodoListed, Listed
<1>22. ASSUME NEW l \in Lids, Resolves(l) PROVE TodoListed'
  BY <1>22 DEF Resolves, TodoListed, Listed
<1>23. ASSUME NEW p \in {"serve", "resync", "list"}, Restart(p) PROVE TodoListed'
  BY <1>23 DEF Restart, TodoListed, Listed
<1>24. CASE UNCHANGED vars
  BY <1>24 DEF vars, TodoListed, Listed
<1> QED
  BY <1>1, <1>2, <1>3, <1>4, <1>5, <1>6, <1>7, <1>8, <1>9, <1>10, <1>11, <1>12,
     <1>13, <1>14, <1>15, <1>16, <1>17, <1>18, <1>19, <1>20, <1>21, <1>22, <1>23, <1>24
  DEF Next, LookupStep, HandlerStep, RepairStep

\* Only one actor's job changes, and it stays about the same person.
LEMMA OneJobKept ==
  ASSUME RepairJob, NEW a \in Actors, job[a] \in Jobs, UNCHANGED <<phase, todo>>,
         \A b \in Actors : b # a => job'[b] = job[b],
         job'[a].lid = job[a].lid \/ job'[a] = Idle
  PROVE  RepairJob'
  BY NotIdle DEF RepairJob, Actors

\* The chat the repair is looking up.
LEMMA RepairJobStep == TypeOK /\ RepairJob /\ [Next]_vars => RepairJob'
<1> SUFFICES ASSUME TypeOK, RepairJob, [Next]_vars PROVE RepairJob'
  OBVIOUS
<1> USE DEF sources, cache, tables, repair, bounds
<1>1. ASSUME NEW a \in Actors, LookupStep(a) PROVE RepairJob'
  BY <1>1, LookupFrame, OneJobKept
<1>5. ASSUME NEW h \in Handlers, Learns(h) PROVE RepairJob'
  <2>1. h \in Actors /\ job[h] \in Jobs /\ UNCHANGED <<phase, todo>>
    BY <1>5, TypeGroups, JobAt DEF Learns, Stages, Actors
  <2>2. /\ \A b \in Actors : b # h => job'[b] = job[b]
        /\ job'[h].lid = job[h].lid
    BY <1>5, <2>1, TypeGroups, GoesStep, FindsStep DEF Learns, Stages
  <2> QED
    BY <2>1, <2>2, OneJobKept
<1>6. ASSUME NEW h \in Handlers, PutRow(h) PROVE RepairJob'
  <2>1. h \in Actors /\ job[h] \in Jobs /\ UNCHANGED <<phase, todo>>
    BY <1>6, TypeGroups, JobAt DEF PutRow, Stages, Actors
  <2>2. /\ \A b \in Actors : b # h => job'[b] = job[b]
        /\ job'[h].lid = job[h].lid
    BY <1>6, <2>1, TypeGroups, GoesStep, FindsStep DEF PutRow, Stages
  <2> QED
    BY <2>1, <2>2, OneJobKept
<1>7. ASSUME NEW h \in Handlers, PutSummary(h) PROVE RepairJob'
  <2>1. h \in Actors /\ job[h] \in Jobs /\ UNCHANGED <<phase, todo>>
    BY <1>7, TypeGroups, JobAt DEF PutSummary, Stages, Actors
  <2>2. /\ \A b \in Actors : b # h => job'[b] = job[b]
        /\ job'[h] = Idle
    BY <1>7, <2>1, TypeGroups, JobSet DEF PutSummary, Idle
  <2> QED
    BY <2>1, <2>2, OneJobKept
<1>8. ASSUME NEW h \in Handlers, NEW m \in Msgs, NEW f \in Forms, NEW c \in BOOLEAN,
             Arrives(h, m, f, c) PROVE RepairJob'
  BY <1>8, TypeGroups DEF Arrives, Becomes, JobOK, RepairJob, Actors
<1>9. ASSUME NEW l \in Lids, MissExpires(l) PROVE RepairJob'
  BY <1>9 DEF MissExpires, RepairJob
<1>10. ASSUME NEW l \in Lids, Activates(l) PROVE RepairJob'
  BY <1>10 DEF Activates, RepairJob
<1>11. ASSUME NEW l \in Lids, StoresPair(l) PROVE RepairJob'
  BY <1>11 DEF StoresPair, RepairJob
<1>12. CASE ResyncContacts
  <2>1. "repair" \in Actors /\ job["repair"] = Idle
    BY <1>12 DEF ResyncContacts, RepairJob, Actors
  <2>2. CASE Reset
    BY <2>1, <2>2, TypeGroups, ResetStep DEF RepairJob
  <2>3. CASE UNCHANGED <<cache, job>>
    BY <2>1, <2>3 DEF RepairJob
  <2> QED
    BY <1>12, <2>2, <2>3 DEF ResyncContacts
<1>13. CASE Targets
  BY <1>13 DEF Targets, RepairJob
<1>14. CASE AskedAll
  <2>1. "repair" \in Actors /\ job["repair"] = Idle
    BY <1>14 DEF AskedAll, RepairJob, Actors
  <2> QED
    BY <1>14, <2>1, TypeGroups, ResetStep DEF AskedAll, RepairJob
<1>15. CASE Lists
  BY <1>15 DEF Lists, RepairJob
<1>16. CASE MigrateLID
  BY <1>16, TypeGroups DEF MigrateLID, Becomes, JobOK, RepairJob, Actors
<1>17. CASE LeavesUnmapped
  BY <1>17, TypeGroups DEF LeavesUnmapped, Becomes, JobOK, RepairJob, Actors
<1>18. CASE Migrated
  BY <1>18 DEF Migrated, RepairJob
<1>19. CASE Throttled
  BY <1>19 DEF Throttled, RepairJob
<1>20. ASSUME NEW b \in Batches, GivesUp(b) PROVE RepairJob'
  BY <1>20 DEF GivesUp, RepairJob
<1>21. ASSUME NEW b \in Batches, NEW known \in SUBSET b, Answered(b, known) PROVE RepairJob'
  BY <1>21 DEF Answered, RepairJob
<1>22. ASSUME NEW l \in Lids, Resolves(l) PROVE RepairJob'
  BY <1>22, TypeGroups DEF Resolves, Becomes, JobOK, RepairJob, Actors
<1>23. ASSUME NEW p \in {"serve", "resync", "list"}, Restart(p) PROVE RepairJob'
  BY <1>23 DEF Restart, RepairJob, Actors
<1>24. CASE UNCHANGED vars
  BY <1>24 DEF vars, RepairJob
<1> QED
  BY <1>1, <1>5, <1>6, <1>7, <1>8, <1>9, <1>10, <1>11, <1>12, <1>13, <1>14, <1>15,
     <1>16, <1>17, <1>18, <1>19, <1>20, <1>21, <1>22, <1>23, <1>24
  DEF Next, HandlerStep, RepairStep

-----------------------------------------------------------------------------
(* Messages.                                                               *)

\* Only one actor's job changes, and it is not between the two statements.
LEMMA OneJobPends ==
  ASSUME Pending, NEW a \in Actors, UNCHANGED tables,
         \A b \in Actors : b # a => job'[b] = job[b],
         job'[a].at # "summary"
  PROVE  Pending'
  BY DEF Pending, Msg, At, Listed, tables, Actors

\* What the repair moves is listed: a move leaves the chat under the number
\* listed, whatever it was before.
LEMMA MovedIsListed ==
  ASSUME TypeOK, TodoListed, RepairJob, MigrateLID
  PROVE  job["repair"].lid \in Lids /\ last'[job["repair"].lid]["pn"] > 0
<1>1. job["repair"] \in Jobs /\ job["repair"].lid \in Lids
  BY TypeGroups, JobAt DEF MigrateLID, Stages, Actors, Jobs
<1>2. last[job["repair"].lid]["lid"] > 0
  BY <1>1, NotIdle DEF RepairJob, TodoListed, Listed
<1>3. /\ last' \in [Lids -> [Forms -> 0..MaxTime]]
      /\ last'[job["repair"].lid].pn >= last[job["repair"].lid].lid
  BY <1>1, TypeGroups, MovedStep DEF MigrateLID
<1>4. last[job["repair"].lid]["lid"] \in 0..MaxTime /\ last'[job["repair"].lid]["pn"] \in 0..MaxTime
  BY <1>1, <1>3, TypeGroups DEF TablesOK, Forms
<1> QED
  BY <1>1, <1>2, <1>3, <1>4

\* Between the two statements of putMessage.
LEMMA PendingStep == TypeOK /\ TodoListed /\ RepairJob /\ Pending /\ [Next]_vars => Pending'
<1> SUFFICES ASSUME TypeOK, TodoListed, RepairJob, Pending, [Next]_vars PROVE Pending'
  OBVIOUS
<1> USE DEF sources, cache, repair, bounds
<1>1. ASSUME NEW a \in Actors, LookupStep(a) PROVE Pending'
  BY <1>1, LookupFrame, OneJobPends
<1>5. ASSUME NEW h \in Handlers, Learns(h) PROVE Pending'
  <2>1. h \in Actors /\ job[h] \in Jobs /\ UNCHANGED tables
    BY <1>5, TypeGroups, JobAt DEF Learns, Stages, Actors
  <2>2. /\ \A b \in Actors : b # h => job'[b] = job[b]
        /\ job'[h].at # "summary"
    BY <1>5, <2>1, TypeGroups, GoesStep, FindsStep DEF Learns, Stages
  <2> QED
    BY <2>1, <2>2, OneJobPends
<1>6. ASSUME NEW h \in Handlers, PutRow(h) PROVE Pending'
  <2>1. h \in Actors /\ job[h] \in Jobs
    BY <1>6, TypeGroups, JobAt DEF PutRow, Stages, Actors
  <2>2. /\ job'[h].lid = job[h].lid /\ job'[h].time = job[h].time /\ job'[h].form = job[h].form
        /\ \A b \in Actors : b # h => job'[b] = job[b]
    BY <1>6, <2>1, TypeGroups, GoesStep DEF PutRow, Stages
  <2>3. rows' = rows \cup {<<Msg(h), job[h].form>>} /\ last' = last
    BY <1>6 DEF PutRow
  <2> QED
    BY <2>2, <2>3 DEF Pending, Msg, At, Listed, Actors
<1>7. ASSUME NEW h \in Handlers, PutSummary(h) PROVE Pending'
  <2>1. h \in Actors /\ job[h] \in Jobs
    BY <1>7, TypeGroups, JobAt DEF PutSummary, Stages, Actors
  <2>2. \A l \in Lids, f \in Forms : last'[l][f] >= last[l][f]
    BY <1>7, <2>1, TypeGroups, SummaryStep
  <2>3. last' \in [Lids -> [Forms -> 0..MaxTime]] /\ rows' = rows
    BY <1>7, <2>1, TypeGroups, SummaryStep DEF PutSummary
  <2>4. job'[h] = Idle /\ \A b \in Actors : b # h => job'[b] = job[b]
    BY <1>7, <2>1, TypeGroups, JobSet DEF PutSummary
  <2>5. ASSUME NEW g \in Handlers, At(g, "summary")'
        PROVE  /\ job'[g] = job[g]
               /\ \/ <<Msg(g), job[g].form>> \in rows
                  \/ <<Msg(g), "pn">> \in rows /\ last'[job[g].lid]["pn"] > 0
    <3>1. g \in Actors /\ job'[g] = job[g] /\ At(g, "summary")
      BY <2>4, <2>5 DEF At, Idle, Actors
    <3>2. job[g] \in Jobs /\ job[g].lid \in Lids /\ "pn" \in Forms
      BY <3>1, TypeGroups, JobAt DEF Stages, Jobs, Forms
    <3>3. /\ last[job[g].lid]["pn"] \in 0..MaxTime /\ last'[job[g].lid]["pn"] \in 0..MaxTime
          /\ last'[job[g].lid]["pn"] >= last[job[g].lid]["pn"]
      BY <2>2, <2>3, <3>2, TypeGroups DEF TablesOK
    <3> QED
      BY <3>1, <3>3 DEF Pending, Listed
  <2> QED
    BY <2>3, <2>5 DEF Pending, Msg, Listed
<1>8. ASSUME NEW h \in Handlers, NEW m \in Msgs, NEW f \in Forms, NEW c \in BOOLEAN,
             Arrives(h, m, f, c) PROVE Pending'
  <2>1. h \in Actors /\ UNCHANGED tables
    BY <1>8 DEF Arrives, Actors
  <2>2. /\ \A b \in Actors : b # h => job'[b] = job[b]
        /\ job'[h].at # "summary"
    BY <1>8, TypeGroups DEF Arrives, Becomes, JobOK, Actors
  <2> QED
    BY <2>1, <2>2, OneJobPends
<1>9. ASSUME NEW l \in Lids, MissExpires(l) PROVE Pending'
  BY <1>9 DEF MissExpires, tables, Pending, Msg, At, Listed
<1>10. ASSUME NEW l \in Lids, Activates(l) PROVE Pending'
  BY <1>10 DEF Activates, tables, Pending, Msg, At, Listed
<1>11. ASSUME NEW l \in Lids, StoresPair(l) PROVE Pending'
  BY <1>11 DEF StoresPair, tables, Pending, Msg, At, Listed
<1>12. CASE ResyncContacts
  <2>1. CASE Reset
    <3>1. \A g \in Handlers : g \in Actors /\ (At(g, "summary") => job[g] # Idle)
      BY DEF At, Idle, Actors
    <3> QED
      BY <1>12, <2>1, <3>1, TypeGroups, ResetStep
      DEF ResyncContacts, Pending, Msg, At, Listed, tables
  <2>2. CASE UNCHANGED <<cache, job>>
    BY <1>12, <2>2 DEF ResyncContacts, Pending, Msg, At, Listed, tables
  <2> QED
    BY <1>12, <2>1, <2>2 DEF ResyncContacts
<1>13. CASE Targets
  BY <1>13 DEF Targets, tables, Pending, Msg, At, Listed
<1>14. CASE AskedAll
  <2>1. \A g \in Handlers : g \in Actors /\ (At(g, "summary") => job[g] # Idle)
    BY DEF At, Idle, Actors
  <2> QED
    BY <1>14, <2>1, TypeGroups, ResetStep DEF AskedAll, Pending, Msg, At, Listed, tables
<1>15. CASE Lists
  BY <1>15 DEF Lists, tables, Pending, Msg, At, Listed
<1>16. CASE MigrateLID
  <2>1. job["repair"] \in Jobs /\ job["repair"].lid \in Lids
    BY <1>16, TypeGroups, JobAt DEF MigrateLID, Stages, Actors, Jobs
  <2>2. last'[job["repair"].lid]["pn"] > 0
    BY <1>16, MovedIsListed
  <2>3. /\ \A k \in Lids : k # job["repair"].lid => last'[k] = last[k]
        /\ \A m \in Msgs, f \in Forms :
             <<m, f>> \in rows => IF m[1] = job["repair"].lid
                                  THEN <<m, "pn">> \in rows' ELSE <<m, f>> \in rows'
    BY <1>16, <2>1, TypeGroups, MovedStep DEF MigrateLID
  <2>4. job'["repair"] = Idle /\ \A b \in Actors : b # "repair" => job'[b] = job[b]
    BY <1>16, TypeGroups, JobSet DEF MigrateLID, Actors
  <2>5. ASSUME NEW g \in Handlers, At(g, "summary")
        PROVE  \/ <<Msg(g), job[g].form>> \in rows'
               \/ <<Msg(g), "pn">> \in rows' /\ last'[job[g].lid]["pn"] > 0
    <3>1. g \in Actors /\ job[g] \in Jobs /\ job[g].lid \in Lids /\ job[g].form \in Forms
      BY <2>5, TypeGroups, JobAt DEF Stages, Jobs, Actors
    <3>2. /\ Msg(g)[1] = job[g].lid /\ "pn" \in Forms
          /\ \A f \in Forms : <<Msg(g), f>> \in rows => Msg(g) \in Msgs
      BY TypeGroups DEF Msg, TablesOK, Forms
    <3>3. \/ <<Msg(g), job[g].form>> \in rows
          \/ <<Msg(g), "pn">> \in rows /\ last[job[g].lid]["pn"] > 0
      BY <2>5 DEF Pending, Listed
    <3> QED
      BY <2>2, <2>3, <3>1, <3>2, <3>3
  <2> QED
    BY <2>4, <2>5 DEF Pending, Msg, At, Listed, Actors
<1>17. CASE LeavesUnmapped
  <2>1. "repair" \in Actors /\ job["repair"] \in Jobs /\ UNCHANGED tables
    BY <1>17, TypeGroups, JobAt DEF LeavesUnmapped, Stages, Actors
  <2>2. /\ \A b \in Actors : b # "repair" => job'[b] = job[b]
        /\ job'["repair"].at # "summary"
    BY <1>17, <2>1, TypeGroups, JobSet DEF LeavesUnmapped, Idle
  <2> QED
    BY <2>1, <2>2, OneJobPends
<1>18. CASE Migrated
  BY <1>18 DEF Migrated, tables, Pending, Msg, At, Listed
<1>19. CASE Throttled
  BY <1>19 DEF Throttled, tables, Pending, Msg, At, Listed
<1>20. ASSUME NEW b \in Batches, GivesUp(b) PROVE Pending'
  BY <1>20 DEF GivesUp, tables, Pending, Msg, At, Listed
<1>21. ASSUME NEW b \in Batches, NEW known \in SUBSET b, Answered(b, known) PROVE Pending'
  BY <1>21 DEF Answered, tables, Pending, Msg, At, Listed
<1>22. ASSUME NEW l \in Lids, Resolves(l) PROVE Pending'
  <2>1. "repair" \in Actors /\ UNCHANGED tables
    BY <1>22 DEF Resolves, Actors
  <2>2. /\ \A b \in Actors : b # "repair" => job'[b] = job[b]
        /\ job'["repair"].at # "summary"
    BY <1>22, TypeGroups DEF Resolves, Becomes, JobOK, Actors
  <2> QED
    BY <2>1, <2>2, OneJobPends
<1>23. ASSUME NEW p \in {"serve", "resync", "list"}, Restart(p) PROVE Pending'
  BY <1>23 DEF Restart, Pending, At, Idle, Actors
<1>24. CASE UNCHANGED vars
  BY <1>24 DEF vars, tables, Pending, Msg, At, Listed
<1> QED
  BY <1>1, <1>5, <1>6, <1>7, <1>8, <1>9, <1>10, <1>11, <1>12, <1>13, <1>14, <1>15,
     <1>16, <1>17, <1>18, <1>19, <1>20, <1>21, <1>22, <1>23, <1>24
  DEF Next, HandlerStep, RepairStep

\* Messages whose handler has returned.
LEMMA NothingLostStep == TypeOK /\ RepairInv /\ Pending /\ NothingLost /\ [Next]_vars => NothingLost'
<1> SUFFICES ASSUME TypeOK, RepairInv, Pending, NothingLost, [Next]_vars PROVE NothingLost'
  OBVIOUS
<1> USE DEF sources, cache, repair, bounds
<1>1. ASSUME NEW a \in Actors, Look(a) PROVE NothingLost'
  BY <1>1 DEF Look, Finds, Goes, tables, NothingLost, Listed
<1>2. ASSUME NEW a \in Actors, Query(a) PROVE NothingLost'
  BY <1>2 DEF Query, tables, NothingLost, Listed
<1>3. ASSUME NEW a \in Actors, Fill(a) PROVE NothingLost'
  BY <1>3 DEF Fill, Finds, Goes, Cached, tables, NothingLost, Listed
<1>4. ASSUME NEW a \in Actors, AskOthers(a) PROVE NothingLost'
  BY <1>4 DEF AskOthers, Finds, tables, NothingLost, Listed
<1>5. ASSUME NEW h \in Handlers, Learns(h) PROVE NothingLost'
  BY <1>5 DEF Learns, LearnsNumber, FindsPair, Cached, Goes, tables, NothingLost, Listed
<1>6. ASSUME NEW h \in Handlers, PutRow(h) PROVE NothingLost'
  BY <1>6 DEF PutRow, Goes, tables, NothingLost, Listed
<1>7. ASSUME NEW h \in Handlers, PutSummary(h) PROVE NothingLost'
  <2>1. h \in Actors /\ job[h] \in Jobs /\ job[h].time > 0
    BY <1>7, TypeGroups, JobAt, NotIdle DEF PutSummary, Stages, Actors, RepairInv, HandlerJobs
  <2>2. job[h].lid \in Lids /\ job[h].form \in Forms /\ "pn" \in Forms /\ Msg(h)[1] = job[h].lid
    BY <2>1, MsgOK DEF Msg, Forms
  <2>3. /\ last' \in [Lids -> [Forms -> 0..MaxTime]]
        /\ \A l \in Lids, f \in Forms : last'[l][f] >= last[l][f]
        /\ last'[job[h].lid][job[h].form] >= job[h].time
    BY <1>7, <2>1, TypeGroups, SummaryStep
  <2>4. rows' = rows /\ handled' = handled \cup {Msg(h)} /\ At(h, "summary")
    BY <1>7 DEF PutSummary
  <2>5. ASSUME NEW l \in Lids, NEW f \in Forms, last[l][f] > 0 PROVE last'[l][f] > 0
    <3>1. last[l][f] \in 0..MaxTime /\ last'[l][f] \in 0..MaxTime
      BY <2>3, TypeGroups DEF TablesOK
    <3> QED
      BY <2>3, <2>5, <3>1
  <2>6. last'[job[h].lid][job[h].form] > 0
    <3>1. last'[job[h].lid][job[h].form] \in 0..MaxTime
      BY <2>2, <2>3
    <3>2. job[h].time \in 0..MaxTime
      BY <2>1 DEF Jobs
    <3> QED
      BY <2>1, <2>3, <3>1, <3>2
  <2>7. \E f \in Forms : <<Msg(h), f>> \in rows /\ last'[job[h].lid][f] > 0
    BY <2>2, <2>4, <2>5, <2>6 DEF Pending, Listed
  <2>8. ASSUME NEW m \in handled
        PROVE  \E f \in Forms : <<m, f>> \in rows /\ last'[m[1]][f] > 0
    <3>1. m[1] \in Lids
      BY TypeGroups DEF TablesOK, Msgs
    <3> QED
      BY <2>5, <3>1 DEF NothingLost, Listed
  <2> QED
    BY <2>2, <2>4, <2>7, <2>8 DEF NothingLost, Listed
<1>8. ASSUME NEW h \in Handlers, NEW m \in Msgs, NEW f \in Forms, NEW c \in BOOLEAN,
             Arrives(h, m, f, c) PROVE NothingLost'
  BY <1>8 DEF Arrives, tables, NothingLost, Listed
<1>9. ASSUME NEW l \in Lids, MissExpires(l) PROVE NothingLost'
  BY <1>9 DEF MissExpires, tables, NothingLost, Listed
<1>10. ASSUME NEW l \in Lids, Activates(l) PROVE NothingLost'
  BY <1>10 DEF Activates, tables, NothingLost, Listed
<1>11. ASSUME NEW l \in Lids, StoresPair(l) PROVE NothingLost'
  BY <1>11 DEF StoresPair, tables, NothingLost, Listed
<1>12. CASE ResyncContacts
  BY <1>12 DEF ResyncContacts, Reset, tables, NothingLost, Listed
<1>13. CASE Targets
  BY <1>13 DEF Targets, tables, NothingLost, Listed
<1>14. CASE AskedAll
  BY <1>14 DEF AskedAll, Reset, tables, NothingLost, Listed
<1>15. CASE Lists
  BY <1>15 DEF Lists, tables, NothingLost, Listed
<1>16. CASE MigrateLID
  <2> DEFINE k == job["repair"].lid
  <2>1. job["repair"] \in Jobs /\ k \in Lids /\ "pn" \in Forms
    BY <1>16, TypeGroups, JobAt DEF MigrateLID, Stages, Actors, Jobs, Forms
  <2>2. last'[k]["pn"] > 0
    BY <1>16, MovedIsListed DEF RepairInv
  <2>3. /\ \A l \in Lids : l # k => last'[l] = last[l]
        /\ \A m \in Msgs, f \in Forms :
             <<m, f>> \in rows => IF m[1] = k THEN <<m, "pn">> \in rows' ELSE <<m, f>> \in rows'
    BY <1>16, <2>1, TypeGroups, MovedStep DEF MigrateLID
  <2>4. handled' = handled
    BY <1>16 DEF MigrateLID
  <2> HIDE DEF k
  <2>5. ASSUME NEW m \in handled
        PROVE  \E f \in Forms : <<m, f>> \in rows' /\ last'[m[1]][f] > 0
    <3>1. m \in Msgs /\ m[1] \in Lids
      BY TypeGroups DEF TablesOK, Msgs
    <3>2. PICK f \in Forms : <<m, f>> \in rows /\ last[m[1]][f] > 0
      BY DEF NothingLost, Listed
    <3>3. CASE m[1] = k
      BY <2>1, <2>2, <2>3, <3>1, <3>2, <3>3
    <3>4. CASE m[1] # k
      BY <2>3, <3>1, <3>2, <3>4
    <3> QED
      BY <3>3, <3>4
  <2> QED
    BY <2>4, <2>5 DEF NothingLost, Listed
<1>17. CASE LeavesUnmapped
  BY <1>17 DEF LeavesUnmapped, tables, NothingLost, Listed
<1>18. CASE Migrated
  BY <1>18 DEF Migrated, tables, NothingLost, Listed
<1>19. CASE Throttled
  BY <1>19 DEF Throttled, tables, NothingLost, Listed
<1>20. ASSUME NEW b \in Batches, GivesUp(b) PROVE NothingLost'
  BY <1>20 DEF GivesUp, tables, NothingLost, Listed
<1>21. ASSUME NEW b \in Batches, NEW known \in SUBSET b, Answered(b, known) PROVE NothingLost'
  BY <1>21 DEF Answered, tables, NothingLost, Listed
<1>22. ASSUME NEW l \in Lids, Resolves(l) PROVE NothingLost'
  BY <1>22 DEF Resolves, tables, NothingLost, Listed
<1>23. ASSUME NEW p \in {"serve", "resync", "list"}, Restart(p) PROVE NothingLost'
  BY <1>23 DEF Restart, tables, NothingLost, Listed
<1>24. CASE UNCHANGED vars
  BY <1>24 DEF vars, tables, NothingLost, Listed
<1> QED
  BY <1>1, <1>2, <1>3, <1>4, <1>5, <1>6, <1>7, <1>8, <1>9, <1>10, <1>11, <1>12,
     <1>13, <1>14, <1>15, <1>16, <1>17, <1>18, <1>19, <1>20, <1>21, <1>22, <1>23, <1>24
  DEF Next, LookupStep, HandlerStep, RepairStep

-----------------------------------------------------------------------------
(* The theorems.                                                           *)

\* Every step keeps the invariant.
LEMMA StepIInv == IInv /\ [Next]_vars => IInv'
<1> SUFFICES ASSUME IInv, [Next]_vars PROVE IInv'
  OBVIOUS
<1>1. /\ TypeOK /\ MissExplained /\ FillExplained /\ FillAnswered
      /\ HandlerJobs /\ TodoListed /\ RepairJob /\ Pending /\ NothingLost
  BY DEF IInv, MissInv, RepairInv
<1>2. TypeOK'
  BY <1>1, TypeStep
<1>3. MissInv'
  BY <1>1, MissExplainedStep, FillStep DEF MissInv
<1>4. RepairInv'
  BY <1>1, HandlerJobsStep, TodoListedStep, RepairJobStep DEF RepairInv
<1>5. Pending' /\ NothingLost'
  BY <1>1, PendingStep, NothingLostStep DEF RepairInv
<1> QED
  BY <1>2, <1>3, <1>4, <1>5 DEF IInv

\* A stored number is hidden by a miss only when a query has failed.
LEMMA ExplainedIsHarmless == TypeOK /\ MissInv => MissIsHarmless
<1> SUFFICES ASSUME TypeOK, MissInv, NEW l \in pairs, Canon(l) = "lid"
             PROVE  miss[l] = "failed"
  BY DEF MissIsHarmless
<1>1. miss[l] \in Misses
  BY TypeGroups DEF SetsOK, MissOK
<1>2. miss[l] # "none" /\ l \notin active
  BY DEF Canon, Others
<1> QED
  BY <1>1, <1>2 DEF MissInv, MissExplained, Misses

\* The invariant holds in every behaviour.
THEOREM Invariance == Spec => []IInv
<1>1. Init => IInv
  BY InitIInv
<1>2. IInv /\ [Next]_vars => IInv'
  BY StepIInv
<1> QED
  BY <1>1, <1>2, PTL DEF Spec

\* The state is well formed, whatever the lookups, the handlers and the repair do.
THEOREM TypeCorrect == Spec => []TypeOK
<1>1. IInv => TypeOK
  BY DEF IInv
<1> QED
  BY <1>1, Invariance, PTL

\* A number the table has is found by every lookup that starts, unless a query
\* for it has failed: the cache of misses is harmless (lookup, reset).
THEOREM MissesAreHarmless == Spec => []MissIsHarmless
<1>1. IInv => MissIsHarmless
  BY ExplainedIsHarmless DEF IInv
<1> QED
  BY <1>1, Invariance, PTL

\* A message whose handler has returned has a row under a chat that is listed,
\* also when a repair moves the chat meanwhile (putMessage, MigrateLIDs).
THEOREM NoMessageIsLost == Spec => []NothingLost
<1>1. IInv => NothingLost
  BY DEF IInv
<1> QED
  BY <1>1, Invariance, PTL
=============================================================================
