----------------------------- MODULE LinkProofs -----------------------------
(***************************************************************************)
(* Theorems about the two ends of the link between daemon and phone.       *)
(*                                                                         *)
(* Wire, the phone's end: for any number of sockets and frames, any bound  *)
(* on the outbox and any number of failures and kills.  The sockets are    *)
(* argued about apart from the frames.  For the frames the sequences are   *)
(* used through Range and Sorted only: the lemmas of the first part say    *)
(* what each operation on a sequence does to the two, and the steps of the *)
(* invariant are then about sets.                                          *)
(*                                                                         *)
(* Hub, the daemon's end: for every set of connections and pushing         *)
(* goroutines, every queue capacity and any number of pushes.              *)
(***************************************************************************)
EXTENDS Hub, Wire, SequenceTheorems, WellFoundedInduction, TLAPS

-----------------------------------------------------------------------------
(* Sequences                                                               *)

\* Frame e may follow frame d: it is another one, and newer unless d is a
\* mark-read.
Follows(d, e) == d # e /\ (d \notin Marks => d < e)

\* Requests for state aside, every frame of a sequence may follow those ahead.
Sorted(q) ==
  \A i, j \in 1..Len(q) : i < j /\ q[i] # Ask /\ q[j] # Ask => Follows(q[i], q[j])

\* What Range stands for, without the DOMAIN of a sequence.
LEMMA RangeIs ==
  ASSUME NEW S, NEW q \in Seq(S)
  PROVE  Range(q) = {q[i] : i \in 1..Len(q)} /\ Range(q) \subseteq S
<1>1. Range(q) = {q[i] : i \in 1..Len(q)}
  BY LenProperties DEF Range
<1> QED
  BY <1>1, ElementOfSeq

LEMMA EmptyIs == Range(<<>>) = {} /\ Sorted(<<>>)
<1>1. <<>> \in Seq(Nat) /\ Len(<<>>) = 0
  BY EmptySeq
<1>2. Range(<<>>) = {<<>>[i] : i \in 1..Len(<<>>)}
  BY <1>1, RangeIs
<1>3. 1..Len(<<>>) = {}
  BY <1>1
<1> QED
  BY <1>2, <1>3 DEF Sorted

LEMMA OneIs ==
  ASSUME NEW e \in Nat
  PROVE  <<e>> \in Seq(Nat) /\ Range(<<e>>) = {e} /\ Sorted(<<e>>)
<1>1. <<e>> \in Seq(Nat) /\ Len(<<e>>) = 1 /\ <<e>>[1] = e
  OBVIOUS
<1>2. Range(<<e>>) = {<<e>>[i] : i \in 1..1}
  BY <1>1, RangeIs
<1> QED
  BY <1>1, <1>2 DEF Sorted

\* Append.
LEMMA AppendIs ==
  ASSUME NEW q \in Seq(Nat), NEW e \in Nat
  PROVE  /\ Append(q, e) \in Seq(Nat)
         /\ Range(Append(q, e)) = Range(q) \cup {e}
         /\ Sorted(q) /\ (e = Ask \/ \A x \in Range(q) : x < e) => Sorted(Append(q, e))
<1> DEFINE r == Append(q, e)
<1>1. /\ r \in Seq(Nat) /\ Len(r) = Len(q) + 1
      /\ \A i \in 1..Len(q) : r[i] = q[i]
      /\ r[Len(q) + 1] = e
  BY AppendProperties
<1>2. Len(q) \in Nat
  BY LenProperties
<1>3. Range(q) = {q[i] : i \in 1..Len(q)}
  BY RangeIs
<1>4. Range(r) = {r[i] : i \in 1..Len(r)}
  BY <1>1, RangeIs
<1> HIDE DEF r
<1>5. Range(r) = Range(q) \cup {e}
  <2>1. 1..Len(r) = (1..Len(q)) \cup {Len(q) + 1}
    BY <1>1, <1>2
  <2>2. \A i \in 1..Len(r) : r[i] \in Range(q) \cup {e}
    BY <1>1, <1>3, <2>1
  <2>3. (\A i \in 1..Len(q) : q[i] \in Range(r)) /\ e \in Range(r)
    BY <1>1, <1>4, <2>1
  <2> QED
    BY <1>3, <1>4, <2>2, <2>3
<1>6. Sorted(q) /\ (e = Ask \/ \A x \in Range(q) : x < e) => Sorted(r)
  <2> SUFFICES ASSUME Sorted(q), e = Ask \/ \A x \in Range(q) : x < e,
                      NEW i \in 1..Len(r), NEW j \in 1..Len(r),
                      i < j, r[i] # Ask, r[j] # Ask
               PROVE  Follows(r[i], r[j])
    BY DEF Sorted
  <2>1. i \in 1..Len(q)
    BY <1>1, <1>2
  <2>2. CASE j \in 1..Len(q)
    BY <1>1, <2>1, <2>2 DEF Sorted
  <2>3. CASE j = Len(q) + 1
    <3>1. r[i] \in Range(q) /\ r[i] \in Nat /\ r[j] = e
      BY <1>1, <1>3, <2>1, <2>3
    <3> QED
      BY <3>1 DEF Follows
  <2>4. j \in 1..Len(q) + 1
    BY <1>1
  <2> QED
    BY <1>2, <2>2, <2>3, <2>4
<1> QED
  BY <1>1, <1>5, <1>6 DEF r

\* Concatenation, of what is older with what is newer.
LEMMA ConcatIs ==
  ASSUME NEW p \in Seq(Nat), NEW q \in Seq(Nat)
  PROVE  /\ p \o q \in Seq(Nat)
         /\ Range(p \o q) = Range(p) \cup Range(q)
         /\ /\ Sorted(p) /\ Sorted(q) /\ Range(p) \subseteq Marks \cup {Ask}
            /\ Range(p) \cap Range(q) \subseteq {Ask}
            => Sorted(p \o q)
<1> DEFINE r == p \o q
<1>1. /\ r \in Seq(Nat) /\ Len(r) = Len(p) + Len(q)
      /\ \A i \in 1..Len(p) + Len(q) : r[i] = IF i <= Len(p) THEN p[i] ELSE q[i - Len(p)]
  BY ConcatProperties
<1>2. Len(p) \in Nat /\ Len(q) \in Nat
  BY LenProperties
<1>3. Range(p) = {p[i] : i \in 1..Len(p)} /\ Range(q) = {q[i] : i \in 1..Len(q)}
  BY RangeIs
<1>4. Range(r) = {r[i] : i \in 1..Len(r)}
  BY <1>1, RangeIs
<1> HIDE DEF r
<1>5. Range(r) = Range(p) \cup Range(q)
  <2>1. ASSUME NEW i \in 1..Len(r) PROVE r[i] \in Range(p) \cup Range(q)
    <3>1. CASE i <= Len(p)
      BY <1>1, <1>2, <1>3, <3>1
    <3>2. CASE ~ (i <= Len(p))
      <4>1. i - Len(p) \in 1..Len(q)
        BY <1>1, <1>2, <3>2
      <4> QED
        BY <1>1, <1>3, <3>2, <4>1
    <3> QED
      BY <3>1, <3>2
  <2>2. ASSUME NEW i \in 1..Len(p) PROVE p[i] \in Range(r)
    <3>1. i \in 1..(Len(p) + Len(q)) /\ i <= Len(p)
      BY <1>2
    <3>2. i \in 1..Len(r) /\ r[i] = p[i]
      BY <1>1, <3>1
    <3> QED
      BY <1>4, <3>2
  <2>3. ASSUME NEW i \in 1..Len(q) PROVE q[i] \in Range(r)
    <3>1. i + Len(p) \in 1..Len(r) /\ (i + Len(p)) - Len(p) = i /\ ~ (i + Len(p) <= Len(p))
      BY <1>1, <1>2
    <3>2. r[i + Len(p)] = q[i]
      BY <1>1, <3>1
    <3> QED
      BY <1>4, <3>1, <3>2
  <2> QED
    BY <1>3, <1>4, <2>1, <2>2, <2>3
<1>6. ASSUME Sorted(p), Sorted(q), Range(p) \subseteq Marks \cup {Ask},
             Range(p) \cap Range(q) \subseteq {Ask}
      PROVE  Sorted(r)
  <2> SUFFICES ASSUME NEW i \in 1..Len(r), NEW j \in 1..Len(r),
                      i < j, r[i] # Ask, r[j] # Ask
               PROVE  Follows(r[i], r[j])
    BY DEF Sorted
  <2>1. CASE j <= Len(p)
    <3>1. i \in 1..Len(p) /\ j \in 1..Len(p) /\ r[i] = p[i] /\ r[j] = p[j]
      BY <1>1, <1>2, <2>1
    <3> QED
      BY <1>6, <3>1 DEF Sorted
  <2>2. CASE ~ (j <= Len(p)) /\ i <= Len(p)
    <3>1. i \in 1..Len(p) /\ r[i] = p[i] /\ j - Len(p) \in 1..Len(q) /\ r[j] = q[j - Len(p)]
      BY <1>1, <1>2, <2>2
    <3>2. r[i] \in Range(p) /\ r[j] \in Range(q)
      BY <1>3, <3>1
    <3> QED
      BY <1>6, <3>2 DEF Follows
  <2>3. CASE ~ (i <= Len(p))
    <3>1. /\ i - Len(p) \in 1..Len(q) /\ j - Len(p) \in 1..Len(q) /\ i - Len(p) < j - Len(p)
          /\ r[i] = q[i - Len(p)] /\ r[j] = q[j - Len(p)]
      <4>1. ~ (j <= Len(p)) /\ i \in 1..Len(p) + Len(q) /\ j \in 1..Len(p) + Len(q)
        BY <1>1, <1>2, <2>3
      <4>2. r[i] = q[i - Len(p)] /\ r[j] = q[j - Len(p)]
        BY <1>1, <2>3, <4>1
      <4>3. i - Len(p) \in 1..Len(q) /\ j - Len(p) \in 1..Len(q) /\ i - Len(p) < j - Len(p)
        BY <1>2, <2>3, <4>1
      <4> QED
        BY <4>2, <4>3
    <3> QED
      BY <1>6, <3>1 DEF Sorted
  <2> QED
    BY <2>1, <2>2, <2>3
<1> QED
  BY <1>1, <1>5, <1>6 DEF r

\* The rest of a sequence, once its first element is taken.
LEMMA TailIs ==
  ASSUME NEW q \in Seq(Nat), q # <<>>
  PROVE  /\ Head(q) \in Range(q) /\ Tail(q) \in Seq(Nat) /\ Len(Tail(q)) = Len(q) - 1
         /\ Range(q) = Range(Tail(q)) \cup {Head(q)}
         /\ Sorted(q) => Sorted(Tail(q)) /\ (Head(q) # Ask => Head(q) \notin Range(Tail(q)))
<1> DEFINE r == Tail(q)
<1>1. /\ Head(q) = q[1] /\ r \in Seq(Nat) /\ Len(r) = Len(q) - 1
      /\ \A i \in 1..Len(r) : r[i] = q[i + 1]
  <2>1. Head(q) = q[1]
    OBVIOUS
  <2> QED
    BY <2>1, HeadTailProperties
<1>2. Len(q) \in Nat \ {0} /\ Len(r) \in Nat
  BY <1>1, EmptySeq, LenProperties
<1>3. Range(q) = {q[i] : i \in 1..Len(q)} /\ Range(q) \subseteq Nat
  BY RangeIs
<1>4. Range(r) = {r[i] : i \in 1..Len(r)}
  BY <1>1, RangeIs
<1> HIDE DEF r
<1>5. Range(q) = Range(r) \cup {q[1]}
  <2>1. ASSUME NEW i \in 1..Len(r) PROVE r[i] \in Range(q)
    BY <1>1, <1>2, <1>3
  <2>2. ASSUME NEW i \in 1..Len(q), i # 1 PROVE q[i] \in Range(r)
    <3>1. i - 1 \in 1..Len(r) /\ (i - 1) + 1 = i
      BY <1>1, <1>2, <2>2
    <3>2. r[i - 1] = q[i]
      BY <1>1, <3>1
    <3> QED
      BY <1>4, <3>1, <3>2
  <2>3. q[1] \in Range(q)
    BY <1>2, <1>3
  <2>4. \A i \in 1..Len(q) : q[i] \in Range(r) \cup {q[1]}
    BY <2>2
  <2> QED
    BY <1>3, <1>4, <2>1, <2>3, <2>4
<1>6. ASSUME Sorted(q), NEW i \in 1..Len(r), NEW j \in 1..Len(r), i < j,
             r[i] # Ask, r[j] # Ask
      PROVE  Follows(r[i], r[j])
  <2>1. i + 1 \in 1..Len(q) /\ j + 1 \in 1..Len(q) /\ i + 1 < j + 1
    BY <1>1, <1>2, <1>6
  <2>2. r[i] = q[i + 1] /\ r[j] = q[j + 1]
    BY <1>1
  <2> QED
    BY <1>6, <2>1, <2>2 DEF Sorted
<1>7. ASSUME Sorted(q), q[1] # Ask PROVE q[1] \notin Range(r)
  <2> SUFFICES ASSUME NEW i \in 1..Len(r), r[i] = q[1] PROVE FALSE
    BY <1>4
  <2>1. i + 1 \in 1..Len(q) /\ 1 < i + 1 /\ q[i + 1] = q[1] /\ 1 \in 1..Len(q)
    BY <1>1, <1>2
  <2>2. Follows(q[1], q[i + 1])
    BY <1>3, <1>7, <2>1 DEF Sorted
  <2> QED
    BY <2>1, <2>2 DEF Follows
<1>8. Sorted(q) => Sorted(r)
  BY <1>6 DEF Sorted
<1> QED
  BY <1>1, <1>2, <1>3, <1>5, <1>7, <1>8 DEF r

\* A sequence cut in two.
LEMMA CutIs ==
  ASSUME NEW q \in Seq(Nat), NEW k \in 0..Len(q)
  PROVE  /\ SubSeq(q, 1, k) \in Seq(Nat)
         /\ Range(q) = Range(SubSeq(q, 1, k)) \cup Range(SubSeq(q, k + 1, Len(q)))
         /\ Sorted(q) => Sorted(SubSeq(q, 1, k))
<1> DEFINE a == SubSeq(q, 1, k)
           b == SubSeq(q, k + 1, Len(q))
<1>1. Len(q) \in Nat /\ k \in Int
  BY LenProperties
<1>2. \A i \in 1..Len(q) : q[i] \in Nat
  BY ElementOfSeq
<1>3. /\ a \in Seq(Nat) /\ Len(a) = IF 1 <= k THEN k - 1 + 1 ELSE 0
      /\ \A i \in 1..k - 1 + 1 : a[i] = q[1 + i - 1]
  <2>1. \A i \in 1..k : q[i] \in Nat
    BY <1>1, <1>2
  <2> QED
    BY <1>1, <2>1, SubSeqProperties
<1>4. /\ b \in Seq(Nat) /\ Len(b) = IF k + 1 <= Len(q) THEN Len(q) - (k + 1) + 1 ELSE 0
      /\ \A i \in 1..Len(q) - (k + 1) + 1 : b[i] = q[k + 1 + i - 1]
  <2>1. (\A i \in k + 1..Len(q) : q[i] \in Nat) /\ k + 1 \in Int /\ Len(q) \in Int
    BY <1>1, <1>2
  <2> QED
    BY <2>1, SubSeqProperties
<1>5. Range(a) = {a[i] : i \in 1..Len(a)} /\ Range(b) = {b[i] : i \in 1..Len(b)}
  <2> HIDE DEF a, b
  <2>1. Range(a) = {a[i] : i \in 1..Len(a)}
    BY <1>3, RangeIs
  <2>2. Range(b) = {b[i] : i \in 1..Len(b)}
    BY <1>4, RangeIs
  <2> QED
    BY <2>1, <2>2
<1>6. Range(q) = {q[i] : i \in 1..Len(q)}
  BY RangeIs
<1> HIDE DEF a, b
<1>7. Len(a) = k /\ \A i \in 1..k : a[i] = q[i]
  <2>1. Len(a) = k
    BY <1>1, <1>3
  <2>2. ASSUME NEW i \in 1..k PROVE a[i] = q[i]
    <3>1. i \in 1..k - 1 + 1 /\ 1 + i - 1 = i
      BY <1>1
    <3> QED
      BY <1>3, <3>1
  <2> QED
    BY <2>1, <2>2
<1>8. Len(b) = Len(q) - k /\ \A i \in 1..Len(q) - k : b[i] = q[k + i]
  <2>1. Len(b) = Len(q) - k
    BY <1>1, <1>4
  <2>2. ASSUME NEW i \in 1..Len(q) - k PROVE b[i] = q[k + i]
    <3>1. i \in 1..Len(q) - (k + 1) + 1 /\ k + 1 + i - 1 = k + i
      BY <1>1
    <3> QED
      BY <1>4, <3>1
  <2> QED
    BY <2>1, <2>2
<1>9. Range(q) = Range(a) \cup Range(b)
  <2>1. ASSUME NEW i \in 1..Len(q) PROVE q[i] \in Range(a) \cup Range(b)
    <3>1. CASE i <= k
      BY <1>1, <1>5, <1>7, <3>1
    <3>2. CASE ~ (i <= k)
      <4>1. i - k \in 1..Len(q) - k /\ k + (i - k) = i
        BY <1>1, <3>2
      <4>2. b[i - k] = q[i]
        BY <1>8, <4>1
      <4> QED
        BY <1>5, <1>8, <4>1, <4>2
    <3> QED
      BY <3>1, <3>2
  <2>2. ASSUME NEW i \in 1..Len(a) PROVE a[i] \in Range(q)
    BY <1>1, <1>6, <1>7
  <2>3. ASSUME NEW i \in 1..Len(b) PROVE b[i] \in Range(q)
    <3>1. i \in 1..Len(q) - k /\ k + i \in 1..Len(q)
      BY <1>1, <1>8
    <3> QED
      BY <1>6, <1>8, <3>1
  <2> QED
    BY <1>5, <1>6, <2>1, <2>2, <2>3
<1>10. Sorted(q) => Sorted(a)
  BY <1>1, <1>7 DEF Sorted
<1> QED
  BY <1>3, <1>9, <1>10 DEF a, b

\* loadOutbox keeps the order and adds nothing.  The function that Fitting is
\* defined by exists, and what is said of it holds at every length: either would
\* otherwise fail at a least length first.
Shrinks(q, r, n) ==
  /\ r \in Seq(Nat) /\ Len(r) <= n
  /\ \A i \in 1..Len(r) : \E j \in 1..n : r[i] = q[j]
  /\ Sorted(q) => Sorted(r)

Keeps(q, f, n) ==
  IF n = 0 THEN <<>> ELSE IF q[n] \in Big THEN f[n - 1] ELSE Append(f[n - 1], q[n])

Built(q, f, n) == f = [m \in 0..n |-> Keeps(q, f, m)]

LEMMA LeastOne ==
  ASSUME NEW T, T \subseteq Nat, T # {}
  PROVE  \E n \in T : \A m \in T : ~ (m < n)
<1> DEFINE R == OpToRel(<, Nat)
<1>1. IsWellFoundedOn(R, Nat)
  BY NatLessThanWellFounded
<1>2. PICK n \in T : \A m \in T : ~ (<<m, n>> \in R)
  <2> HIDE DEF R
  <2> QED
    BY <1>1, WFMin
<1> QED
  BY <1>2 DEF OpToRel

LEMMA BuiltExists ==
  ASSUME NEW q, NEW k \in Nat
  PROVE  \E f : Built(q, f, k)
<1> DEFINE T == {n \in Nat : ~ \E f : Built(q, f, n)}
<1>1. SUFFICES ASSUME T # {} PROVE FALSE
  OBVIOUS
<1>2. PICK n \in T : \A m \in T : ~ (m < n)
  <2> HIDE DEF T
  <2>1. T \subseteq Nat
    BY DEF T
  <2> QED
    BY <1>1, <2>1, LeastOne
<1>3. n \in Nat /\ ~ \E f : Built(q, f, n)
  OBVIOUS
<1>4. CASE n = 0
  <2> DEFINE f == [m \in 0..0 |-> <<>>]
  <2>1. \A m \in 0..0 : m = 0 /\ Keeps(q, f, m) = <<>>
    BY DEF Keeps
  <2>2. f = [m \in 0..0 |-> Keeps(q, f, m)]
    BY <2>1
  <2> QED
    BY <1>3, <1>4, <2>2 DEF Built
<1>5. CASE n # 0
  <2>1. n - 1 \in Nat /\ n - 1 < n
    BY <1>3, <1>5
  <2>2. PICK f : Built(q, f, n - 1)
    BY <1>2, <2>1
  <2> DEFINE g == [m \in 0..n |-> IF m = n THEN Keeps(q, f, n) ELSE f[m]]
  <2>3. \A m \in 0..n - 1 : g[m] = f[m]
    BY <1>3, <2>1
  <2>4. ASSUME NEW m \in 0..n PROVE g[m] = Keeps(q, g, m)
    <3>1. Keeps(q, g, m) = Keeps(q, f, m)
      <4>1. CASE m = 0
        BY <4>1 DEF Keeps
      <4>2. CASE m # 0
        <5>1. m - 1 \in 0..n - 1
          BY <1>3, <4>2
        <5> HIDE DEF g
        <5>2. g[m - 1] = f[m - 1]
          BY <2>3, <5>1
        <5> QED
          BY <5>2 DEF Keeps
      <4> QED
        BY <4>1, <4>2
    <3>2. CASE m = n
      BY <3>1, <3>2
    <3>3. CASE m # n
      <4>1. m \in 0..n - 1
        BY <1>3, <3>3
      <4>2. f[m] = Keeps(q, f, m)
        <5> HIDE DEF g
        <5> QED
          BY <2>2, <4>1 DEF Built
      <4> QED
        BY <2>3, <3>1, <4>1, <4>2
    <3> QED
      BY <3>2, <3>3
  <2>5. g = [m \in 0..n |-> Keeps(q, g, m)]
    <3> DEFINE h == [m \in 0..n |-> Keeps(q, g, m)]
    <3>1. DOMAIN g = 0..n /\ \A m \in 0..n : g[m] = h[m]
      BY <2>4
    <3> QED
      BY <2>4
  <2> HIDE DEF g
  <2> QED
    BY <1>3, <2>5 DEF Built
<1> QED
  BY <1>4, <1>5

LEMMA BuiltShrinks ==
  ASSUME NEW q \in Seq(Nat), NEW f, Built(q, f, Len(q)), NEW k \in 0..Len(q)
  PROVE  Shrinks(q, f[k], k)
<1> DEFINE T == {n \in 0..Len(q) : ~ Shrinks(q, f[n], n)}
<1>1. SUFFICES ASSUME T # {} PROVE FALSE
  OBVIOUS
<1>2. PICK n \in T : \A m \in T : ~ (m < n)
  <2> HIDE DEF T
  <2>1. T \subseteq Nat
    BY LenProperties DEF T
  <2> QED
    BY <1>1, <2>1, LeastOne
<1>3. n \in 0..Len(q) /\ ~ Shrinks(q, f[n], n) /\ Len(q) \in Nat
  BY LenProperties
<1>4. f[n] = Keeps(q, f, n)
  BY <1>3 DEF Built
<1>5. CASE n = 0
  <2>1. f[n] = <<>> /\ <<>> \in Seq(Nat) /\ Len(<<>>) = 0
    BY <1>4, <1>5, EmptySeq DEF Keeps
  <2> QED
    BY <1>3, <1>5, <2>1, EmptyIs DEF Shrinks
<1>6. CASE n # 0
  <2>1. n - 1 \in 0..Len(q) /\ n - 1 < n /\ n \in 1..Len(q)
    BY <1>3, <1>6
  <2> DEFINE p == f[n - 1]
  <2>2. Shrinks(q, p, n - 1)
    BY <1>2, <2>1
  <2>3. q[n] \in Nat
    BY <2>1, ElementOfSeq
  <2>4. f[n] = p \/ f[n] = Append(p, q[n])
    BY <1>4, <1>6 DEF Keeps
  <2> HIDE DEF p
  <2>5. p \in Seq(Nat) /\ Len(p) \in Nat /\ Len(p) <= n - 1
    BY <2>2, LenProperties DEF Shrinks
  <2>6. CASE f[n] = p
    <3>1. \A j \in 1..n - 1 : j \in 1..n
      BY <1>3
    <3>2. Len(p) <= n
      BY <1>3, <2>5
    <3>3. Shrinks(q, p, n)
      BY <2>2, <3>1, <3>2 DEF Shrinks
    <3> QED
      BY <1>3, <2>6, <3>3
  <2>7. CASE f[n] = Append(p, q[n])
    <3> DEFINE r == Append(p, q[n])
    <3>1. /\ r \in Seq(Nat) /\ Len(r) = Len(p) + 1
          /\ \A i \in 1..Len(p) : r[i] = p[i]
          /\ r[Len(p) + 1] = q[n]
      BY <2>3, <2>5, AppendProperties
    <3> HIDE DEF r
    <3>2. Len(r) <= n
      BY <1>3, <2>5, <3>1
    <3>3. ASSUME NEW i \in 1..Len(r) PROVE \E j \in 1..n : r[i] = q[j]
      <4>1. CASE i \in 1..Len(p)
        <5>1. PICK j \in 1..n - 1 : p[i] = q[j]
          BY <2>2, <4>1 DEF Shrinks
        <5>2. j \in 1..n /\ r[i] = q[j]
          BY <1>3, <3>1, <4>1, <5>1
        <5> QED
          BY <5>2
      <4>2. CASE i \notin 1..Len(p)
        <5>1. i = Len(p) + 1
          BY <2>5, <3>1, <4>2
        <5>2. n \in 1..n /\ r[i] = q[n]
          BY <1>3, <1>6, <3>1, <5>1
        <5> QED
          BY <5>2
      <4> QED
        BY <4>1, <4>2
    <3>4. ASSUME Sorted(q) PROVE Sorted(r)
      <4>1. Sorted(p)
        BY <2>2, <3>4 DEF Shrinks
      <4>2. CASE q[n] = Ask
        BY <2>3, <2>5, <4>1, <4>2, AppendIs DEF r
      <4>3. CASE q[n] # Ask
        <5> SUFFICES ASSUME NEW i \in 1..Len(r), NEW j \in 1..Len(r), i < j,
                            r[i] # Ask, r[j] # Ask
                     PROVE  Follows(r[i], r[j])
          BY DEF Sorted
        <5>0. i \in 1..Len(p) + 1 /\ j \in 1..Len(p) + 1
          BY <3>1
        <5>1. i \in 1..Len(p) /\ r[i] = p[i]
          <6>1. i \in 1..Len(p)
            BY <2>5, <5>0
          <6> QED
            BY <3>1, <6>1
        <5>2. CASE j \in 1..Len(p)
          BY <3>1, <4>1, <5>1, <5>2 DEF Sorted
        <5>3. CASE j = Len(p) + 1
          <6>1. PICK l \in 1..n - 1 : p[i] = q[l]
            BY <2>2, <5>1 DEF Shrinks
          <6>2. l \in 1..Len(q) /\ l < n
            BY <1>3
          <6> QED
            BY <2>1, <3>1, <3>4, <4>3, <5>1, <5>3, <6>1, <6>2 DEF Sorted
        <5>4. j \in 1..Len(p) \/ j = Len(p) + 1
          <6>1. Len(p) \in Nat /\ j \in 1..Len(p) + 1
            BY <2>5, <5>0
          <6> QED
            BY <6>1
        <5> QED
          BY <5>2, <5>3, <5>4
      <4> QED
        BY <4>2, <4>3
    <3>5. Shrinks(q, r, n)
      BY <3>1, <3>2, <3>3, <3>4 DEF Shrinks
    <3> QED
      BY <1>3, <2>7, <3>5 DEF r
  <2> QED
    BY <2>4, <2>6, <2>7
<1> QED
  BY <1>5, <1>6

LEMMA FittingIs ==
  ASSUME NEW q \in Seq(Nat)
  PROVE  /\ Fitting(q) \in Seq(Nat) /\ Len(Fitting(q)) <= Len(q)
         /\ Range(Fitting(q)) \subseteq Range(q)
         /\ Sorted(q) => Sorted(Fitting(q))
<1>1. Len(q) \in Nat
  BY LenProperties
<1> DEFINE f == CHOOSE f : Built(q, f, Len(q))
<1>2. Built(q, f, Len(q))
  BY <1>1, BuiltExists
<1>3. Fitting(q) = f[Len(q)]
  BY DEF Fitting, Built, Keeps
<1> HIDE DEF f
<1>4. Shrinks(q, Fitting(q), Len(q))
  BY <1>1, <1>2, <1>3, BuiltShrinks
<1>5. Range(Fitting(q)) \subseteq Range(q)
  <2>1. Range(q) = {q[i] : i \in 1..Len(q)}
    BY RangeIs
  <2>2. Range(Fitting(q)) = {Fitting(q)[i] : i \in 1..Len(Fitting(q))}
    BY <1>4, RangeIs DEF Shrinks
  <2>3. \A i \in 1..Len(Fitting(q)) : \E j \in 1..Len(q) : Fitting(q)[i] = q[j]
    BY <1>4 DEF Shrinks
  <2> QED
    BY <2>1, <2>2, <2>3
<1> QED
  BY <1>4, <1>5 DEF Shrinks

LEMMA InSeq ==
  ASSUME NEW S, NEW q \in Seq(Nat), Range(q) \subseteq S
  PROVE  q \in Seq(S)
<1>1. Len(q) \in Nat /\ q \in [1..Len(q) -> Nat]
  BY LenProperties
<1>2. \A i \in 1..Len(q) : q[i] \in S
  BY RangeIs
<1>3. q \in [1..Len(q) -> S]
  BY <1>1, <1>2
<1> QED
  BY <1>1, <1>3, SeqDef

-----------------------------------------------------------------------------
(* The sockets                                                             *)

States == {"idle", "connecting", "open", "closing"}

SocketTypes ==
  /\ {alive, retry, asks, again, durable} \subseteq BOOLEAN
  /\ state \in [Socks -> States]
  /\ ws \in Socks \cup {NoSock}
  /\ status \in {"closed", "connecting", "open"}

\* Only a socket that is being closed has lost its onclose, and an app that
\* does not run has no sockets.
SocketInv ==
  /\ SocketTypes
  /\ OneSocket
  /\ NeverStranded
  /\ muted \subseteq {s \in Socks : state[s] = "closing"}
  /\ ~alive => \A s \in Socks : state[s] = "idle"

\* What connect does to the sockets, whoever calls it.
LEMMA ConnectsSockets ==
  ASSUME NEW st \in [Socks -> States], NEW w \in Socks \cup {NoSock}, NEW armed \in BOOLEAN,
         \A s \in Socks : st[s] \in {"connecting", "open"} => s = w,
         SocketTypes, Connects(st, w, armed)
  PROVE  /\ state' \in [Socks -> States] /\ ws' \in Socks \cup {NoSock} /\ retry' \in BOOLEAN
         /\ status' \in {"closed", "connecting", "open"}
         /\ OneSocket'
         /\ Live(state', ws') \/ retry'
         /\ \A s \in Socks : st[s] = "closing" => state'[s] = "closing"
         /\ \A s \in Socks : state'[s] # st[s] => state'[s] = "connecting" /\ line[s] = <<>>
<1>1. CASE Live(st, w)
  <2>1. state' = st /\ ws' = w /\ retry' = armed /\ UNCHANGED status
    BY <1>1 DEF Connects
  <2> QED
    BY <1>1, <2>1 DEF OneSocket, Live, SocketTypes
<1>2. CASE ~Live(st, w)
  <2>1. status' = "connecting"
    BY <1>2 DEF Connects
  <2>2. CASE \E s \in Socks \ {w} : /\ st[s] = "idle" /\ line[s] = <<>>
                                    /\ ws' = s /\ state' = [st EXCEPT ![s] = "connecting"]
                                    /\ retry' = FALSE
    <3>1. PICK s \in Socks \ {w} : /\ st[s] = "idle" /\ line[s] = <<>>
                                   /\ ws' = s /\ state' = [st EXCEPT ![s] = "connecting"]
                                   /\ retry' = FALSE
      BY <2>2
    <3>2. \A t \in Socks : state'[t] = IF t = s THEN "connecting" ELSE st[t]
      BY <3>1
    <3>3. \A t \in Socks : st[t] \notin {"connecting", "open"}
      BY <1>2, SocketAssumption DEF Live
    <3>4. state' \in [Socks -> States]
      BY <3>1 DEF States
    <3>5. OneSocket' /\ Live(state', ws')
      BY <3>1, <3>2, <3>3, SocketAssumption DEF OneSocket, Live
    <3> QED
      BY <2>1, <3>1, <3>2, <3>4, <3>5
  <2>3. CASE ws' = w /\ state' = st /\ retry' = TRUE
    BY <2>1, <2>3 DEF OneSocket
  <2> QED
    BY <1>2, <2>2, <2>3 DEF Connects
<1> QED
  BY <1>1, <1>2

LEMMA SocketInit == WireInit => SocketInv
<1> SUFFICES ASSUME WireInit PROVE SocketInv
  OBVIOUS
<1> QED
  BY DEF WireInit, SocketInv, SocketTypes, OneSocket, NeverStranded, States

LEMMA SocketStep == SocketInv /\ [WireNext]_wireVars => SocketInv'
<1> SUFFICES ASSUME SocketInv, [WireNext]_wireVars PROVE SocketInv'
  OBVIOUS
<1> USE DEF SocketInv
<1>1. ASSUME Kick PROVE SocketInv'
  <2>1. Connects(state, ws, retry) /\ UNCHANGED <<alive, muted, asks, again, durable>> /\ alive
    BY <1>1 DEF Kick, rest
  <2>2. \A s \in Socks : state[s] \in {"connecting", "open"} => s = ws
    BY DEF OneSocket
  <2> QED
    BY <2>1, <2>2, ConnectsSockets DEF SocketTypes, NeverStranded
<1>2. ASSUME RetryFires PROVE SocketInv'
  <2>1. Connects(state, ws, FALSE) /\ UNCHANGED <<alive, muted, asks, again, durable>> /\ alive
    BY <1>2 DEF RetryFires, rest
  <2>2. \A s \in Socks : state[s] \in {"connecting", "open"} => s = ws
    BY DEF OneSocket
  <2> QED
    BY <2>1, <2>2, ConnectsSockets DEF SocketTypes, NeverStranded
<1>3. ASSUME Reconnect PROVE SocketInv'
  <2> DEFINE st == IF Live(state, ws) THEN [state EXCEPT ![ws] = "closing"] ELSE state
  <2>1. /\ Connects(st, NoSock, FALSE) /\ UNCHANGED <<alive, asks, again, durable>> /\ alive
        /\ muted' = IF ws # NoSock /\ state[ws] # "idle" THEN muted \cup {ws} ELSE muted
    BY <1>3 DEF Reconnect
  <2>2. st \in [Socks -> States]
    BY DEF SocketTypes, States
  <2>3. \A s \in Socks : /\ st[s] \notin {"connecting", "open"}
                         /\ s \in muted' => st[s] = "closing"
    BY <2>1, SocketAssumption DEF SocketTypes, OneSocket, Live, States
  <2>4. muted' \subseteq Socks
    BY <2>1 DEF SocketTypes
  <2> HIDE DEF st
  <2>5. /\ state' \in [Socks -> States] /\ ws' \in Socks \cup {NoSock} /\ retry' \in BOOLEAN
        /\ status' \in {"closed", "connecting", "open"}
        /\ OneSocket'
        /\ Live(state', ws') \/ retry'
        /\ \A s \in Socks : st[s] = "closing" => state'[s] = "closing"
    BY <2>1, <2>2, <2>3, ConnectsSockets
  <2> QED
    BY <2>1, <2>3, <2>4, <2>5 DEF SocketTypes, NeverStranded
<1>4. ASSUME AsksForChats PROVE SocketInv'
  BY <1>4 DEF AsksForChats, rest, SocketTypes, OneSocket, NeverStranded, Live
<1>5. ASSUME NEW thread \in Threads, Opens(thread) PROVE SocketInv'
  <2>1. /\ alive /\ ws # NoSock /\ state[ws] = "connecting"
        /\ state' = [state EXCEPT ![ws] = "open"]
        /\ status' = "open" /\ again' = TRUE /\ asks' = TRUE
        /\ UNCHANGED <<alive, ws, muted, retry, durable>>
    BY <1>5 DEF Opens, rest
  <2>2. ws \in Socks /\ \A s \in Socks : state'[s] = IF s = ws THEN "open" ELSE state[s]
    BY <2>1 DEF SocketTypes
  <2>3. state' \in [Socks -> States]
    BY <2>1, <2>2 DEF SocketTypes, States
  <2> QED
    BY <2>1, <2>2, <2>3 DEF SocketTypes, OneSocket, NeverStranded, Live
<1>6. ASSUME SendNow \/ Refuse \/ Queue \/ ClearOutbox PROVE SocketInv'
  <2>1. UNCHANGED <<alive, socket, durable>>
    BY <1>6 DEF SendNow, Refuse, Queue, ClearOutbox, rest
  <2> QED
    BY <2>1 DEF socket, SocketTypes, OneSocket, NeverStranded, Live
<1>7. ASSUME Killed PROVE SocketInv'
  BY <1>7 DEF Killed, SocketTypes, OneSocket, NeverStranded, States
<1>8. ASSUME Starts PROVE SocketInv'
  <2>1. Connects(state, NoSock, FALSE) /\ UNCHANGED <<muted, asks, again, durable>> /\ ~alive
        /\ alive' = TRUE
    BY <1>8 DEF Starts
  <2>2. \A s \in Socks : state[s] = "idle"
    BY <2>1
  <2>3. /\ state' \in [Socks -> States] /\ ws' \in Socks \cup {NoSock} /\ retry' \in BOOLEAN
        /\ status' \in {"closed", "connecting", "open"}
        /\ OneSocket'
        /\ Live(state', ws') \/ retry'
        /\ \A s \in Socks : state[s] = "closing" => state'[s] = "closing"
    BY <2>1, <2>2, ConnectsSockets DEF SocketTypes
  <2> QED
    BY <2>1, <2>3 DEF SocketTypes, NeverStranded
<1>9. ASSUME NEW s \in Socks, CloseEvent(s) PROVE SocketInv'
  <2>1. /\ alive /\ state[s] = "closing"
        /\ state' = [state EXCEPT ![s] = "idle"]
        /\ IF s \in muted THEN UNCHANGED <<status, retry>> ELSE status' = "closed" /\ retry' = TRUE
        /\ muted' = muted \ {s}
        /\ UNCHANGED <<alive, ws, asks, again, durable>>
    BY <1>9 DEF CloseEvent, rest
  <2>2. \A t \in Socks : state'[t] = IF t = s THEN "idle" ELSE state[t]
    BY <2>1 DEF SocketTypes
  <2>3. state' \in [Socks -> States]
    BY <2>1 DEF SocketTypes, States
  <2>4. NeverStranded'
    <3>1. CASE s \in muted
      BY <2>1, <2>2, <3>1 DEF SocketTypes, NeverStranded, Live
    <3>2. CASE s \notin muted
      BY <2>1, <3>2 DEF NeverStranded
    <3> QED
      BY <3>1, <3>2
  <2> QED
    BY <2>1, <2>2, <2>3, <2>4 DEF SocketTypes, OneSocket
<1>10. ASSUME NEW s \in Socks, Breaks(s) \/ ClosesOver(s) PROVE SocketInv'
  <2>1. /\ state' = [state EXCEPT ![s] = Down(s)]
        /\ UNCHANGED <<alive, ws, muted, retry, asks, status, again, durable>>
    BY <1>10 DEF Breaks, ClosesOver, rest
  <2>2. \A t \in Socks : state'[t] = IF t = s THEN Down(s) ELSE state[t]
    BY <2>1 DEF SocketTypes
  <2>3. state' \in [Socks -> States]
    BY <2>1 DEF SocketTypes, States, Down
  <2>4. NeverStranded'
    <3>1. CASE ~alive
      BY <2>1, <3>1 DEF NeverStranded
    <3>2. CASE alive /\ state[s] \in {"connecting", "open"}
      <4>1. state'[s] = "closing" /\ s \notin muted'
        BY <2>1, <2>2, <3>2 DEF Down
      <4> QED
        BY <4>1 DEF NeverStranded
    <3>3. CASE alive /\ state[s] \notin {"connecting", "open"}
      <4>1. state' = state
        BY <2>1, <2>2, <3>3 DEF Down, SocketTypes
      <4> QED
        BY <2>1, <4>1 DEF NeverStranded, Live
    <3> QED
      BY <3>1, <3>2, <3>3 DEF SocketTypes
  <2> QED
    BY <2>1, <2>2, <2>3, <2>4 DEF SocketTypes, OneSocket, Down
<1>11. ASSUME NEW s \in Socks, Receives(s) PROVE SocketInv'
  <2>1. UNCHANGED <<alive, socket, durable>>
    BY <1>11 DEF Receives, rest
  <2> QED
    BY <2>1 DEF socket, SocketTypes, OneSocket, NeverStranded, Live
<1>12. ASSUME UNCHANGED wireVars PROVE SocketInv'
  BY <1>12 DEF wireVars, socket, rest, SocketTypes, OneSocket, NeverStranded, Live
<1> QED
  BY <1>1, <1>2, <1>3, <1>4, <1>5, <1>6, <1>7, <1>8, <1>9, <1>10, <1>11, <1>12 DEF WireNext

-----------------------------------------------------------------------------
(* The frames                                                              *)

FrameTypes ==
  /\ outbox \in Seq(Nat) /\ stored \in Seq(Nat) /\ got \in Seq(Nat)
  /\ line \in [Socks -> Seq(Nat)]
  /\ made \in 0..MaxFrames
  /\ queued \subseteq 1..made /\ lost \subseteq 1..made

\* Only what was sent is anywhere; only the lines carry requests for state.
AllMade ==
  /\ Range(outbox) \cup Range(stored) \cup Range(got) \subseteq 1..made
  /\ \A s \in Socks : Range(line[s]) \subseteq 0..made

\* A socket takes nothing before it has opened, so that the outbox goes first.
InOrder ==
  /\ Sorted(outbox) /\ Sorted(stored)
  /\ \A s \in Socks : /\ Sorted(line[s])
                      /\ state[s] = "connecting" => line[s] = <<>>

\* A send is in one place: waiting, on one connection, or received.
Apart ==
  /\ \A s, t \in Socks : s # t => Range(line[s]) \cap Range(line[t]) \subseteq {Ask}
  /\ \A s \in Socks : Range(line[s]) \cap (Range(outbox) \cup Range(stored)) = {}
  /\ \A s \in Socks : Range(line[s]) \cap Range(got) = {}
  /\ Range(got) \cap (Range(outbox) \cup Range(stored)) = {}

Once == \A i, j \in 1..Len(got) : i # j => got[i] # got[j]

\* While the app runs, what is stored and not in its outbox has been given up.
Accounted ==
  /\ NothingForgotten
  /\ ~alive => outbox = <<>>
  /\ alive => Range(stored) \subseteq Range(outbox) \cup lost

WireFrameInv == FrameTypes /\ AllMade /\ InOrder /\ Apart /\ Once /\ Accounted

LEMMA WireFrameInit == WireInit => WireFrameInv
<1> SUFFICES ASSUME WireInit PROVE WireFrameInv
  OBVIOUS
<1> DEFINE old == [i \in 1..Earlier |-> i]
<1>1. Earlier \in Nat /\ MaxFrames \in Nat /\ Earlier <= MaxFrames
  BY BoundAssumption
<1>2. <<>> \in Seq(Nat) /\ Len(<<>>) = 0 /\ Range(<<>>) = {} /\ Sorted(<<>>)
  BY EmptySeq, EmptyIs
<1>3. old \in Seq(Nat) /\ Range(old) \subseteq 1..Earlier /\ Sorted(old)
  <2>1. old \in Seq(Nat) /\ Len(old) = Earlier
    BY <1>1
  <2>2. Range(old) = {old[i] : i \in 1..Len(old)}
    <3> HIDE DEF old
    <3> QED
      BY <2>1, RangeIs
  <2>3. \A i \in 1..Earlier : old[i] = i
    OBVIOUS
  <2> HIDE DEF old
  <2>4. Range(old) \subseteq 1..Earlier
    BY <2>1, <2>2, <2>3
  <2>5. Sorted(old)
    BY <2>1, <2>3 DEF Sorted, Follows
  <2> QED
    BY <2>1, <2>4, <2>5
<1> HIDE DEF old
<1>4. /\ stored \in Seq(Nat) /\ Range(stored) \subseteq 1..Earlier /\ Sorted(stored)
      /\ outbox = <<>> /\ got = <<>> /\ made = Earlier /\ queued = {}
      /\ line = [s \in Socks |-> <<>>]
      /\ lost = (1..Earlier) \ Range(stored)
      /\ alive = FALSE /\ state = [s \in Socks |-> "idle"]
  BY <1>2, <1>3 DEF WireInit, old
<1>5. \A s \in Socks : line[s] = <<>>
  BY <1>4
<1>6. FrameTypes
  BY <1>1, <1>2, <1>4 DEF FrameTypes
<1>7. AllMade
  BY <1>2, <1>4, <1>5 DEF AllMade
<1>8. InOrder
  BY <1>2, <1>4, <1>5 DEF InOrder
<1>9. Apart
  BY <1>2, <1>4, <1>5 DEF Apart
<1>10. Once
  BY <1>2, <1>4 DEF Once
<1>11. Accounted
  BY <1>4 DEF Accounted, NothingForgotten
<1> QED
  BY <1>6, <1>7, <1>8, <1>9, <1>10, <1>11 DEF WireFrameInv

\* A step that touches no frame.
LEMMA SocketsOnly ==
  ASSUME WireFrameInv,
         UNCHANGED <<outbox, stored, line, got, made, queued, lost>>,
         alive' = alive,
         \A s \in Socks : state'[s] # state[s] => state'[s] # "connecting" \/ line[s] = <<>>
  PROVE  WireFrameInv'
<1>1. FrameTypes' /\ AllMade' /\ Apart' /\ Once'
  BY DEF WireFrameInv, FrameTypes, AllMade, Apart, Once
<1>2. InOrder'
  BY DEF WireFrameInv, InOrder
<1>3. Accounted'
  BY DEF WireFrameInv, Accounted, NothingForgotten, OnLine
<1> QED
  BY <1>1, <1>2, <1>3 DEF WireFrameInv

\* A socket gets a frame at the end of its line.
Gets(e) ==
  /\ e \in Nat /\ IsOpen
  /\ \/ e = Ask /\ made' = made
     \/ e = made + 1 /\ made' = made + 1 /\ made' \in 0..MaxFrames
  /\ line' = [line EXCEPT ![ws] = Append(@, e)]
  /\ UNCHANGED <<alive, state, outbox, stored, got, queued, lost>>

LEMMA LineGets ==
  ASSUME WireFrameInv, SocketInv, NEW e, Gets(e)
  PROVE  WireFrameInv'
<1> USE DEF Gets
<1>1. ws \in Socks /\ state[ws] = "open"
  BY DEF SocketInv, SocketTypes, IsOpen
<1>2. line[ws] \in Seq(Nat)
  BY <1>1 DEF WireFrameInv, FrameTypes
<1>3. /\ Append(line[ws], e) \in Seq(Nat)
      /\ Range(Append(line[ws], e)) = Range(line[ws]) \cup {e}
      /\ Sorted(line[ws]) /\ (e = Ask \/ \A x \in Range(line[ws]) : x < e)
           => Sorted(Append(line[ws], e))
  BY <1>2, AppendIs
<1>4. \A s \in Socks : line'[s] = IF s = ws THEN Append(line[ws], e) ELSE line[s]
  BY DEF WireFrameInv, FrameTypes
<1>5. /\ line' \in [Socks -> Seq(Nat)]
      /\ \A s \in Socks : Range(line'[s]) = IF s = ws THEN Range(line[ws]) \cup {e} ELSE Range(line[s])
  BY <1>3, <1>4 DEF WireFrameInv, FrameTypes
<1>6. made \in Nat
  BY DEF WireFrameInv, FrameTypes
<1>7. FrameTypes'
  BY <1>5, <1>6 DEF WireFrameInv, FrameTypes
<1>8. AllMade'
  BY <1>1, <1>5, <1>6 DEF WireFrameInv, AllMade, Ask
<1>9. InOrder'
  <2>1. \A x \in Range(line[ws]) : x <= made
    BY <1>1, <1>6 DEF WireFrameInv, AllMade
  <2>2. e = Ask \/ \A x \in Range(line[ws]) : x < e
    <3> SUFFICES ASSUME e # Ask, NEW x \in Range(line[ws]) PROVE x < e
      OBVIOUS
    <3>1. x \in 0..made /\ e = made + 1
      BY <1>1 DEF WireFrameInv, AllMade
    <3> QED
      BY <1>6, <3>1
  <2>3. Sorted(line[ws])
    BY <1>1 DEF WireFrameInv, InOrder
  <2> QED
    BY <1>1, <1>3, <1>4, <2>2, <2>3 DEF WireFrameInv, InOrder
<1>10. Apart'
  <2>1. e \notin Range(outbox) \cup Range(stored) \cup Range(got)
    BY <1>6 DEF WireFrameInv, AllMade, Ask
  <2>2. \A s \in Socks : e # Ask => e \notin Range(line[s])
    BY <1>6 DEF WireFrameInv, AllMade
  <2> QED
    BY <1>1, <1>5, <2>1, <2>2 DEF WireFrameInv, Apart
<1>11. Once'
  BY DEF WireFrameInv, Once
<1>12. Accounted'
  <2>1. OnLine' = OnLine \cup {e}
    BY <1>1, <1>5 DEF OnLine
  <2>2. 1..made' \subseteq 1..made \cup {e}
    BY <1>6
  <2> QED
    BY <2>1, <2>2 DEF WireFrameInv, Accounted, NothingForgotten
<1> QED
  BY <1>7, <1>8, <1>9, <1>10, <1>11, <1>12 DEF WireFrameInv

\* What the listener sends: requests, and one mark-read when it sends any.
LEMMA GreetingIs ==
  ASSUME NEW thread \in Threads, made \in Nat, Repulls(thread) => made + 1 \in Marks
  PROVE  /\ Greeting(thread) \in Seq(Nat) /\ Sorted(Greeting(thread))
         /\ Range(Greeting(thread)) \subseteq {Ask, made + 1}
         /\ made + 1 \in Range(Greeting(thread)) <=> Repulls(thread)
<1> DEFINE m == made + 1
           head == <<Ask, m>>
           end == IF thread = "contact" THEN <<Ask>> ELSE <<>>
<1>1. CASE ~Repulls(thread)
  <2>1. Greeting(thread) = <<>> /\ <<>> \in Seq(Nat)
    BY <1>1, EmptySeq DEF Greeting
  <2> QED
    BY <1>1, <2>1, EmptyIs
<1>2. CASE Repulls(thread)
  <2>1. Greeting(thread) = head \o end /\ m \in Marks /\ m # Ask /\ m \in Nat /\ Ask \in Nat
    BY <1>2 DEF Greeting, Ask
  <2>2. head \in Seq(Nat) /\ Len(head) = 2 /\ head[1] = Ask /\ head[2] = m
    BY <2>1
  <2>3. end \in Seq(Nat) /\ Range(end) \subseteq {Ask} /\ Sorted(end)
    BY <2>1, EmptySeq, EmptyIs, OneIs
  <2> HIDE DEF head, end, m
  <2>4. Range(head) = {Ask, m}
    <3>1. Range(head) = {head[i] : i \in 1..2}
      BY <2>2, RangeIs
    <3> QED
      BY <2>2, <3>1
  <2>5. Sorted(head)
    BY <2>2 DEF Sorted
  <2>6. /\ head \o end \in Seq(Nat) /\ Range(head \o end) = Range(head) \cup Range(end)
        /\ Sorted(head \o end)
    BY <2>1, <2>2, <2>3, <2>4, <2>5, ConcatIs
  <2>7. Range(head \o end) = {Ask, m}
    BY <2>3, <2>4, <2>6
  <2> QED
    BY <1>2, <2>1, <2>6, <2>7 DEF m
<1> QED
  BY <1>1, <1>2

\* A socket opens: the outbox goes onto it, behind what the listener sends.
LEMMA OpensFrames ==
  ASSUME WireFrameInv, SocketInv, NEW thread \in Threads, Opens(thread)
  PROVE  WireFrameInv'
<1> DEFINE first == Greeting(thread)
           new == (line[ws] \o first) \o outbox
           fresh == Range(first) \ {Ask}
<1>0. made \in Nat
  BY DEF WireFrameInv, FrameTypes
<1>1. /\ alive /\ ws \in Socks /\ state[ws] = "connecting"
      /\ state' = [state EXCEPT ![ws] = "open"]
      /\ outbox' = <<>> /\ stored' = IF outbox = <<>> THEN stored ELSE <<>>
      /\ line' = [line EXCEPT ![ws] = new]
      /\ Repulls(thread) => made < MaxFrames /\ made + 1 \in Marks
      /\ made' = IF Repulls(thread) THEN made + 1 ELSE made
      /\ UNCHANGED <<alive, got, queued, lost>>
  BY DEF SocketInv, SocketTypes, Opens, Flush, ledger
<1>2. /\ first \in Seq(Nat) /\ Sorted(first)
      /\ Range(first) \subseteq {Ask, made + 1}
      /\ made + 1 \in Range(first) <=> Repulls(thread)
  BY <1>0, <1>1, GreetingIs
<1>21. /\ fresh \subseteq {made + 1} /\ fresh \cap (0..made) = {} /\ Range(first) \subseteq fresh \cup {Ask}
       /\ Range(first) \subseteq Marks \cup {Ask}
  BY <1>0, <1>1, <1>2 DEF Ask
<1>22. /\ made' \in 0..MaxFrames /\ made <= made' /\ 1..made' \subseteq 1..made \cup fresh
       /\ fresh \subseteq 1..made'
  BY <1>0, <1>1, <1>2, BoundAssumption DEF Ask, WireFrameInv, FrameTypes
<1>23. 0..made \subseteq 0..made' /\ 1..made \subseteq 1..made' /\ 1..made' \subseteq 0..made'
       /\ 1..made \subseteq 0..made /\ Ask \in 0..made'
  BY <1>0, <1>22 DEF Ask
<1> HIDE DEF first
<1>3. line[ws] = <<>> /\ outbox \in Seq(Nat) /\ Sorted(outbox)
  BY <1>1 DEF WireFrameInv, FrameTypes, InOrder
<1>4. line[ws] \o first = first
  BY <1>2, <1>3, ConcatEmptySeq
<1>41. Range(first) \cap Range(outbox) \subseteq {Ask}
  BY <1>21, <1>23 DEF WireFrameInv, AllMade
<1> HIDE DEF fresh
<1>5. new \in Seq(Nat) /\ Range(new) = Range(first) \cup Range(outbox) /\ Sorted(new)
  BY <1>2, <1>3, <1>4, <1>21, <1>41, ConcatIs
<1> HIDE DEF new
<1>6. Range(<<>>) = {} /\ Sorted(<<>>) /\ <<>> \in Seq(Nat)
  BY EmptyIs, EmptySeq
<1>7. \A s \in Socks : line'[s] = IF s = ws THEN new ELSE line[s]
  BY <1>1 DEF WireFrameInv, FrameTypes
<1>8. /\ Range(outbox') = {} /\ Range(stored') \subseteq Range(stored)
      /\ Range(new) \subseteq Range(outbox) \cup {Ask} \cup fresh
      /\ Range(outbox) \cup fresh \subseteq Range(new)
  BY <1>1, <1>21, <1>5, <1>6 DEF fresh
<1>9. FrameTypes'
  <2>1. line' \in [Socks -> Seq(Nat)]
    BY <1>1, <1>5 DEF WireFrameInv, FrameTypes
  <2>2. queued' \subseteq 1..made' /\ lost' \subseteq 1..made'
    BY <1>1, <1>23 DEF WireFrameInv, FrameTypes
  <2>3. outbox' \in Seq(Nat) /\ stored' \in Seq(Nat) /\ got' \in Seq(Nat)
    BY <1>1, <1>6 DEF WireFrameInv, FrameTypes
  <2> QED
    BY <1>22, <2>1, <2>2, <2>3 DEF FrameTypes
<1>10. AllMade'
  <2>1. \A s \in Socks : Range(line'[s]) \subseteq 0..made'
    <3>1. Range(new) \subseteq 0..made'
      BY <1>8, <1>22, <1>23 DEF WireFrameInv, AllMade
    <3> QED
      BY <1>7, <1>23, <3>1 DEF WireFrameInv, AllMade
  <2>2. Range(outbox') \cup Range(stored') \cup Range(got') \subseteq 1..made'
    BY <1>1, <1>8, <1>23 DEF WireFrameInv, AllMade
  <2> QED
    BY <2>1, <2>2 DEF AllMade
<1>11. InOrder'
  <2>1. \A s \in Socks : Sorted(line'[s])
    BY <1>5, <1>7 DEF WireFrameInv, InOrder
  <2>2. \A s \in Socks : state'[s] = "connecting" => s # ws /\ state[s] = "connecting"
    BY <1>1 DEF SocketInv, SocketTypes
  <2>3. Sorted(stored')
    BY <1>1, <1>6 DEF WireFrameInv, InOrder
  <2> QED
    BY <1>1, <1>6, <1>7, <2>1, <2>2, <2>3 DEF WireFrameInv, InOrder
<1>12. Apart'
  <2>1. Ask \notin Range(got) \cup Range(outbox) \cup Range(stored)
    BY DEF WireFrameInv, FrameTypes, AllMade, Ask
  <2>11. /\ fresh \cap (Range(got) \cup Range(outbox) \cup Range(stored)) = {}
         /\ \A s \in Socks : fresh \cap Range(line[s]) = {}
    BY <1>21, <1>23 DEF WireFrameInv, AllMade, fresh
  <2>2. \A s \in Socks : Range(line'[s]) \cap Range(got) = {}
    BY <1>7, <1>8, <2>1, <2>11 DEF WireFrameInv, Apart
  <2>3. \A s, t \in Socks : s # t => Range(line'[s]) \cap Range(line'[t]) \subseteq {Ask}
    BY <1>7, <1>8, <2>11 DEF WireFrameInv, Apart
  <2>4. \A s \in Socks : Range(line'[s]) \cap Range(stored') = {}
    <3>1. CASE outbox = <<>>
      <4>1. Range(new) \subseteq {Ask} \cup fresh
        BY <1>6, <1>8, <3>1
      <4> QED
        BY <1>1, <1>7, <2>1, <2>11, <3>1, <4>1 DEF WireFrameInv, Apart
    <3>2. CASE outbox # <<>>
      BY <1>1, <1>6, <3>2
    <3> QED
      BY <3>1, <3>2
  <2>5. Range(got) \cap Range(stored') = {}
    BY <1>8 DEF WireFrameInv, Apart
  <2> QED
    BY <1>1, <1>8, <2>2, <2>3, <2>4, <2>5 DEF Apart
<1>13. Once'
  BY <1>1 DEF WireFrameInv, Once
<1>14. Accounted'
  <2>1. OnLine \cup Range(outbox) \cup fresh \subseteq OnLine'
    <3>1. OnLine' = UNION {Range(line'[s]) : s \in Socks}
      BY DEF OnLine
    <3>2. \A s \in Socks \ {ws} : Range(line[s]) \subseteq OnLine'
      BY <1>7, <3>1
    <3>3. Range(new) \subseteq OnLine'
      BY <1>1, <1>7, <3>1
    <3>4. Range(line[ws]) = {}
      BY <1>3, <1>6
    <3> QED
      BY <1>8, <3>2, <3>3, <3>4 DEF OnLine
  <2>2. Range(stored) \subseteq Range(outbox) \cup lost
    BY <1>1 DEF WireFrameInv, Accounted
  <2>3. NothingForgotten'
    BY <1>1, <1>22, <2>1, <2>2 DEF WireFrameInv, Accounted, NothingForgotten
  <2>4. Range(stored') \subseteq lost
    <3>1. CASE outbox = <<>>
      BY <1>1, <1>6, <2>2, <3>1
    <3>2. CASE outbox # <<>>
      BY <1>1, <1>6, <3>2
    <3> QED
      BY <3>1, <3>2
  <2> QED
    BY <1>1, <2>3, <2>4 DEF Accounted
<1> QED
  BY <1>9, <1>10, <1>11, <1>12, <1>13, <1>14 DEF WireFrameInv

LEMMA QueueFrames ==
  ASSUME WireFrameInv, SocketInv, Queue
  PROVE  WireFrameInv'
<1> DEFINE new == Append(outbox, made + 1)
<1>1. /\ alive /\ made < MaxFrames /\ made' = made + 1
      /\ outbox' = Capped(new)
      /\ Saves(outbox')
      /\ queued' = queued \cup {made + 1}
      /\ lost' = lost \cup (Range(outbox) \ Range(outbox'))
      /\ UNCHANGED <<alive, state, line, got>>
  BY DEF Queue, socket
<1>2. made \in Nat /\ made' \in 0..MaxFrames /\ made + 1 \in Nat
  BY <1>1, BoundAssumption DEF WireFrameInv, FrameTypes
<1>3. outbox \in Seq(Nat) /\ Sorted(outbox) /\ Range(outbox) \subseteq 1..made
  BY DEF WireFrameInv, FrameTypes, AllMade, InOrder
<1>4. new \in Seq(Nat) /\ Range(new) = Range(outbox) \cup {made + 1} /\ Sorted(new)
  <2>1. \A x \in Range(outbox) : x < made + 1
    BY <1>2, <1>3
  <2> QED
    BY <1>2, <1>3, <2>1, AppendIs
<1>5. new # <<>>
  BY <1>2, <1>3, AppendProperties
<1> HIDE DEF new
<1>6. /\ outbox' \in Seq(Nat) /\ Range(outbox') \subseteq Range(new) /\ Sorted(outbox')
      /\ made + 1 \in Range(outbox')
  <2>1. CASE outbox' = new
    BY <1>4, <2>1
  <2>2. CASE outbox' = Tail(new) /\ Len(new) > OutboxMax
    <3>1. /\ Tail(new) \in Seq(Nat) /\ Range(new) = Range(Tail(new)) \cup {Head(new)}
          /\ Sorted(Tail(new)) /\ Head(new) \in Range(new)
      BY <1>4, <1>5, TailIs
    <3>2. Head(new) # made + 1
      <4>1. Len(new) = Len(outbox) + 1 /\ Len(outbox) \in Nat
        BY <1>2, <1>3, AppendProperties, LenProperties DEF new
      <4>2. 1 \in 1..Len(outbox)
        BY <2>2, <4>1, OutboxAssumption
      <4>3. Head(new) = new[1] /\ new[1] = outbox[1]
        BY <1>2, <1>3, <4>2, AppendProperties DEF new
      <4>4. outbox[1] \in Range(outbox)
        BY <1>3, <4>2, RangeIs
      <4> QED
        BY <1>2, <1>3, <4>3, <4>4
    <3>3. made + 1 \in Range(Tail(new))
      BY <1>4, <3>1, <3>2
    <3> QED
      BY <2>2, <3>1, <3>3
  <2> QED
    BY <1>1, <2>1, <2>2 DEF Capped
<1>7. /\ stored' \in Seq(Nat) /\ Sorted(stored')
      /\ Range(stored') \subseteq Range(stored) \cup Range(outbox')
      /\ Range(stored') \subseteq Range(outbox') \cup lost'
  <2>1. CASE stored' = outbox'
    BY <1>6, <2>1
  <2>2. CASE stored' = stored
    <3>1. Range(stored) \subseteq Range(outbox) \cup lost
      BY <1>1 DEF WireFrameInv, Accounted
    <3> QED
      BY <1>1, <2>2, <3>1 DEF WireFrameInv, FrameTypes, InOrder
  <2> QED
    BY <1>1, <2>1, <2>2 DEF Saves
<1>8. Range(outbox') \subseteq Range(outbox) \cup {made + 1}
  BY <1>4, <1>6
<1>9. FrameTypes'
  <2>1. queued' \subseteq 1..made'
    BY <1>1, <1>2 DEF WireFrameInv, FrameTypes
  <2>2. lost' \subseteq 1..made'
    <3>1. lost \subseteq 1..made
      BY DEF WireFrameInv, FrameTypes
    <3>2. 1..made \subseteq 1..made'
      BY <1>1, <1>2
    <3> QED
      BY <1>1, <1>3, <3>1, <3>2
  <2>3. got' \in Seq(Nat) /\ line' \in [Socks -> Seq(Nat)]
    BY <1>1 DEF WireFrameInv, FrameTypes
  <2> QED
    BY <1>2, <1>6, <1>7, <2>1, <2>2, <2>3 DEF FrameTypes
<1>10. AllMade'
  <2>1. 1..made \subseteq 1..made' /\ 0..made \subseteq 0..made' /\ made + 1 \in 1..made'
    BY <1>1, <1>2
  <2>2. Range(outbox') \cup Range(stored') \cup Range(got') \subseteq 1..made'
    BY <1>1, <1>3, <1>7, <1>8, <2>1 DEF WireFrameInv, AllMade
  <2>3. \A s \in Socks : Range(line'[s]) \subseteq 0..made'
    BY <1>1, <2>1 DEF WireFrameInv, AllMade
  <2> QED
    BY <2>2, <2>3 DEF AllMade
<1>11. InOrder'
  BY <1>1, <1>6, <1>7 DEF WireFrameInv, InOrder
<1>12. Apart'
  <2>1. made + 1 \notin Range(got) /\ \A s \in Socks : made + 1 \notin Range(line[s])
    BY <1>2 DEF WireFrameInv, AllMade
  <2>2. Range(outbox') \cup Range(stored') \subseteq Range(outbox) \cup Range(stored) \cup {made + 1}
    BY <1>7, <1>8
  <2> QED
    BY <1>1, <2>1, <2>2 DEF WireFrameInv, Apart
<1>13. Once'
  BY <1>1 DEF WireFrameInv, Once
<1>14. Accounted'
  <2>1. 1..made' \subseteq 1..made \cup {made + 1}
    BY <1>1, <1>2
  <2>2. Range(stored) \subseteq Range(outbox) \cup lost
    BY <1>1 DEF WireFrameInv, Accounted
  <2>3. OnLine' = OnLine
    BY <1>1 DEF OnLine
  <2>4. NothingForgotten'
    BY <1>1, <1>6, <2>1, <2>2, <2>3 DEF WireFrameInv, Accounted, NothingForgotten
  <2> QED
    BY <1>1, <1>7, <2>4 DEF Accounted
<1> QED
  BY <1>9, <1>10, <1>11, <1>12, <1>13, <1>14 DEF WireFrameInv

\* The outbox and what is stored only lose frames, which are given up.
LEMMA OutboxShrinks ==
  ASSUME WireFrameInv,
         outbox' \in Seq(Nat), stored' \in Seq(Nat), Sorted(outbox'), Sorted(stored'),
         Range(outbox') \cup Range(stored') \subseteq Range(outbox) \cup Range(stored),
         lost' \subseteq lost \cup Range(outbox) \cup Range(stored),
         Range(outbox) \cup Range(stored) \cup lost
           \subseteq Range(outbox') \cup Range(stored') \cup lost',
         queued' \subseteq queued \cup Range(outbox'),
         alive' => Range(stored') \subseteq Range(outbox') \cup lost',
         ~alive' => outbox' = <<>>,
         \A s \in Socks : state'[s] = "connecting" => line[s] = <<>>,
         UNCHANGED <<made, line, got>>
  PROVE  WireFrameInv'
<1>1. FrameTypes'
  BY DEF WireFrameInv, FrameTypes, AllMade
<1>2. AllMade'
  BY DEF WireFrameInv, AllMade
<1>3. InOrder'
  BY DEF WireFrameInv, InOrder
<1>4. Apart'
  BY DEF WireFrameInv, Apart
<1>5. Once'
  BY DEF WireFrameInv, Once
<1>6. OnLine' = OnLine
  BY DEF OnLine
<1>7. Accounted'
  BY <1>6 DEF WireFrameInv, Accounted, NothingForgotten
<1> QED
  BY <1>1, <1>2, <1>3, <1>4, <1>5, <1>7 DEF WireFrameInv

LEMMA StartsFrames ==
  ASSUME WireFrameInv, SocketInv, Starts
  PROVE  WireFrameInv'
<1>1. /\ ~alive /\ alive' = TRUE /\ outbox' = LoadOutbox /\ stored' = LoadOutbox
      /\ queued' = queued \cup Range(LoadOutbox)
      /\ lost' = lost \cup (Range(stored) \ Range(LoadOutbox))
      /\ Connects(state, NoSock, FALSE)
      /\ UNCHANGED <<made, line, got>>
  BY DEF Starts
<1>2. /\ LoadOutbox \in Seq(Nat) /\ Range(LoadOutbox) \subseteq Range(stored)
      /\ Sorted(LoadOutbox)
  BY FittingIs DEF LoadOutbox, WireFrameInv, FrameTypes, InOrder
<1>3. \A s \in Socks : state'[s] = "connecting" => line[s] = <<>>
  <2>1. \A s \in Socks : state[s] = "idle"
    BY <1>1 DEF SocketInv
  <2>2. \A s \in Socks : state'[s] # state[s] => line[s] = <<>>
    BY <1>1, <2>1, ConnectsSockets DEF SocketInv, SocketTypes
  <2> QED
    BY <2>1, <2>2
<1>4. Range(outbox') = Range(LoadOutbox) /\ Range(stored') = Range(LoadOutbox)
  BY <1>1
<1>5. outbox' \in Seq(Nat) /\ stored' \in Seq(Nat) /\ Sorted(outbox') /\ Sorted(stored')
  BY <1>1, <1>2
<1>6. ~alive /\ Range(LoadOutbox) \subseteq Range(stored)
  BY <1>1, <1>2
<1>7. /\ lost' \subseteq lost \cup Range(outbox) \cup Range(stored)
      /\ queued' \subseteq queued \cup Range(outbox')
      /\ Range(outbox') \cup Range(stored') \subseteq Range(outbox) \cup Range(stored)
  BY <1>1, <1>4, <1>6
<1>8. Range(outbox) \cup Range(stored) \cup lost
        \subseteq Range(outbox') \cup Range(stored') \cup lost'
  <2>1. Range(outbox) = {}
    BY <1>6, EmptyIs DEF WireFrameInv, Accounted
  <2> QED
    BY <1>1, <1>4, <2>1
<1> QED
  BY <1>1, <1>3, <1>4, <1>5, <1>7, <1>8, OutboxShrinks

LEMMA KilledFrames ==
  ASSUME WireFrameInv, Killed
  PROVE  WireFrameInv'
<1>1. /\ alive /\ ~alive' /\ outbox' = <<>> /\ state' = [s \in Socks |-> "idle"]
      /\ lost' = lost \cup (Range(outbox) \ Range(stored))
      /\ UNCHANGED <<stored, made, line, got, queued>>
  BY DEF Killed
<1>2. <<>> \in Seq(Nat) /\ Range(<<>>) = {} /\ Sorted(<<>>)
  BY EmptySeq, EmptyIs
<1>3. stored \in Seq(Nat) /\ Sorted(stored)
  BY DEF WireFrameInv, FrameTypes, InOrder
<1>4. Range(outbox') = {} /\ Range(stored') = Range(stored)
  BY <1>1, <1>2
<1>5. outbox' \in Seq(Nat) /\ stored' \in Seq(Nat) /\ Sorted(outbox') /\ Sorted(stored')
  BY <1>1, <1>2, <1>3
<1> QED
  BY <1>1, <1>4, <1>5, OutboxShrinks

LEMMA ClearFrames ==
  ASSUME WireFrameInv, ClearOutbox
  PROVE  WireFrameInv'
<1>1. /\ alive /\ outbox' = <<>> /\ Saves(<<>>) /\ lost' = lost \cup Range(outbox)
      /\ UNCHANGED <<alive, state, made, line, got, queued>>
  BY DEF ClearOutbox, socket
<1>2. <<>> \in Seq(Nat) /\ Range(<<>>) = {} /\ Sorted(<<>>)
  BY EmptySeq, EmptyIs
<1>3. stored' = <<>>
  BY <1>1 DEF Saves
<1>4. Range(outbox') = {} /\ Range(stored') = {}
  BY <1>1, <1>2, <1>3
<1>5. Range(stored) \subseteq Range(outbox) \cup lost
  BY <1>1 DEF WireFrameInv, Accounted
<1>6. \A s \in Socks : state'[s] = "connecting" => line[s] = <<>>
  BY <1>1 DEF WireFrameInv, InOrder
<1>7. outbox' \in Seq(Nat) /\ stored' \in Seq(Nat) /\ Sorted(outbox') /\ Sorted(stored')
  BY <1>1, <1>2, <1>3
<1> QED
  BY <1>1, <1>4, <1>5, <1>6, <1>7, OutboxShrinks

\* The network drops part of a line, or the daemon all of it.
LEMMA LineLoses ==
  ASSUME WireFrameInv, SocketInv, NEW s \in Socks, NEW q \in Seq(Nat), NEW gone,
         Range(line[s]) = Range(q) \cup gone, Sorted(q), line[s] = <<>> => q = <<>>,
         line' = [line EXCEPT ![s] = q],
         lost' = lost \cup (gone \ {Ask}),
         state' = [state EXCEPT ![s] = Down(s)],
         UNCHANGED <<alive, outbox, stored, made, got, queued>>
  PROVE  WireFrameInv'
<1>1. \A t \in Socks : line'[t] = IF t = s THEN q ELSE line[t]
  BY DEF WireFrameInv, FrameTypes
<1>2. \A t \in Socks : Range(line'[t]) \subseteq Range(line[t])
  BY <1>1
<1>3. \A t \in Socks : state'[t] = "connecting" => state[t] = "connecting"
  BY DEF SocketInv, SocketTypes, Down
<1>4. FrameTypes'
  <2>1. line' \in [Socks -> Seq(Nat)]
    BY DEF WireFrameInv, FrameTypes
  <2>2. lost' \subseteq 1..made
    <3>1. gone \subseteq 0..made
      BY DEF WireFrameInv, AllMade
    <3>2. gone \ {Ask} \subseteq 1..made
      BY <3>1 DEF Ask, WireFrameInv, FrameTypes
    <3> QED
      BY <3>2 DEF WireFrameInv, FrameTypes
  <2> QED
    BY <2>1, <2>2 DEF WireFrameInv, FrameTypes
<1>5. AllMade'
  BY <1>2 DEF WireFrameInv, AllMade
<1>6. InOrder'
  <2>1. \A t \in Socks : Sorted(line'[t])
    BY <1>1 DEF WireFrameInv, InOrder
  <2>2. \A t \in Socks : state'[t] = "connecting" => line'[t] = <<>>
    BY <1>1, <1>3 DEF WireFrameInv, InOrder
  <2> QED
    BY <2>1, <2>2 DEF WireFrameInv, InOrder
<1>7. Apart'
  BY <1>2 DEF WireFrameInv, Apart
<1>8. Once'
  BY DEF WireFrameInv, Once
<1>9. Accounted'
  <2>1. OnLine \subseteq OnLine' \cup gone
    BY <1>1 DEF OnLine
  <2>2. Ask \notin 1..made
    BY DEF Ask
  <2>3. NothingForgotten'
    BY <2>1, <2>2 DEF WireFrameInv, Accounted, NothingForgotten
  <2> QED
    BY <2>3 DEF WireFrameInv, Accounted
<1> QED
  BY <1>4, <1>5, <1>6, <1>7, <1>8, <1>9 DEF WireFrameInv

LEMMA BreaksFrames ==
  ASSUME WireFrameInv, SocketInv, NEW s \in Socks, Breaks(s)
  PROVE  WireFrameInv'
<1>1. line[s] \in Seq(Nat) /\ Sorted(line[s])
  BY DEF WireFrameInv, FrameTypes, InOrder
<1>2. PICK k \in 0..Len(line[s]) :
        /\ line' = [line EXCEPT ![s] = SubSeq(@, 1, k)]
        /\ lost' = lost \cup (Range(SubSeq(line[s], k + 1, Len(line[s]))) \ {Ask})
  BY DEF Breaks
<1> DEFINE q == SubSeq(line[s], 1, k)
           gone == Range(SubSeq(line[s], k + 1, Len(line[s])))
<1>3. q \in Seq(Nat) /\ Range(line[s]) = Range(q) \cup gone /\ Sorted(q)
  BY <1>1, CutIs
<1>4. line[s] = <<>> => q = <<>>
  <2> SUFFICES ASSUME line[s] = <<>> PROVE q = <<>>
    OBVIOUS
  <2>1. k = 0 /\ 0 \in Int /\ 1 \in Int /\ 0 < 1
    BY <1>2, EmptySeq
  <2>2. SubSeq(line[s], 1, 0) = <<>>
    BY <2>1, SubSeqEmpty
  <2> QED
    BY <2>1, <2>2
<1>5. /\ line' = [line EXCEPT ![s] = q] /\ lost' = lost \cup (gone \ {Ask})
      /\ state' = [state EXCEPT ![s] = Down(s)]
      /\ UNCHANGED <<alive, outbox, stored, made, got, queued>>
  BY <1>2 DEF Breaks
<1> HIDE DEF q, gone
<1> QED
  BY <1>3, <1>4, <1>5, LineLoses

LEMMA ClosesOverFrames ==
  ASSUME WireFrameInv, SocketInv, NEW s \in Socks, ClosesOver(s)
  PROVE  WireFrameInv'
<1> DEFINE gone == Range(line[s])
<1>1. <<>> \in Seq(Nat) /\ Range(<<>>) = {} /\ Sorted(<<>>)
  BY EmptySeq, EmptyIs
<1>2. /\ line' = [line EXCEPT ![s] = <<>>] /\ lost' = lost \cup (gone \ {Ask})
      /\ state' = [state EXCEPT ![s] = Down(s)]
      /\ UNCHANGED <<alive, outbox, stored, made, got, queued>>
  BY DEF ClosesOver
<1>3. Range(line[s]) = Range(<<>>) \cup gone
  BY <1>1
<1> HIDE DEF gone
<1> QED
  BY <1>1, <1>2, <1>3, LineLoses

LEMMA ReceivesFrames ==
  ASSUME WireFrameInv, SocketInv, NEW s \in Socks, Receives(s)
  PROVE  WireFrameInv'
<1> DEFINE e == Head(line[s])
<1>1. /\ line[s] # <<>> /\ line' = [line EXCEPT ![s] = Tail(@)]
      /\ got' = IF e = Ask THEN got ELSE Append(got, e)
      /\ UNCHANGED <<alive, state, outbox, stored, made, queued, lost>>
  BY DEF Receives, socket
<1>2. line[s] \in Seq(Nat) /\ Sorted(line[s]) /\ got \in Seq(Nat)
  BY DEF WireFrameInv, FrameTypes, InOrder
<1>3. /\ e \in Range(line[s]) /\ Tail(line[s]) \in Seq(Nat)
      /\ Range(line[s]) = Range(Tail(line[s])) \cup {e}
      /\ Sorted(Tail(line[s])) /\ (e # Ask => e \notin Range(Tail(line[s])))
  BY <1>1, <1>2, TailIs
<1> HIDE DEF e
<1>4. e \in 0..made /\ made \in Nat /\ e \in Nat
  BY <1>3 DEF WireFrameInv, FrameTypes, AllMade
<1>5. \A t \in Socks : line'[t] = IF t = s THEN Tail(line[s]) ELSE line[t]
  BY <1>1 DEF WireFrameInv, FrameTypes
<1>6. \A t \in Socks : Range(line'[t]) \subseteq Range(line[t])
  BY <1>3, <1>5
<1>7. /\ got' \in Seq(Nat)
      /\ Range(got') = Range(got) \cup ({e} \ {Ask})
  <2>1. CASE e = Ask
    BY <1>1, <1>2, <2>1
  <2>2. CASE e # Ask
    <3>1. Append(got, e) \in Seq(Nat) /\ Range(Append(got, e)) = Range(got) \cup {e}
      BY <1>2, <1>4, AppendIs
    <3> QED
      BY <1>1, <2>2, <3>1
  <2> QED
    BY <2>1, <2>2
<1>8. FrameTypes'
  <2>1. line' \in [Socks -> Seq(Nat)]
    BY <1>1, <1>3 DEF WireFrameInv, FrameTypes
  <2> QED
    BY <1>1, <1>7, <2>1 DEF WireFrameInv, FrameTypes
<1>9. AllMade'
  <2>1. {e} \ {Ask} \subseteq 1..made
    BY <1>4 DEF Ask
  <2>2. Range(got') \subseteq 1..made
    BY <1>7, <2>1 DEF WireFrameInv, AllMade
  <2> QED
    BY <1>1, <1>6, <2>2 DEF WireFrameInv, AllMade
<1>10. InOrder'
  <2>1. \A t \in Socks : Sorted(line'[t])
    BY <1>3, <1>5 DEF WireFrameInv, InOrder
  <2>2. state[s] # "connecting"
    BY <1>1 DEF WireFrameInv, InOrder
  <2>3. \A t \in Socks : state'[t] = "connecting" => line'[t] = <<>>
    BY <1>1, <1>5, <2>2 DEF WireFrameInv, InOrder
  <2> QED
    BY <1>1, <2>1, <2>3 DEF WireFrameInv, InOrder
<1>11. Apart'
  <2>1. \A t, u \in Socks : t # u => Range(line'[t]) \cap Range(line'[u]) \subseteq {Ask}
    BY <1>6 DEF WireFrameInv, Apart
  <2>2. \A t \in Socks : Range(line'[t]) \cap (Range(outbox) \cup Range(stored)) = {}
    BY <1>6 DEF WireFrameInv, Apart
  <2>3. \A t \in Socks : Range(line'[t]) \cap Range(got') = {}
    <3>1. \A t \in Socks : e # Ask => e \notin Range(line'[t])
      BY <1>3, <1>5 DEF WireFrameInv, Apart
    <3> QED
      BY <1>6, <1>7, <3>1 DEF WireFrameInv, Apart
  <2>4. Range(got') \cap (Range(outbox) \cup Range(stored)) = {}
    BY <1>3, <1>7 DEF WireFrameInv, Apart
  <2> QED
    BY <1>1, <2>1, <2>2, <2>3, <2>4 DEF Apart
<1>12. Once'
  <2>1. CASE e = Ask
    BY <1>1, <2>1 DEF WireFrameInv, Once
  <2>2. CASE e # Ask
    <3>1. /\ Len(got') = Len(got) + 1 /\ got'[Len(got) + 1] = e
          /\ \A i \in 1..Len(got) : got'[i] = got[i]
      BY <1>1, <1>2, <1>4, <2>2, AppendProperties
    <3>2. Len(got) \in Nat
      BY <1>2, LenProperties
    <3>3. \A i \in 1..Len(got) : got[i] # e
      <4>1. e \notin Range(got)
        BY <1>3 DEF WireFrameInv, Apart
      <4> QED
        BY <1>2, <4>1, RangeIs
    <3>4. \A i, j \in 1..Len(got) : i # j => got[i] # got[j]
      BY DEF WireFrameInv, Once
    <3> SUFFICES ASSUME NEW i \in 1..Len(got'), NEW j \in 1..Len(got'), i # j
                 PROVE  got'[i] # got'[j]
      BY DEF Once
    <3>5. i \in 1..Len(got) + 1 /\ j \in 1..Len(got) + 1
      BY <3>1
    <3>6. (i \in 1..Len(got) \/ i = Len(got) + 1) /\ (j \in 1..Len(got) \/ j = Len(got) + 1)
      BY <3>2, <3>5
    <3> QED
      BY <3>1, <3>3, <3>4, <3>6
  <2> QED
    BY <2>1, <2>2
<1>13. Accounted'
  <2>1. OnLine \subseteq OnLine' \cup {e}
    BY <1>3, <1>5 DEF OnLine
  <2>2. Ask \notin 1..made
    BY DEF Ask
  <2>3. NothingForgotten'
    BY <1>1, <1>7, <2>1, <2>2 DEF WireFrameInv, Accounted, NothingForgotten
  <2> QED
    BY <1>1, <2>3 DEF WireFrameInv, Accounted
<1> QED
  BY <1>8, <1>9, <1>10, <1>11, <1>12, <1>13 DEF WireFrameInv

LEMMA FrameStep == WireFrameInv /\ SocketInv /\ [WireNext]_wireVars => WireFrameInv'
<1> SUFFICES ASSUME WireFrameInv, SocketInv, [WireNext]_wireVars PROVE WireFrameInv'
  OBVIOUS
<1>1. ASSUME Kick \/ RetryFires PROVE WireFrameInv'
  <2>1. PICK armed \in BOOLEAN : Connects(state, ws, armed)
    BY <1>1 DEF Kick, RetryFires, SocketInv, SocketTypes
  <2>2. UNCHANGED <<alive, outbox, stored, line, got, made, queued, lost>>
    BY <1>1 DEF Kick, RetryFires, ledger
  <2>3. \A s \in Socks : state'[s] # state[s] => line[s] = <<>>
    BY <2>1, ConnectsSockets DEF SocketInv, SocketTypes, OneSocket
  <2> QED
    BY <2>2, <2>3, SocketsOnly
<1>2. ASSUME Reconnect PROVE WireFrameInv'
  <2> DEFINE st == IF Live(state, ws) THEN [state EXCEPT ![ws] = "closing"] ELSE state
  <2>1. Connects(st, NoSock, FALSE) /\ UNCHANGED <<alive, outbox, stored, line, got, made, queued, lost>>
    BY <1>2 DEF Reconnect, ledger
  <2>2. st \in [Socks -> States]
    BY DEF SocketInv, SocketTypes, States
  <2>3. \A s \in Socks : st[s] \notin {"connecting", "open"}
    BY SocketAssumption DEF SocketInv, SocketTypes, OneSocket, Live, States
  <2> HIDE DEF st
  <2>4. \A s \in Socks : state'[s] # st[s] => line[s] = <<>>
    BY <2>1, <2>2, <2>3, ConnectsSockets DEF SocketInv
  <2>5. \A s \in Socks : state'[s] # "connecting" \/ line[s] = <<>>
    BY <2>3, <2>4
  <2> QED
    BY <2>1, <2>5, SocketsOnly
<1>3. ASSUME AsksForChats PROVE WireFrameInv'
  <2>1. CASE IsOpen
    <3>1. /\ line' = [line EXCEPT ![ws] = Append(@, Ask)]
          /\ UNCHANGED <<alive, state, outbox, stored, made, got, queued, lost>>
      BY <1>3, <2>1 DEF AsksForChats, ledger
    <3>2. Ask \in Nat
      BY DEF Ask
    <3>3. Gets(Ask)
      BY <2>1, <3>1, <3>2 DEF Gets
    <3> QED
      BY <3>3, LineGets
  <2>2. CASE ~IsOpen
    <3>1. UNCHANGED <<alive, state, outbox, stored, made, line, got, queued, lost>>
      BY <1>3, <2>2 DEF AsksForChats, ledger
    <3> QED
      BY <3>1, SocketsOnly
  <2> QED
    BY <2>1, <2>2
<1>4. ASSUME NEW thread \in Threads, Opens(thread) PROVE WireFrameInv'
  BY <1>4, OpensFrames
<1>5. ASSUME SendNow PROVE WireFrameInv'
  <2>1. /\ IsOpen /\ made < MaxFrames /\ made' = made + 1
        /\ line' = [line EXCEPT ![ws] = Append(@, made + 1)]
        /\ UNCHANGED <<alive, state, outbox, stored, got, queued, lost>>
    BY <1>5 DEF SendNow, socket, ledger
  <2>2. made + 1 \in Nat /\ made + 1 \in 0..MaxFrames
    BY <2>1, BoundAssumption DEF WireFrameInv, FrameTypes
  <2>3. Gets(made + 1)
    BY <2>1, <2>2 DEF Gets
  <2> QED
    BY <2>3, LineGets
<1>6. ASSUME Refuse PROVE WireFrameInv'
  <2>1. /\ made < MaxFrames /\ made' = made + 1 /\ lost' = lost \cup {made + 1}
        /\ UNCHANGED <<alive, state, outbox, stored, line, got, queued>>
    BY <1>6 DEF Refuse, socket
  <2>2. /\ made \in Nat /\ made' \in 0..MaxFrames
        /\ 1..made \subseteq 1..made' /\ 0..made \subseteq 0..made' /\ made + 1 \in 1..made'
        /\ 1..made' \subseteq 1..made \cup {made + 1}
    BY <2>1, BoundAssumption DEF WireFrameInv, FrameTypes
  <2>3. FrameTypes'
    BY <2>1, <2>2 DEF WireFrameInv, FrameTypes
  <2>4. AllMade'
    BY <2>1, <2>2 DEF WireFrameInv, AllMade
  <2>5. InOrder' /\ Apart' /\ Once'
    BY <2>1 DEF WireFrameInv, InOrder, Apart, Once
  <2>6. Accounted'
    BY <2>1, <2>2 DEF WireFrameInv, Accounted, NothingForgotten, OnLine
  <2> QED
    BY <2>3, <2>4, <2>5, <2>6 DEF WireFrameInv
<1>7. ASSUME Queue \/ ClearOutbox \/ Killed \/ Starts PROVE WireFrameInv'
  BY <1>7, QueueFrames, ClearFrames, KilledFrames, StartsFrames
<1>8. ASSUME NEW s \in Socks, CloseEvent(s) PROVE WireFrameInv'
  <2>1. /\ state' = [state EXCEPT ![s] = "idle"]
        /\ UNCHANGED <<alive, outbox, stored, line, got, made, queued, lost>>
    BY <1>8 DEF CloseEvent, ledger
  <2>2. \A t \in Socks : state'[t] # state[t] => state'[t] # "connecting"
    BY <2>1 DEF SocketInv, SocketTypes
  <2> QED
    BY <2>1, <2>2, SocketsOnly
<1>9. ASSUME NEW s \in Socks, Breaks(s) \/ Receives(s) \/ ClosesOver(s) PROVE WireFrameInv'
  BY <1>9, BreaksFrames, ReceivesFrames, ClosesOverFrames
<1>10. ASSUME UNCHANGED wireVars PROVE WireFrameInv'
  <2>1. UNCHANGED <<alive, state, outbox, stored, line, got, made, queued, lost>>
    BY <1>10 DEF wireVars, socket, ledger
  <2> QED
    BY <2>1, SocketsOnly
<1> QED
  BY <1>1, <1>2, <1>3, <1>4, <1>5, <1>6, <1>7, <1>8, <1>9, <1>10 DEF WireNext

-----------------------------------------------------------------------------
(* The bounds                                                              *)

SizeInv ==
  /\ Len(outbox) <= OutboxMax /\ Len(stored) <= OutboxMax
  /\ breaks \in 0..MaxBreaks /\ crashes \in 0..MaxCrashes

LEMMA SizeInit == WireInit => SizeInv
<1> SUFFICES ASSUME WireInit PROVE SizeInv
  OBVIOUS
<1> DEFINE old == [i \in 1..Earlier |-> i]
<1>1. Len(<<>>) = 0 /\ Len(old) = Earlier
  BY BoundAssumption
<1>2. (stored = <<>> \/ stored = old) /\ outbox = <<>> /\ breaks = 0 /\ crashes = 0
  BY DEF WireInit
<1> HIDE DEF old
<1> QED
  BY <1>1, <1>2, BoundAssumption, EarlierAssumption, OutboxAssumption DEF SizeInv

LEMMA ConnectsBreaks ==
  ASSUME NEW st, NEW w, NEW armed, Connects(st, w, armed), breaks \in 0..MaxBreaks
  PROVE  breaks' \in 0..MaxBreaks
BY BoundAssumption DEF Connects, Throws, Works

LEMMA SizeStep == SizeInv /\ WireFrameInv /\ [WireNext]_wireVars => SizeInv'
<1> SUFFICES ASSUME SizeInv, WireFrameInv, [WireNext]_wireVars PROVE SizeInv'
  OBVIOUS
<1>1. ASSUME Kick \/ RetryFires \/ Reconnect PROVE SizeInv'
  <2>1. PICK st, w, armed : Connects(st, w, armed)
    BY <1>1 DEF Kick, RetryFires, Reconnect
  <2>2. breaks' \in 0..MaxBreaks
    BY <2>1, ConnectsBreaks DEF SizeInv
  <2>3. UNCHANGED <<outbox, stored, crashes>>
    BY <1>1 DEF Kick, RetryFires, Reconnect
  <2> QED
    BY <2>2, <2>3 DEF SizeInv
<1>2. ASSUME NEW thread \in Threads, Opens(thread) PROVE SizeInv'
  <2>1. /\ outbox' = <<>> /\ (stored' = stored \/ stored' = <<>>)
        /\ UNCHANGED <<breaks, crashes>>
    BY <1>2 DEF Opens, Flush, rest
  <2>2. Len(<<>>) = 0
    OBVIOUS
  <2> QED
    BY <2>1, <2>2, OutboxAssumption DEF SizeInv
<1>3. ASSUME AsksForChats \/ SendNow \/ Refuse PROVE SizeInv'
  <2>1. UNCHANGED <<outbox, stored, breaks, crashes>>
    BY <1>3 DEF AsksForChats, SendNow, Refuse, rest
  <2> QED
    BY <2>1 DEF SizeInv
<1>4. ASSUME Queue PROVE SizeInv'
  <2> DEFINE new == Append(outbox, made + 1)
  <2>1. outbox' = Capped(new) /\ Saves(outbox') /\ UNCHANGED <<breaks, crashes>>
    BY <1>4 DEF Queue, rest
  <2>2. outbox \in Seq(Nat) /\ made + 1 \in Nat /\ Len(outbox) \in Nat
    BY LenProperties DEF WireFrameInv, FrameTypes
  <2>3. new \in Seq(Nat) /\ new # <<>> /\ Len(new) = Len(outbox) + 1
    BY <2>2, AppendProperties
  <2> HIDE DEF new
  <2>4. Len(Tail(new)) = Len(new) - 1
    BY <2>3, TailIs
  <2>5. Len(outbox') <= OutboxMax
    <3>1. CASE Len(new) > OutboxMax
      BY <2>1, <2>2, <2>3, <2>4, <3>1 DEF Capped, SizeInv
    <3>2. CASE ~ (Len(new) > OutboxMax)
      BY <2>1, <2>2, <2>3, <3>2, OutboxAssumption DEF Capped
    <3> QED
      BY <3>1, <3>2
  <2>6. Len(stored') <= OutboxMax
    BY <2>1, <2>5 DEF Saves, SizeInv
  <2> QED
    BY <2>1, <2>5, <2>6 DEF SizeInv
<1>5. ASSUME ClearOutbox PROVE SizeInv'
  <2>1. outbox' = <<>> /\ stored' = <<>> /\ UNCHANGED <<breaks, crashes>>
    BY <1>5 DEF ClearOutbox, Saves, rest
  <2>2. Len(<<>>) = 0
    OBVIOUS
  <2> QED
    BY <2>1, <2>2, OutboxAssumption DEF SizeInv
<1>6. ASSUME Killed PROVE SizeInv'
  <2>1. outbox' = <<>> /\ crashes < MaxCrashes /\ crashes' = crashes + 1 /\ UNCHANGED <<stored, breaks>>
    BY <1>6 DEF Killed
  <2>2. Len(<<>>) = 0
    OBVIOUS
  <2> QED
    BY <2>1, <2>2, OutboxAssumption, BoundAssumption DEF SizeInv
<1>7. ASSUME Starts PROVE SizeInv'
  <2>1. /\ outbox' = LoadOutbox /\ stored' = LoadOutbox /\ UNCHANGED crashes
        /\ Connects(state, NoSock, FALSE)
    BY <1>7 DEF Starts
  <2>2. LoadOutbox \in Seq(Nat) /\ Len(LoadOutbox) <= Len(stored) /\ stored \in Seq(Nat)
    BY FittingIs DEF LoadOutbox, WireFrameInv, FrameTypes
  <2>3. Len(LoadOutbox) <= OutboxMax
    <3>1. Len(LoadOutbox) \in Nat /\ Len(stored) \in Nat
      BY <2>2, LenProperties
    <3> QED
      BY <2>2, <3>1, OutboxAssumption DEF SizeInv
  <2>4. breaks' \in 0..MaxBreaks
    BY <2>1, ConnectsBreaks DEF SizeInv
  <2> QED
    BY <2>1, <2>3, <2>4 DEF SizeInv
<1>8. ASSUME NEW s \in Socks, CloseEvent(s) \/ Receives(s) \/ ClosesOver(s) PROVE SizeInv'
  <2>1. UNCHANGED <<outbox, stored, breaks, crashes>>
    BY <1>8 DEF CloseEvent, Receives, ClosesOver, rest
  <2> QED
    BY <2>1 DEF SizeInv
<1>9. ASSUME NEW s \in Socks, Breaks(s) PROVE SizeInv'
  <2>1. breaks < MaxBreaks /\ breaks' = breaks + 1 /\ UNCHANGED <<outbox, stored, crashes>>
    BY <1>9 DEF Breaks
  <2> QED
    BY <2>1, BoundAssumption DEF SizeInv
<1>10. ASSUME UNCHANGED wireVars PROVE SizeInv'
  BY <1>10 DEF wireVars, rest, SizeInv
<1> QED
  BY <1>1, <1>2, <1>3, <1>4, <1>5, <1>6, <1>7, <1>8, <1>9, <1>10 DEF WireNext

-----------------------------------------------------------------------------
(* The theorems                                                            *)

IInv == SocketInv /\ WireFrameInv /\ SizeInv

LEMMA WireInvariant == WireSpec => []IInv
<1>1. WireInit => IInv
  BY SocketInit, WireFrameInit, SizeInit DEF IInv
<1>2. IInv /\ [WireNext]_wireVars => IInv'
  BY SocketStep, FrameStep, SizeStep DEF IInv
<1> QED
  BY <1>1, <1>2, PTL DEF WireSpec

\* Every reachable state of the phone's side of the link is a correct one: the
\* outbox keeps to its cap in memory and in localStorage.
THEOREM WireTypeCorrect == WireSpec => []WireTypeOK
<1>1. IInv => WireTypeOK
  <2> SUFFICES ASSUME IInv PROVE WireTypeOK
    OBVIOUS
  <2>1. /\ outbox \in Seq(Nat) /\ stored \in Seq(Nat) /\ got \in Seq(Nat)
        /\ line \in [Socks -> Seq(Nat)] /\ made \in 0..MaxFrames
        /\ queued \subseteq 1..made /\ lost \subseteq 1..made
        /\ Range(outbox) \cup Range(stored) \cup Range(got) \subseteq 1..made
        /\ \A s \in Socks : Range(line[s]) \subseteq 0..made
    BY DEF IInv, WireFrameInv, FrameTypes, AllMade
  <2>2. 1..made \subseteq Sends /\ 0..made \subseteq Sends \cup {Ask}
    BY <2>1, BoundAssumption DEF Sends, Ask
  <2>3. outbox \in Seq(Sends) /\ stored \in Seq(Sends) /\ got \in Seq(Sends)
    <3>1. Range(outbox) \subseteq Sends /\ Range(stored) \subseteq Sends /\ Range(got) \subseteq Sends
      BY <2>1, <2>2
    <3> QED
      BY <2>1, <3>1, InSeq
  <2>4. line \in [Socks -> Seq(Sends \cup {Ask})]
    <3>1. ASSUME NEW s \in Socks PROVE line[s] \in Seq(Sends \cup {Ask})
      <4>1. line[s] \in Seq(Nat) /\ Range(line[s]) \subseteq Sends \cup {Ask}
        BY <2>1, <2>2
      <4> QED
        BY <4>1, InSeq
    <3> QED
      BY <2>1, <3>1
  <2>5. queued \subseteq Sends /\ lost \subseteq Sends
    BY <2>1, <2>2
  <2>6. muted \subseteq Socks
    BY DEF IInv, SocketInv
  <2> QED
    BY <2>1, <2>3, <2>4, <2>5, <2>6 DEF IInv, SocketInv, SocketTypes, SizeInv, States, WireTypeOK
<1> QED
  BY <1>1, WireInvariant, PTL

\* Whatever kicks, retry timers, new addresses and close events there are, only
\* the current socket is up or being dialled (connect, Wire.reconnect).
THEOREM OneSocketInvariant == WireSpec => []OneSocket
<1>1. IInv => OneSocket
  BY DEF IInv, SocketInv
<1> QED
  BY <1>1, WireInvariant, PTL

\* An app that runs without a connection has something that will dial: the retry
\* timer, or the close event of a socket that was not muted (onclose,
\* scheduleReconnect).
THEOREM NeverStrandedInvariant == WireSpec => []NeverStranded
<1>1. IInv => NeverStranded
  BY DEF IInv, SocketInv
<1> QED
  BY <1>1, WireInvariant, PTL

\* On every connection the frames go out in the order they were made, those of
\* an outbox from before a kill included; only a mark-read, which the status
\* listener sends first, may be ahead of older ones (onopen, onStatus,
\* flushOutbox, loadOutbox, send).
THEOREM OlderGoesFirstInvariant == WireSpec => []OlderGoesFirst
<1>1. IInv => OlderGoesFirst
  <2> SUFFICES ASSUME IInv, NEW s \in Socks, NEW i \in DOMAIN line[s], NEW j \in DOMAIN line[s],
                      i < j, line[s][i] \notin Marks \cup {Ask}, line[s][j] # Ask
               PROVE  line[s][i] < line[s][j]
    BY DEF OlderGoesFirst
  <2>1. line[s] \in Seq(Nat) /\ Sorted(line[s])
    BY DEF IInv, WireFrameInv, FrameTypes, InOrder
  <2>2. DOMAIN line[s] = 1..Len(line[s])
    BY <2>1, LenProperties
  <2>3. i \in 1..Len(line[s]) /\ j \in 1..Len(line[s]) /\ line[s][i] # Ask /\ line[s][j] # Ask
    BY <2>2
  <2> QED
    BY <2>1, <2>3 DEF Sorted, Follows
<1> QED
  BY <1>1, WireInvariant, PTL

\* The daemon receives no frame twice, however often the app is killed between
\* the save of its outbox and the sends (flushOutbox, loadOutbox).
THEOREM NothingTwiceInvariant == WireSpec => []NothingTwice
<1>1. IInv => NothingTwice
  <2> SUFFICES ASSUME IInv PROVE NothingTwice
    OBVIOUS
  <2>1. got \in Seq(Nat) /\ Once
    BY DEF IInv, WireFrameInv, FrameTypes
  <2>2. DOMAIN got = 1..Len(got)
    BY <2>1, LenProperties
  <2> QED
    BY <2>1, <2>2 DEF Once, NothingTwice
<1> QED
  BY <1>1, WireInvariant, PTL

\* Every send is waiting, under way, received, or given up in one of the ways
\* that may lose a frame (saveOutbox, flushOutbox, send, loadOutbox).
THEOREM NothingForgottenInvariant == WireSpec => []NothingForgotten
<1>1. IInv => NothingForgotten
  BY DEF IInv, WireFrameInv, Accounted
<1> QED
  BY <1>1, WireInvariant, PTL

-----------------------------------------------------------------------------
(* Hub: the daemon's end of the link                                       *)

USE QueueCapAssumption, MaxPushAssumption, ProcAssumption

(***************************************************************************)
(* Frames that go down a channel are frames.  A goroutine that is between  *)
(* the beginning and the end of a Push has pushed at least once; one that  *)
(* is making room is doing so in some connection's queue; a connection's   *)
(* writeLoop is not running before the connection is adopted.              *)
(***************************************************************************)
PushStarted == \A p \in Procs : stage[p] # "idle" => count[p] > 0
RoomIsSomewhere ==
  \A p \in Procs : stage[p] \in {"drop", "retry"} => target[p] \in Conns

WriterAfterAdopt == \A c \in Conns : reader[c] = "none" => writer[c] = "none"

TypeInv == TypeOK /\ PushStarted /\ RoomIsSomewhere /\ WriterAfterAdopt

LEMMA PushingIsFrame ==
  ASSUME TypeInv, NEW p \in Procs, stage[p] # "idle"
  PROVE  Pushing(p) \in Frame
BY DEF TypeInv, TypeOK, PushStarted, Pushing, Frame

LEMMA EnqueuedType ==
  ASSUME TypeInv, NEW p \in Procs, stage[p] # "idle", NEW c \in Conns, HasRoom(c)
  PROVE  /\ Enqueued(p, c) \in [Conns -> Seq(Frame)]
         /\ \A d \in Conns : Len(Enqueued(p, c)[d]) <= QueueCap
<1>1. Pushing(p) \in Frame
  BY PushingIsFrame
<1>2. QED
  BY <1>1 DEF TypeInv, TypeOK, Enqueued, HasRoom

LEMMA WithoutOldestType ==
  ASSUME TypeInv, NEW c \in Conns
  PROVE  /\ WithoutOldest(c) \in [Conns -> Seq(Frame)]
         /\ \A d \in Conns : Len(WithoutOldest(c)[d]) <= QueueCap
BY DEF TypeInv, TypeOK, WithoutOldest

LEMMA TypeInit == Init => TypeInv
BY DEF Init, TypeInv, TypeOK, PushStarted, RoomIsSomewhere, WriterAfterAdopt, Procs, Stages

LEMMA TypeConn ==
  ASSUME TypeInv, NEW c \in Conns,
         Adopt(c) \/ ReadFrame(c) \/ HandlerReturns(c) \/ ReadError(c)
  PROVE  TypeInv'
<1> USE DEF TypeInv, TypeOK, PushStarted, RoomIsSomewhere, WriterAfterAdopt,
            pushVars, writeVars, history
<1>1. CASE Adopt(c)
  BY <1>1 DEF Adopt
<1>2. CASE ReadFrame(c)
  BY <1>2 DEF ReadFrame
<1>3. CASE HandlerReturns(c)
  BY <1>3 DEF HandlerReturns
<1>4. CASE ReadError(c)
  BY <1>4 DEF ReadError
<1>5. QED
  BY <1>1, <1>2, <1>3, <1>4

LEMMA TypeWriter ==
  ASSUME TypeInv, NEW c \in Conns,
         WriterTakes(c) \/ WriterSends(c) \/ WriterExits(c) \/ WriteFails(c)
  PROVE  TypeInv'
<1>1. CASE WriterTakes(c)
  BY <1>1 DEF TypeInv, TypeOK, PushStarted, RoomIsSomewhere, WriterAfterAdopt, WriterTakes,
              connVars, pushVars, history
<1>2. CASE WriterSends(c)
  BY <1>2 DEF TypeInv, TypeOK, PushStarted, RoomIsSomewhere, WriterAfterAdopt, WriterSends,
              connVars, pushVars, history
<1>3. CASE WriterExits(c) \/ WriteFails(c)
  <2>1. WriterEnds(c) /\ writer[c] = "running"
    BY <1>3 DEF WriterExits, WriteFails
  <2>2. hand' \in [Conns -> Seq(Frame)] /\ \A d \in Conns : Len(hand'[d]) <= 1
    BY <2>1 DEF WriterEnds, TypeInv, TypeOK
  <2>3. QED
    BY <2>1, <2>2 DEF TypeInv, TypeOK, PushStarted, RoomIsSomewhere, WriterAfterAdopt, WriterEnds,
       connVars, pushVars, history
<1>4. QED
  BY <1>1, <1>2, <1>3

LEMMA TypePush ==
  ASSUME TypeInv, NEW p \in Procs, BeginPush(p) \/ PushStep(p)
  PROVE  TypeInv'
<1>1. CASE BeginPush(p)
  BY <1>1 DEF TypeInv, TypeOK, PushStarted, RoomIsSomewhere, WriterAfterAdopt, BeginPush, Stages,
              connVars, writeVars, history
<1>2. CASE DropOldest(p)
  BY <1>2, WithoutOldestType DEF TypeInv, TypeOK, PushStarted, RoomIsSomewhere, WriterAfterAdopt,
     DropOldest, Stages, connVars, writeVars, history
<1>3. CASE Retry(p)
  <2>1. target[p] \in Conns /\ stage[p] # "idle"
    BY <1>3 DEF TypeInv, RoomIsSomewhere, Retry
  <2>2. Pushing(p) \in Frame
    BY <2>1, PushingIsFrame
  <2>3. queue' \in [Conns -> Seq(Frame)] /\ \A d \in Conns : Len(queue'[d]) <= QueueCap
    BY <1>3, <2>1, EnqueuedType DEF Retry, TypeInv, TypeOK
  <2>4. QED
    BY <1>3, <2>1, <2>2, <2>3 DEF TypeInv, TypeOK, PushStarted, RoomIsSomewhere, WriterAfterAdopt,
       Retry, Served, Stages, connVars, writeVars
<1>4. CASE EndPush(p)
  BY <1>4 DEF TypeInv, TypeOK, PushStarted, RoomIsSomewhere, WriterAfterAdopt, EndPush, Stages,
              connVars, writeVars, history
<1>5. CASE Notify(p)
  <2>1. Pushing(p) \in Frame
    BY <1>5, PushingIsFrame DEF Notify
  <2>2. QED
    BY <1>5, <2>1 DEF TypeInv, TypeOK, PushStarted, RoomIsSomewhere, WriterAfterAdopt, Notify, Stages,
                connVars, writeVars, history
<1>6. ASSUME NEW c \in Conns, TrySend(p, c) PROVE TypeInv'
  <2>1. Pushing(p) \in Frame
    BY <1>6, PushingIsFrame DEF TrySend
  <2>2. queue' \in [Conns -> Seq(Frame)] /\ \A d \in Conns : Len(queue'[d]) <= QueueCap
    BY <1>6, EnqueuedType DEF TrySend
  <2>3. QED
    BY <1>6, <2>1, <2>2 DEF TypeInv, TypeOK, PushStarted, RoomIsSomewhere, WriterAfterAdopt, TrySend,
       Served, Stages, connVars, writeVars
<1>7. ASSUME NEW c \in Conns, FoundFull(p, c) PROVE TypeInv'
  BY <1>7 DEF TypeInv, TypeOK, PushStarted, RoomIsSomewhere, WriterAfterAdopt, FoundFull, Stages,
              connVars, writeVars, history
<1>8. QED
  BY <1>1, <1>2, <1>3, <1>4, <1>5, <1>6, <1>7 DEF PushStep

LEMMA TypeStep == TypeInv /\ [Next]_vars => TypeInv'
<1> SUFFICES ASSUME TypeInv, [Next]_vars PROVE TypeInv'
  OBVIOUS
<1>1. CASE UNCHANGED vars
  BY <1>1 DEF TypeInv, TypeOK, PushStarted, RoomIsSomewhere, WriterAfterAdopt, vars, connVars, pushVars,
              writeVars, history
<1>2. CASE Next
  BY <1>2, TypeConn, TypeWriter, TypePush DEF Next
<1>3. QED
  BY <1>1, <1>2

\* No queue ever holds more frames than its channel has room for, and every
\* loop, push and history variable stays in its range.
THEOREM TypeCorrect == Spec => []TypeOK
<1>1. TypeInv => TypeOK
  BY DEF TypeInv
<1>2. QED
  BY TypeInit, TypeStep, <1>1, PTL DEF Spec

LEMMA TypeInvariance == Spec => []TypeInv
BY TypeInit, TypeStep, PTL DEF Spec

-----------------------------------------------------------------------------
\* Hub.clients never holds a connection nobody reads: adopt and the end of the
\* readLoop are the only steps that change it.
THEOREM AttachedIsReadInvariant == Spec => []AttachedIsRead
<1>1. Init => AttachedIsRead
  BY DEF Init, AttachedIsRead, Attached
<1>2. TypeInv /\ AttachedIsRead /\ [Next]_vars => AttachedIsRead'
  <2> SUFFICES ASSUME TypeInv, AttachedIsRead, [Next]_vars PROVE AttachedIsRead'
    OBVIOUS
  <2> USE DEF AttachedIsRead, Attached, TypeInv, TypeOK
  <2>1. ASSUME NEW c \in Conns, Adopt(c) \/ ReadFrame(c) \/ HandlerReturns(c) \/ ReadError(c)
        PROVE  AttachedIsRead'
    BY <2>1 DEF Adopt, ReadFrame, HandlerReturns, ReadError
  <2>2. CASE UNCHANGED connVars
    BY <2>2 DEF connVars
  <2>3. ASSUME NEW c \in Conns,
               WriterTakes(c) \/ WriterSends(c) \/ WriterExits(c) \/ WriteFails(c)
        PROVE  UNCHANGED connVars
    BY <2>3 DEF WriterTakes, WriterSends, WriterExits, WriteFails, WriterEnds
  <2>4. ASSUME NEW p \in Procs, BeginPush(p) \/ PushStep(p)
        PROVE  UNCHANGED connVars
    BY <2>4 DEF BeginPush, PushStep, DropOldest, Retry, EndPush, Notify, TrySend, FoundFull
  <2>5. QED
    BY <2>1, <2>2, <2>3, <2>4 DEF Next, vars
<1>3. QED
  BY <1>1, <1>2, TypeInvariance, PTL DEF Spec

-----------------------------------------------------------------------------
(***************************************************************************)
(* Frames and their order in a sequence some of whose elements are gone:   *)
(* t keeps the elements of s at the increasing places f.                   *)
(***************************************************************************)
Thinned(s, t, f) ==
  /\ f \in [1..Len(t) -> 1..Len(s)]
  /\ \A i, j \in 1..Len(t) : i < j => f[i] < f[j]
  /\ \A i \in 1..Len(t) : t[i] = s[f[i]]

LEMMA ThinnedFrames ==
  ASSUME NEW s \in Seq(Frame), NEW t \in Seq(Frame), NEW f, Thinned(s, t, f)
  PROVE  /\ FramesIn(t) \subseteq FramesIn(s)
         /\ InPushOrder(s) => InPushOrder(t)
<1>1. FramesIn(t) \subseteq FramesIn(s)
  BY DEF Thinned, FramesIn
<1>2. ASSUME InPushOrder(s), NEW i \in 1..Len(t), NEW j \in 1..Len(t), i < j, t[i].by = t[j].by
      PROVE  t[i].n < t[j].n
  <2>1. f[i] \in 1..Len(s) /\ f[j] \in 1..Len(s) /\ f[i] < f[j]
    BY <1>2 DEF Thinned
  <2>2. t[i] = s[f[i]] /\ t[j] = s[f[j]]
    BY DEF Thinned
  <2>3. QED
    BY <1>2, <2>1, <2>2 DEF InPushOrder
<1>3. QED
  BY <1>1, <1>2 DEF InPushOrder

LEMMA HeadMovesForward ==
  ASSUME NEW a \in Seq(Frame), NEW q \in Seq(Frame), q # <<>>
  PROVE  (a \o <<Head(q)>>) \o Tail(q) = a \o q
<1>1. <<Head(q)>> \in Seq(Frame) /\ Tail(q) \in Seq(Frame)
  BY HeadTailProperties
<1>2. <<Head(q)>> \o Tail(q) = q
  OBVIOUS
<1>3. (a \o <<Head(q)>>) \o Tail(q) = a \o (<<Head(q)>> \o Tail(q))
  BY <1>1, ConcatAssociative
<1>4. QED
  BY <1>2, <1>3

LEMMA WithoutFirstOfLast ==
  ASSUME NEW a \in Seq(Frame), NEW q \in Seq(Frame), q # <<>>
  PROVE  /\ FramesIn(a \o Tail(q)) \subseteq FramesIn(a \o q)
         /\ InPushOrder(a \o q) => InPushOrder(a \o Tail(q))
<1> DEFINE t == a \o Tail(q)
           s == a \o q
           f == [i \in 1..Len(t) |-> IF i <= Len(a) THEN i ELSE i + 1]
<1>1. s \in Seq(Frame) /\ t \in Seq(Frame)
  BY HeadTailProperties, ConcatProperties
<1>2. Len(s) = Len(a) + Len(q) /\ Len(t) = Len(a) + Len(q) - 1 /\ Len(a) \in Nat /\ Len(q) \in Nat
  BY HeadTailProperties, ConcatProperties, LenProperties
<1>3. \A i \in 1..Len(t) : t[i] = s[f[i]]
  BY <1>2, HeadTailProperties, ConcatProperties
<1>4. Thinned(s, t, f)
  BY <1>2, <1>3 DEF Thinned
<1>5. QED
  BY <1>1, <1>4, ThinnedFrames

LEMMA WithoutMiddle ==
  ASSUME NEW a \in Seq(Frame), NEW h \in Seq(Frame), NEW q \in Seq(Frame)
  PROVE  /\ FramesIn(a \o <<>> \o q) \subseteq FramesIn(a \o h \o q)
         /\ InPushOrder(a \o h \o q) => InPushOrder(a \o <<>> \o q)
<1> DEFINE t == a \o <<>> \o q
           s == a \o h \o q
           f == [i \in 1..Len(t) |-> IF i <= Len(a) THEN i ELSE i + Len(h)]
<1>1. a \o h \in Seq(Frame) /\ a \o <<>> = a
  BY ConcatProperties, ConcatEmptySeq
<1>2. s \in Seq(Frame) /\ t \in Seq(Frame)
  BY <1>1, ConcatProperties
<1>3. /\ Len(a) \in Nat /\ Len(h) \in Nat /\ Len(q) \in Nat
      /\ Len(a \o h) = Len(a) + Len(h)
      /\ Len(s) = Len(a) + Len(h) + Len(q) /\ Len(t) = Len(a) + Len(q)
  BY <1>1, ConcatProperties, LenProperties
<1>4. ASSUME NEW i \in 1..Len(t) PROVE t[i] = s[f[i]]
  <2>1. CASE i <= Len(a)
    <3>1. t[i] = a[i]
      BY <1>1, <1>3, <2>1, ConcatProperties
    <3>2. s[i] = (a \o h)[i] /\ (a \o h)[i] = a[i]
      BY <1>1, <1>3, <2>1, ConcatProperties
    <3>3. QED
      BY <2>1, <3>1, <3>2
  <2>2. CASE i > Len(a)
    <3>1. t[i] = q[i - Len(a)]
      BY <1>1, <1>3, <2>2, ConcatProperties
    <3>2. s[i + Len(h)] = q[i + Len(h) - Len(a \o h)]
      BY <1>1, <1>3, <2>2, ConcatProperties
    <3>3. i + Len(h) - Len(a \o h) = i - Len(a)
      BY <1>3
    <3>4. QED
      BY <2>2, <3>1, <3>2, <3>3, <1>3
  <2>3. QED
    BY <2>1, <2>2, <1>3
<1>5. Thinned(s, t, f)
  BY <1>3, <1>4 DEF Thinned
<1>6. QED
  BY <1>2, <1>5, ThinnedFrames

LEMMA AppendedFrame ==
  ASSUME NEW a \in Seq(Frame), NEW q \in Seq(Frame), NEW x \in Frame
  PROVE  /\ a \o Append(q, x) = Append(a \o q, x)
         /\ FramesIn(a \o Append(q, x)) = FramesIn(a \o q) \cup {x}
         /\ InPushOrder(a \o q)
              /\ (\A y \in FramesIn(a \o q) : y.by = x.by => y.n < x.n)
            => InPushOrder(a \o Append(q, x))
<1> DEFINE s == a \o q
<1>1. s \in Seq(Frame) /\ <<x>> \in Seq(Frame)
  BY ConcatProperties
<1>2. a \o Append(q, x) = Append(s, x)
  BY <1>1, AppendIsConcat, ConcatAssociative
<1>3. /\ Len(Append(s, x)) = Len(s) + 1 /\ Len(s) \in Nat
      /\ \A i \in 1..Len(s) : Append(s, x)[i] = s[i]
      /\ Append(s, x)[Len(s) + 1] = x
  BY <1>1, AppendProperties, LenProperties
<1>4. FramesIn(Append(s, x)) = FramesIn(s) \cup {x}
  <2>1. FramesIn(Append(s, x)) \subseteq FramesIn(s) \cup {x}
    BY <1>3 DEF FramesIn
  <2>2. ASSUME NEW y \in FramesIn(s) PROVE y \in FramesIn(Append(s, x))
    <3>1. PICK i \in 1..Len(s) : y = s[i]
      BY DEF FramesIn
    <3>2. i \in 1..Len(Append(s, x)) /\ Append(s, x)[i] = y
      BY <3>1, <1>3
    <3>3. QED
      BY <3>2 DEF FramesIn
  <2>3. x \in FramesIn(Append(s, x))
    <3>1. Len(s) + 1 \in 1..Len(Append(s, x))
      BY <1>3
    <3>2. QED
      BY <3>1, <1>3 DEF FramesIn
  <2>4. QED
    BY <2>1, <2>2, <2>3
<1>5. ASSUME InPushOrder(s), \A y \in FramesIn(s) : y.by = x.by => y.n < x.n
      PROVE  InPushOrder(Append(s, x))
  <2>1. \A i \in 1..Len(s) : s[i] \in FramesIn(s)
    BY DEF FramesIn
  <2>2. \A i \in 1..Len(s) : s[i].by = x.by => s[i].n < x.n
    BY <1>5, <2>1
  <2>3. ASSUME NEW i \in 1..(Len(s) + 1), NEW j \in 1..(Len(s) + 1), i < j,
               Append(s, x)[i].by = Append(s, x)[j].by
        PROVE  Append(s, x)[i].n < Append(s, x)[j].n
    <3>1. i \in 1..Len(s) /\ Append(s, x)[i] = s[i]
      BY <1>3, <2>3
    <3>2. CASE j \in 1..Len(s)
      BY <3>1, <3>2, <1>3, <1>5, <2>3 DEF InPushOrder
    <3>3. CASE j = Len(s) + 1
      <4>1. Append(s, x)[j] = x
        BY <3>3, <1>3
      <4>2. s[i].by = x.by
        BY <4>1, <3>1, <2>3
      <4>3. QED
        BY <4>1, <4>2, <3>1, <2>2
    <3>4. j \in 1..Len(s) \/ j = Len(s) + 1
      BY <1>3
    <3>5. QED
      BY <3>2, <3>3, <3>4
  <2>4. QED
    BY <1>3, <2>3 DEF InPushOrder
<1>6. QED
  BY <1>2, <1>4, <1>5

-----------------------------------------------------------------------------
(***************************************************************************)
(* What p has pushed is numbered up to count[p], and the frame of the Push *)
(* in progress is in no pipeline p has not served yet; room is made only   *)
(* in a queue of the snapshot, and only after it was found full.           *)
(***************************************************************************)
SnapshotOnlyInPush ==
  /\ \A p \in Procs : stage[p] \in {"idle", "notify"} => todo[p] = {}
  /\ \A p \in Procs : stage[p] \in {"drop", "retry"} =>
       target[p] \in todo[p] /\ target[p] \in overflowed

Numbered(c) ==
  \A x \in FramesIn(Pipeline(c)) :
    x.n <= count[x.by] /\ (c \in todo[x.by] => x.n < count[x.by])

Complete(c) ==
  writer[c] # "done" /\ c \notin overflowed => offered[c] \subseteq FramesIn(Pipeline(c))

FrameInvAt(c) == Numbered(c) /\ Complete(c) /\ InPushOrder(Pipeline(c))

FrameInv == SnapshotOnlyInPush /\ \A c \in Conns : FrameInvAt(c)

LEMMA PipelineType ==
  ASSUME TypeInv, NEW c \in Conns
  PROVE  /\ sent[c] \in Seq(Frame) /\ hand[c] \in Seq(Frame) /\ queue[c] \in Seq(Frame)
         /\ sent[c] \o hand[c] \in Seq(Frame)
         /\ Pipeline(c) \in Seq(Frame)
         /\ FramesIn(Pipeline(c)) \subseteq Frame
<1>1. sent[c] \in Seq(Frame) /\ hand[c] \in Seq(Frame) /\ queue[c] \in Seq(Frame)
  BY DEF TypeInv, TypeOK
<1>2. sent[c] \o hand[c] \in Seq(Frame) /\ Pipeline(c) \in Seq(Frame)
  BY <1>1, ConcatProperties DEF Pipeline
<1>3. QED
  BY <1>1, <1>2 DEF FramesIn

\* A step that leaves the pushes and the history alone and takes frames out of
\* c's pipeline at most, letting a live writer lose none of them.
LEMMA FrameInvShrink ==
  ASSUME NEW c \in Conns, FrameInvAt(c),
         UNCHANGED <<pushVars, history>>,
         FramesIn(Pipeline(c))' \subseteq FramesIn(Pipeline(c)),
         InPushOrder(Pipeline(c)) => InPushOrder(Pipeline(c))',
         writer'[c] # "done" => writer[c] # "done" /\ Pipeline(c)' = Pipeline(c)
  PROVE  FrameInvAt(c)'
BY DEF FrameInvAt, Numbered, Complete, pushVars, history

LEMMA FrameInit == Init => FrameInv
<1> SUFFICES ASSUME Init PROVE FrameInv
  OBVIOUS
<1>1. SnapshotOnlyInPush
  BY DEF Init, SnapshotOnlyInPush
<1>2. ASSUME NEW c \in Conns PROVE FrameInvAt(c)
  <2>1. Pipeline(c) = <<>>
    BY DEF Init, Pipeline
  <2>2. QED
    BY <2>1 DEF Init, FrameInvAt, Numbered, Complete, FramesIn, InPushOrder
<1>3. QED
  BY <1>1, <1>2 DEF FrameInv

LEMMA FrameConn ==
  ASSUME TypeInv, FrameInv, NEW c \in Conns,
         Adopt(c) \/ ReadFrame(c) \/ HandlerReturns(c) \/ ReadError(c)
  PROVE  FrameInv'
<1>1. UNCHANGED <<pushVars, history, sent, hand, queue>>
  BY DEF Adopt, ReadFrame, HandlerReturns, ReadError, writeVars
<1>2. SnapshotOnlyInPush'
  BY <1>1 DEF FrameInv, SnapshotOnlyInPush, pushVars, history
<1>3. ASSUME NEW d \in Conns PROVE FrameInvAt(d)'
  <2>1. Pipeline(d)' = Pipeline(d)
    BY <1>1 DEF Pipeline
  <2>2. writer'[d] # "done" => writer[d] # "done"
    BY DEF Adopt, ReadFrame, HandlerReturns, ReadError, writeVars, TypeInv, TypeOK, WriterAfterAdopt
  <2>3. FrameInvAt(d)
    BY DEF FrameInv
  <2>4. QED
    BY <1>1, <2>1, <2>2, <2>3 DEF FrameInvAt, Numbered, Complete, pushVars, history
<1>4. QED
  BY <1>2, <1>3 DEF FrameInv

LEMMA FrameWriter ==
  ASSUME TypeInv, FrameInv, NEW c \in Conns,
         WriterTakes(c) \/ WriterSends(c) \/ WriterExits(c) \/ WriteFails(c)
  PROVE  FrameInv'
<1>1. UNCHANGED <<pushVars, history>>
  BY DEF WriterTakes, WriterSends, WriterExits, WriteFails, WriterEnds
<1>2. SnapshotOnlyInPush'
  BY <1>1 DEF FrameInv, SnapshotOnlyInPush, pushVars, history
<1>3. ASSUME NEW d \in Conns, d # c PROVE FrameInvAt(d)'
  <2>1. Pipeline(d)' = Pipeline(d) /\ writer'[d] = writer[d]
    BY <1>3 DEF Pipeline, WriterTakes, WriterSends, WriterExits, WriteFails, WriterEnds,
                TypeInv, TypeOK
  <2>2. FrameInvAt(d)
    BY DEF FrameInv
  <2>3. QED
    BY <1>1, <2>1, <2>2 DEF FrameInvAt, Numbered, Complete, pushVars, history
<1>4. FrameInvAt(c)'
  <2> DEFINE s == sent[c]  h == hand[c]  q == queue[c]
  <2>1. s \in Seq(Frame) /\ h \in Seq(Frame) /\ q \in Seq(Frame) /\ s \o h \in Seq(Frame)
    BY PipelineType
  <2>2. FrameInvAt(c)
    BY DEF FrameInv
  <2>3. CASE WriterTakes(c)
    <3>1. /\ h = <<>> /\ q # <<>> /\ sent'[c] = s /\ writer'[c] = writer[c]
          /\ hand'[c] = <<Head(q)>> /\ queue'[c] = Tail(q)
      BY <2>3 DEF WriterTakes, TypeInv, TypeOK
    <3>2. <<Head(q)>> \in Seq(Frame) /\ Tail(q) \in Seq(Frame) /\ <<Head(q)>> \o Tail(q) = q
      BY <3>1, <2>1
    <3>3. (s \o <<Head(q)>>) \o Tail(q) = s \o q
      BY <3>1, <2>1, HeadMovesForward
    <3>4. s \o <<>> = s
      BY <2>1, ConcatEmptySeq
    <3>5. Pipeline(c)' = Pipeline(c)
      BY <3>1, <3>3, <3>4 DEF Pipeline
    <3>6. QED
      BY <3>1, <3>5, <2>2, <1>1 DEF FrameInvAt, Numbered, Complete, pushVars, history
  <2>4. CASE WriterSends(c)
    <3>1. sent'[c] = s \o h /\ hand'[c] = <<>> /\ queue'[c] = q /\ writer'[c] = writer[c]
      BY <2>4 DEF WriterSends, TypeInv, TypeOK
    <3>2. (s \o h) \o <<>> = s \o h
      BY <2>1, ConcatEmptySeq
    <3>3. Pipeline(c)' = Pipeline(c)
      BY <3>1, <3>2 DEF Pipeline
    <3>4. QED
      BY <3>1, <3>3, <2>2, <1>1 DEF FrameInvAt, Numbered, Complete, pushVars, history
  <2>5. CASE WriterExits(c) \/ WriteFails(c)
    <3>1. sent'[c] = s /\ hand'[c] = <<>> /\ queue'[c] = q /\ writer'[c] = "done"
      BY <2>5 DEF WriterExits, WriteFails, WriterEnds, TypeInv, TypeOK
    <3>2. /\ FramesIn(Pipeline(c))' \subseteq FramesIn(Pipeline(c))
          /\ InPushOrder(Pipeline(c)) => InPushOrder(Pipeline(c))'
      BY <3>1, <2>1, WithoutMiddle DEF Pipeline
    <3>3. QED
      BY <3>1, <3>2, <2>2, <1>1, FrameInvShrink
  <2>6. QED
    BY <2>3, <2>4, <2>5
<1>5. QED
  BY <1>2, <1>3, <1>4 DEF FrameInv

\* A channel that takes the frame p is pushing keeps its pipeline in order.
LEMMA FrameEnqueue ==
  ASSUME TypeInv, FrameInv, NEW p \in Procs, NEW c \in Conns, c \in todo[p],
         stage[p] # "idle", queue' = Enqueued(p, c), Served(p, c),
         UNCHANGED <<connVars, count, writeVars, overflowed>>
  PROVE  FrameInvAt(c)'
<1> DEFINE x == Pushing(p)
<1>1. x \in Frame /\ x.by = p /\ x.n = count[p]
  BY PushingIsFrame DEF Pushing
<1>2. FrameInvAt(c) /\ Pipeline(c) \in Seq(Frame) /\ FramesIn(Pipeline(c)) \subseteq Frame
  BY PipelineType DEF FrameInv
<1>3. sent'[c] = sent[c] /\ hand'[c] = hand[c] /\ queue'[c] = Append(queue[c], x)
  BY DEF writeVars, Enqueued, TypeInv, TypeOK
<1>4. Pipeline(c)' = (sent[c] \o hand[c]) \o Append(queue[c], x)
  BY <1>3 DEF Pipeline
<1>5. \A y \in FramesIn(Pipeline(c)) : y.by = x.by => y.n < x.n
  BY <1>1, <1>2 DEF FrameInvAt, Numbered
<1>6. FramesIn(Pipeline(c)') = FramesIn(Pipeline(c)) \cup {x} /\ InPushOrder(Pipeline(c)')
  <2> DEFINE a == sent[c] \o hand[c]
  <2>1. a \in Seq(Frame) /\ queue[c] \in Seq(Frame) /\ Pipeline(c) = a \o queue[c]
    BY PipelineType DEF Pipeline
  <2>2. InPushOrder(a \o queue[c]) /\ \A y \in FramesIn(a \o queue[c]) : y.by = x.by => y.n < x.n
    BY <1>2, <1>5, <2>1 DEF FrameInvAt
  <2> HIDE DEF a, x
  <2>3. /\ FramesIn(a \o Append(queue[c], x)) = FramesIn(a \o queue[c]) \cup {x}
        /\ InPushOrder(a \o Append(queue[c], x))
    BY <1>1, <2>1, <2>2, AppendedFrame
  <2>4. QED
    BY <1>4, <2>1, <2>3 DEF a
<1>7. /\ offered'[c] = offered[c] \cup {x} /\ count' = count
      /\ \A r \in Procs : todo'[r] = IF r = p THEN todo[r] \ {c} ELSE todo[r]
      /\ writer' = writer /\ overflowed' = overflowed
  BY DEF Served, writeVars, TypeInv, TypeOK
<1>8. Numbered(c)'
  <2> SUFFICES ASSUME NEW y \in FramesIn(Pipeline(c)')
               PROVE  y.n <= count[y.by] /\ (c \in todo'[y.by] => y.n < count[y.by])
    BY <1>7 DEF Numbered
  <2>1. CASE y = x
    <3>1. c \notin todo'[p]
      BY <1>7
    <3>2. y.by = p /\ y.n = count[p] /\ count[p] \in Nat
      BY <2>1, <1>1 DEF TypeInv, TypeOK
    <3>3. QED
      BY <3>1, <3>2
  <2>2. CASE y \in FramesIn(Pipeline(c))
    <3>1. y.by \in Procs /\ y.n <= count[y.by] /\ (c \in todo[y.by] => y.n < count[y.by])
      BY <2>2, <1>2 DEF FrameInvAt, Numbered, Frame
    <3>2. QED
      BY <3>1, <1>7
  <2>3. QED
    BY <2>1, <2>2, <1>6
<1>9. Complete(c)'
  BY <1>2, <1>6, <1>7 DEF FrameInvAt, Complete
<1>10. QED
  BY <1>6, <1>8, <1>9 DEF FrameInvAt

LEMMA FramePushElsewhere ==
  ASSUME FrameInv, TypeInv, NEW p \in Procs, NEW c \in Conns, NEW d \in Conns, d # c,
         Served(p, c), UNCHANGED <<count, writeVars, overflowed>>,
         queue' \in [Conns -> Seq(Frame)], queue'[d] = queue[d]
  PROVE  FrameInvAt(d)'
<1>1. Pipeline(d)' = Pipeline(d) /\ writer' = writer /\ overflowed' = overflowed /\ count' = count
  BY DEF Pipeline, writeVars
<1>2. offered'[d] = offered[d] /\ \A r \in Procs : d \in todo'[r] <=> d \in todo[r]
  BY DEF Served, TypeInv, TypeOK
<1>3. FrameInvAt(d) /\ FramesIn(Pipeline(d)) \subseteq Frame
  BY PipelineType DEF FrameInv
<1>4. QED
  BY <1>1, <1>2, <1>3 DEF FrameInvAt, Numbered, Complete, Frame

LEMMA FrameServed ==
  ASSUME TypeInv, FrameInv, NEW p \in Procs, NEW c \in Conns, c \in todo[p],
         stage[p] # "idle", HasRoom(c), queue' = Enqueued(p, c), Served(p, c),
         UNCHANGED <<connVars, count, writeVars, overflowed>>
  PROVE  FrameInv'
<1>1. SnapshotOnlyInPush'
  BY DEF FrameInv, SnapshotOnlyInPush, Served, TypeInv, TypeOK
<1>2. FrameInvAt(c)'
  BY FrameEnqueue
<1>3. ASSUME NEW d \in Conns, d # c PROVE FrameInvAt(d)'
  <2>1. queue' \in [Conns -> Seq(Frame)] /\ queue'[d] = queue[d]
    BY <1>3, EnqueuedType DEF Enqueued, TypeInv, TypeOK
  <2>2. QED
    BY <1>3, <2>1, FramePushElsewhere
<1>4. QED
  BY <1>1, <1>2, <1>3 DEF FrameInv

LEMMA FrameRetry ==
  ASSUME TypeInv, FrameInv, NEW p \in Procs, Retry(p)
  PROVE  FrameInv'
<1>0. PICK c \in Conns : c = target[p]
  BY DEF Retry, TypeInv, RoomIsSomewhere
<1>1. c \in todo[p] /\ c \in overflowed /\ stage[p] # "idle"
  BY <1>0 DEF Retry, TypeInv, RoomIsSomewhere, FrameInv, SnapshotOnlyInPush
<1>2. Served(p, c) /\ UNCHANGED <<connVars, count, writeVars, overflowed>>
  BY <1>0 DEF Retry
<1>3. CASE HasRoom(c)
  BY <1>0, <1>1, <1>2, <1>3, FrameServed DEF Retry
<1>4. CASE ~HasRoom(c)
  <2>1. queue' = queue
    BY <1>0, <1>4 DEF Retry
  <2>2. SnapshotOnlyInPush'
    BY <1>2 DEF FrameInv, SnapshotOnlyInPush, Served, TypeInv, TypeOK
  <2>3. ASSUME NEW d \in Conns, d # c PROVE FrameInvAt(d)'
    BY <1>1, <1>2, <2>1, <2>3, FramePushElsewhere DEF TypeInv, TypeOK
  <2>4. FrameInvAt(c)'
    <3>1. Pipeline(c)' = Pipeline(c) /\ overflowed' = overflowed /\ count' = count
      BY <1>2, <2>1 DEF Pipeline, writeVars
    <3>2. \A r \in Procs : todo'[r] \subseteq todo[r]
      BY <1>2 DEF Served, TypeInv, TypeOK
    <3>3. FrameInvAt(c) /\ FramesIn(Pipeline(c)) \subseteq Frame
      BY <1>1, PipelineType DEF FrameInv
    <3>4. QED
      BY <1>1, <3>1, <3>2, <3>3 DEF FrameInvAt, Numbered, Complete, Frame
  <2>5. QED
    BY <2>2, <2>3, <2>4 DEF FrameInv
<1>5. QED
  BY <1>3, <1>4

LEMMA FrameDropOldest ==
  ASSUME TypeInv, FrameInv, NEW p \in Procs, DropOldest(p)
  PROVE  FrameInv'
<1>0. PICK c \in Conns : c = target[p]
  BY DEF DropOldest, TypeInv, RoomIsSomewhere
<1>1. c \in todo[p] /\ c \in overflowed
  BY <1>0 DEF DropOldest, TypeInv, RoomIsSomewhere, FrameInv, SnapshotOnlyInPush
<1>2. UNCHANGED <<count, todo, target, writeVars, history>>
  BY DEF DropOldest
<1>3. SnapshotOnlyInPush'
  BY DEF DropOldest, FrameInv, SnapshotOnlyInPush, history, TypeInv, TypeOK
<1>4. ASSUME NEW d \in Conns, d # c \/ queue[d] = <<>> PROVE FrameInvAt(d)'
  <2>1. queue'[d] = queue[d]
    BY <1>0, <1>4 DEF DropOldest, WithoutOldest, TypeInv, TypeOK
  <2>2. Pipeline(d)' = Pipeline(d)
    BY <2>1, <1>2 DEF Pipeline, writeVars
  <2>3. QED
    BY <2>2, <1>2 DEF FrameInv, FrameInvAt, Numbered, Complete, writeVars, history
<1>5. ASSUME queue[c] # <<>> PROVE FrameInvAt(c)'
  <2>1. queue'[c] = Tail(queue[c]) /\ sent' = sent /\ hand' = hand
    BY <1>0, <1>2, <1>5 DEF DropOldest, WithoutOldest, TypeInv, TypeOK, writeVars
  <2>2. /\ FramesIn(Pipeline(c)') \subseteq FramesIn(Pipeline(c))
        /\ InPushOrder(Pipeline(c)) => InPushOrder(Pipeline(c)')
    BY <1>1, <1>5, <2>1, PipelineType, WithoutFirstOfLast DEF Pipeline
  <2>3. FrameInvAt(c)
    BY <1>1 DEF FrameInv
  <2>4. QED
    BY <1>1, <1>2, <2>2, <2>3 DEF FrameInvAt, Numbered, Complete, history
<1>6. QED
  BY <1>3, <1>4, <1>5 DEF FrameInv

LEMMA FramePush ==
  ASSUME TypeInv, FrameInv, NEW p \in Procs, BeginPush(p) \/ PushStep(p)
  PROVE  FrameInv'
<1>1. CASE BeginPush(p)
  <2>1. /\ UNCHANGED <<target, writeVars, history, queue>>
        /\ todo[p] = {} /\ count'[p] = count[p] + 1
        /\ \A r \in Procs : r # p => todo'[r] = todo[r] /\ count'[r] = count[r]
    BY <1>1 DEF BeginPush, TypeInv, TypeOK, FrameInv, SnapshotOnlyInPush
  <2>2. SnapshotOnlyInPush'
    BY <1>1 DEF BeginPush, FrameInv, SnapshotOnlyInPush, history, TypeInv, TypeOK
  <2>3. ASSUME NEW c \in Conns PROVE FrameInvAt(c)'
    <3>1. Pipeline(c)' = Pipeline(c) /\ FramesIn(Pipeline(c)) \subseteq Frame /\ FrameInvAt(c)
      BY <2>1, PipelineType DEF Pipeline, writeVars, FrameInv
    <3>2. Numbered(c)'
      <4> SUFFICES ASSUME NEW x \in FramesIn(Pipeline(c))
                   PROVE  x.n <= count'[x.by] /\ (c \in todo'[x.by] => x.n < count'[x.by])
        BY <3>1 DEF Numbered
      <4>1. /\ x.by \in Procs /\ x.n \in Nat /\ count[x.by] \in Nat
            /\ x.n <= count[x.by] /\ (c \in todo[x.by] => x.n < count[x.by])
        BY <3>1 DEF FrameInvAt, Numbered, Frame, TypeInv, TypeOK
      <4>2. QED
        BY <4>1, <2>1
    <3>3. QED
      BY <3>1, <3>2, <2>1 DEF FrameInvAt, Complete, writeVars, history
  <2>4. QED
    BY <2>2, <2>3 DEF FrameInv
<1>2. CASE EndPush(p) \/ Notify(p)
  <2>1. UNCHANGED <<count, todo, target, writeVars, history, queue>>
    BY <1>2 DEF EndPush, Notify
  <2>2. SnapshotOnlyInPush'
    BY <1>2, <2>1 DEF EndPush, Notify, FrameInv, SnapshotOnlyInPush, history, TypeInv, TypeOK
  <2>3. QED
    BY <2>1, <2>2 DEF FrameInv, FrameInvAt, Numbered, Complete, Pipeline, writeVars, history
<1>3. ASSUME NEW c \in Conns, TrySend(p, c) PROVE FrameInv'
  BY <1>3, FrameServed DEF TrySend
<1>4. ASSUME NEW c \in Conns, FoundFull(p, c) PROVE FrameInv'
  <2>1. UNCHANGED <<count, todo, writeVars, offered, queue>> /\ overflowed \subseteq overflowed'
    BY <1>4 DEF FoundFull
  <2>2. SnapshotOnlyInPush'
    BY <1>4 DEF FoundFull, FrameInv, SnapshotOnlyInPush, TypeInv, TypeOK
  <2>3. QED
    BY <2>1, <2>2 DEF FrameInv, FrameInvAt, Numbered, Complete, Pipeline, writeVars
<1>5. QED
  BY <1>1, <1>2, <1>3, <1>4, FrameRetry, FrameDropOldest DEF PushStep

LEMMA FrameInvariance == Spec => []FrameInv
<1>1. TypeInv /\ FrameInv /\ [Next]_vars => FrameInv'
  <2> SUFFICES ASSUME TypeInv, FrameInv, [Next]_vars PROVE FrameInv'
    OBVIOUS
  <2>1. CASE UNCHANGED vars
    BY <2>1 DEF FrameInv, SnapshotOnlyInPush, FrameInvAt, Numbered, Complete, Pipeline,
                vars, connVars, pushVars, writeVars, history
  <2>2. CASE Next
    BY <2>2, FrameConn, FrameWriter, FramePush DEF Next
  <2>3. QED
    BY <2>1, <2>2
<1>2. QED
  BY FrameInit, <1>1, TypeInvariance, PTL DEF Spec

\* However full, slow or dead the other phones are, a phone whose own queue was
\* never found full and whose writeLoop lives has every frame offered to it.
THEOREM SlowPhoneCostsNobodyInvariant == Spec => []SlowPhoneCostsNobody
<1>1. FrameInv => SlowPhoneCostsNobody
  BY DEF FrameInv, FrameInvAt, Complete, SlowPhoneCostsNobody
<1>2. QED
  BY FrameInvariance, <1>1, PTL

\* Each goroutine's frames go down every connection in the order they were
\* pushed and at most once, through any overflow.
THEOREM SourceOrderInvariant == Spec => []SourceOrder
<1>1. FrameInv => SourceOrder
  BY DEF FrameInv, FrameInvAt, SourceOrder
<1>2. QED
  BY FrameInvariance, <1>1, PTL

=============================================================================
