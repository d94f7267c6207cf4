----------------------------- MODULE TablesProofs -----------------------------
(***************************************************************************)
(* Theorems about the daemon's tables.                                     *)
(*                                                                         *)
(* MessageStore: the summary, the preview, the receipts and the badge, for *)
(* any sets of messages, any batch and any number of edits and restarts.   *)
(* What the properties say of a chat at rest does not hold while a message *)
(* is between its two statements; the invariant says whose job it is to    *)
(* make it hold again.                                                     *)
(*                                                                         *)
(* Names: for all sets of people, contacts and messages and every bound on *)
(* the changes, a saved person is shown under the saved name, and a repair *)
(* that nothing disturbs leaves no name out of date.  What a repair has    *)
(* put right by the time it comes to a pass is Repaired.  The passes run   *)
(* one after the other over the same names, so each must also leave alone  *)
(* what the ones before it have done (Kept): digits that stand for nobody  *)
(* are not put back, a saved name is not marked, a mark is not taken off.  *)
(* A later repair runs over names that are right already and must change   *)
(* none of them.                                                           *)
(***************************************************************************)
EXTENDS MessageStore, Names, FiniteSetTheorems, WellFoundedInduction, TLAPS

Marks == {"acking", "marking"}
Edits == {"edit", "preview"}

\* What a goroutine carries from one statement to the next.
JobOK(j) ==
  /\ j.at \in {"idle", "summary", "record", "status"} \cup Marks \cup Edits
  /\ j.at = "summary" => j.msg \in Msgs /\ j.body \in Nat
  /\ j.at = "record" => j.msg \in Own
  /\ j.at = "status" => j.msg \in Msgs /\ j.new \in {"delivered", "read", "played"}
  /\ j.at \in Marks => j \in [at : Marks, ids : SUBSET Incoming, seen : SUBSET Incoming]
  /\ j.at \in Edits => j \in [at : Edits, msg : Msgs, body : Nat]

\* The types the properties need.  (That an edit stays within Bodies follows
\* from a sum over all messages, which the bound on edits is stated by.)
TypeInv ==
  /\ stored \subseteq Msgs /\ IsFiniteSet(stored)
  /\ status \in [Msgs -> Statuses]
  /\ lastTs \in Msgs \cup {0} /\ preview.msg \in Msgs \cup {0}
  /\ DOMAIN job = Goroutines /\ \A g \in Goroutines : JobOK(job[g])
  /\ arrived \subseteq Incoming /\ accepted \subseteq Own
  /\ latest \in [Msgs -> Nat]
  /\ crashes \in Nat

-----------------------------------------------------------------------------
(* Arithmetic                                                              *)

LEMMA MsgsAreNumbers ==
  /\ \A m \in Msgs : m \in Nat /\ m > 0
  /\ Own \subseteq Msgs /\ Incoming \subseteq Msgs
BY MsgAssumption DEF Msgs

\* The greater of two.
LEMMA MaxOfTwo ==
  ASSUME NEW a \in Nat, NEW b \in Nat
  PROVE  /\ Max({a, b}) \in {a, b}
         /\ Max({a, b}) >= a /\ Max({a, b}) >= b
<1>1. \E x \in {a, b} : \A y \in {a, b} : x >= y
  <2>1. CASE a >= b
    BY <2>1
  <2>2. CASE b >= a
    BY <2>2
  <2> QED
    BY <2>1, <2>2
<1>2. Max({a, b}) \in {a, b} /\ \A y \in {a, b} : Max({a, b}) >= y
  BY <1>1 DEF Max
<1> QED
  BY <1>2

\* Above any number of a finite set there is a last one.
LEMMA NoneAbove ==
  ASSUME NEW S, S \subseteq Nat, IsFiniteSet(S), NEW m \in S
  PROVE  \E k \in S : k >= m /\ {n \in S : n > k} = {}
<1> DEFINE Above(k) == {n \in S : n > k}
           R == OpToRel(<, Nat)
           T == {Cardinality(Above(k)) : k \in {x \in S : x >= m}}
<1>1. \A k \in S : IsFiniteSet(Above(k)) /\ Cardinality(Above(k)) \in Nat
  <2> SUFFICES ASSUME NEW k \in S PROVE IsFiniteSet(Above(k)) /\ Cardinality(Above(k)) \in Nat
    OBVIOUS
  <2>1. Above(k) \in SUBSET S
    OBVIOUS
  <2> HIDE DEF Above
  <2>2. IsFiniteSet(Above(k))
    BY <2>1, FS_Subset
  <2> QED
    BY <2>2, FS_CardinalityType
<1>2. T \subseteq Nat /\ T # {}
  <2> HIDE DEF Above
  <2> QED
    BY <1>1
<1>3. PICK x \in T : \A y \in T : ~ (<<y, x>> \in R)
  <2> HIDE DEF T, R
  <2>1. IsWellFoundedOn(R, Nat)
    BY NatLessThanWellFounded DEF R
  <2> QED
    BY <1>2, <2>1, WFMin
<1>4. \A y \in T : ~ (y < x)
  <2> HIDE DEF T
  <2> QED
    BY <1>2, <1>3 DEF OpToRel
<1>5. PICK k \in S : k >= m /\ x = Cardinality(Above(k))
  OBVIOUS
<1>6. ASSUME NEW n \in Above(k) PROVE FALSE
  <2>1. n \in S /\ n >= m /\ n > k
    BY <1>5
  <2>2. Above(n) \in SUBSET Above(k) /\ n \notin Above(n)
    <3>1. k \in Nat /\ n \in Nat
      BY <2>1
    <3>2. ASSUME NEW i \in Above(n) PROVE i \in Above(k)
      BY <2>1, <3>1
    <3>3. n \notin Above(n)
      BY <3>1
    <3> QED
      BY <3>2, <3>3
  <2>3. Cardinality(Above(n)) \in T
    BY <2>1
  <2> HIDE DEF Above, T
  <2>4. Cardinality(Above(n)) < Cardinality(Above(k))
    <3>1. IsFiniteSet(Above(k)) /\ Cardinality(Above(k)) \in Nat /\ Cardinality(Above(n)) \in Nat
      BY <1>1, <2>1
    <3>2. Above(n) # Above(k)
      BY <1>6, <2>2
    <3> QED
      BY <2>2, <3>1, <3>2, FS_Subset
  <2> QED
    BY <1>4, <1>5, <2>3, <2>4
<1> QED
  BY <1>5, <1>6

-----------------------------------------------------------------------------
(* Types                                                                   *)

\* A goroutine goes on to a job of the right shape.
LEMMA GoesOn ==
  ASSUME TypeInv, NEW g \in Goroutines, NEW j, JobOK(j), Becomes(g, j)
  PROVE  /\ DOMAIN job' = Goroutines
         /\ \A h \in Goroutines : JobOK(job'[h])
         /\ job'[g] = j
         /\ \A h \in Goroutines \ {g} : job'[h] = job[h]
BY DEF TypeInv, Becomes

LEMMA IdleOK == JobOK(Idle)
BY DEF JobOK, Idle, Marks, Edits

LEMMA SameJobs == TypeInv /\ job' = job => (DOMAIN job' = Goroutines /\ \A h \in Goroutines : JobOK(job'[h]))
BY DEF TypeInv

\* What there is besides the jobs.
TableInv ==
  /\ stored \subseteq Msgs /\ IsFiniteSet(stored)
  /\ status \in [Msgs -> Statuses]
  /\ lastTs \in Msgs \cup {0} /\ preview.msg \in Msgs \cup {0}
  /\ arrived \subseteq Incoming /\ accepted \subseteq Own
  /\ latest \in [Msgs -> Nat]
  /\ crashes \in Nat

LEMMA Parts == TypeInv <=> TableInv /\ DOMAIN job = Goroutines /\ \A g \in Goroutines : JobOK(job[g])
BY DEF TypeInv, TableInv

LEMMA InitTypes == Init => TypeInv
<1> SUFFICES ASSUME Init PROVE TypeInv
  OBVIOUS
<1>1. TableInv
  BY FS_EmptySet DEF Init, TableInv, Statuses
<1>2. DOMAIN job = Goroutines /\ \A g \in Goroutines : JobOK(job[g])
  BY IdleOK DEF Init
<1> QED
  BY <1>1, <1>2, Parts

LEMMA PartsNext ==
  ASSUME TableInv', DOMAIN job' = Goroutines, \A g \in Goroutines : JobOK(job'[g])
  PROVE  TypeInv'
BY DEF TypeInv, TableInv, JobOK

LEMMA PutRowTypes ==
  ASSUME TypeInv, NEW g \in Goroutines, NEW m \in Msgs, NEW b \in Nat, PutRow(g, m, b),
         arrived' \subseteq Incoming, accepted' \subseteq Own, latest' = latest
  PROVE  TypeInv'
<1> DEFINE j == [at |-> "summary", msg |-> m, body |-> b]
<1>1. JobOK(j)
  BY DEF JobOK, Marks, Edits
<1>2. Becomes(g, j)
  BY DEF PutRow
<1>3. TableInv'
  BY FS_AddElement DEF TypeInv, TableInv, PutRow, Statuses, summary
<1> HIDE DEF j
<1> QED
  BY <1>1, <1>2, <1>3, GoesOn, PartsNext

LEMMA PutSummaryTypes ==
  ASSUME TypeInv, NEW g \in Goroutines, PutSummary(g)
  PROVE  TypeInv'
<1>1. job[g].msg \in Msgs /\ lastTs \in Msgs \cup {0}
  BY DEF TypeInv, JobOK, PutSummary, At
<1>2. Max({lastTs, job[g].msg}) \in Msgs \cup {0}
  <2>1. lastTs \in Nat /\ job[g].msg \in Nat
    BY <1>1, MsgsAreNumbers
  <2>2. Max({lastTs, job[g].msg}) \in {lastTs, job[g].msg}
    BY <2>1, MaxOfTwo
  <2> QED
    BY <1>1, <2>2
<1>3. TableInv'
  BY <1>1, <1>2 DEF TypeInv, TableInv, PutSummary, Upsert, table, account
<1>4. Becomes(g, Idle)
  BY DEF PutSummary
<1> QED
  BY <1>3, <1>4, GoesOn, IdleOK, PartsNext

LEMMA LiveMessageTypes ==
  ASSUME TypeInv, NEW m \in Incoming, LiveMessage(m)
  PROVE  TypeInv'
<1>1. m \in Msgs /\ latest[m] \in Nat /\ "event" \in Goroutines
  BY MsgsAreNumbers DEF TypeInv, Goroutines
<1>2. PutRow("event", m, latest[m])
  BY DEF LiveMessage
<1>3. arrived' \subseteq Incoming /\ accepted' \subseteq Own /\ latest' = latest
  BY DEF LiveMessage, TypeInv
<1> QED
  BY <1>1, <1>2, <1>3, PutRowTypes

LEMMA HistoryMessageTypes ==
  ASSUME TypeInv, NEW m \in Msgs, NEW b \in Bodies, HistoryMessage(m, b)
  PROVE  TypeInv'
<1>1. b \in Nat /\ "history" \in Goroutines
  BY LimitAssumption DEF Bodies, Goroutines
<1>2. PutRow("history", m, b)
  BY DEF HistoryMessage
<1>3. arrived' \subseteq Incoming /\ accepted' \subseteq Own /\ latest' = latest
  BY DEF HistoryMessage, TypeInv
<1> QED
  BY <1>1, <1>2, <1>3, PutRowTypes

LEMMA SendReturnsTypes ==
  ASSUME TypeInv, NEW m \in Own, SendReturns(m)
  PROVE  TypeInv'
<1> DEFINE j == [at |-> "record", msg |-> m]
<1>1. JobOK(j) /\ "app" \in Goroutines
  BY DEF JobOK, Marks, Edits, Goroutines
<1>2. Becomes("app", j)
  BY DEF SendReturns
<1>3. TableInv'
  BY DEF TypeInv, TableInv, SendReturns, table, summary
<1> HIDE DEF j
<1> QED
  BY <1>1, <1>2, <1>3, GoesOn, PartsNext

LEMMA RecordSentTypes ==
  ASSUME TypeInv, RecordSent
  PROVE  TypeInv'
<1>1. job["app"].msg \in Msgs /\ "app" \in Goroutines
  BY MsgsAreNumbers DEF TypeInv, JobOK, RecordSent, At, Goroutines
<1>2. PutRow("app", job["app"].msg, 0)
  BY DEF RecordSent
<1>3. arrived' \subseteq Incoming /\ accepted' \subseteq Own /\ latest' = latest
  BY DEF RecordSent, TypeInv, account
<1> QED
  BY <1>1, <1>2, <1>3, PutRowTypes

LEMMA HandleReceiptTypes ==
  ASSUME TypeInv, NEW m \in Msgs, NEW s \in Statuses, HandleReceipt(m, s)
  PROVE  TypeInv'
<1> DEFINE k == [at |-> "status", msg |-> m, new |-> s]
           j == IF Advances(m, s) THEN k ELSE Idle
<1>1. JobOK(k) /\ "event" \in Goroutines
  BY DEF HandleReceipt, MayReport, JobOK, Marks, Edits, Goroutines
<1>2. JobOK(j)
  BY <1>1, IdleOK
<1>3. Becomes("event", j)
  BY DEF HandleReceipt
<1>4. TableInv'
  BY DEF TypeInv, TableInv, HandleReceipt, table, summary, account
<1> HIDE DEF j
<1> QED
  BY <1>1, <1>2, <1>3, <1>4, GoesOn, PartsNext

LEMMA SetMessageStatusTypes ==
  ASSUME TypeInv, SetMessageStatus
  PROVE  TypeInv'
<1>1. job["event"].new \in Statuses /\ "event" \in Goroutines
  BY DEF TypeInv, JobOK, SetMessageStatus, At, Goroutines, Statuses
<1>2. Becomes("event", Idle)
  BY DEF SetMessageStatus
<1>3. TableInv'
  BY <1>1 DEF TypeInv, TableInv, SetMessageStatus, summary, account
<1> QED
  BY <1>1, <1>2, <1>3, GoesOn, IdleOK, PartsNext

LEMMA MarkChatReadTypes ==
  ASSUME TypeInv, MarkChatRead
  PROVE  TypeInv'
<1> DEFINE j == [at |-> "acking", ids |-> Batch, seen |-> Unread]
<1>1. JobOK(j) /\ "app" \in Goroutines
  BY DEF JobOK, Marks, Edits, Goroutines, Batch, Unread
<1>2. Becomes("app", j)
  BY DEF MarkChatRead
<1>3. TableInv'
  BY DEF TypeInv, TableInv, MarkChatRead, table, summary, account
<1> HIDE DEF j
<1> QED
  BY <1>1, <1>2, <1>3, GoesOn, PartsNext

LEMMA MarkReadReturnsTypes ==
  ASSUME TypeInv, MarkReadReturns
  PROVE  TypeInv'
<1> DEFINE j == [job["app"] EXCEPT !.at = "marking"]
<1>1. JobOK(j) /\ "app" \in Goroutines
  <2>1. job["app"] \in [at : Marks, ids : SUBSET Incoming, seen : SUBSET Incoming]
    BY DEF TypeInv, JobOK, MarkReadReturns, At, Marks, Goroutines
  <2>2. j \in [at : Marks, ids : SUBSET Incoming, seen : SUBSET Incoming] /\ j.at = "marking"
    BY <2>1 DEF Marks
  <2> HIDE DEF j
  <2> QED
    BY <2>2 DEF JobOK, Marks, Edits, Goroutines
<1>2. Becomes("app", j)
  BY DEF MarkReadReturns
<1>3. TableInv'
  BY DEF TypeInv, TableInv, MarkReadReturns, table, summary, account
<1> HIDE DEF j
<1> QED
  BY <1>1, <1>2, <1>3, GoesOn, PartsNext

LEMMA MarkReadFailsTypes ==
  ASSUME TypeInv, MarkReadFails
  PROVE  TypeInv'
<1>1. Becomes("app", Idle) /\ "app" \in Goroutines
  BY DEF MarkReadFails, Goroutines
<1>2. TableInv'
  BY DEF TypeInv, TableInv, MarkReadFails, table, summary, account
<1> QED
  BY <1>1, <1>2, GoesOn, IdleOK, PartsNext

LEMMA MarkAllReadTypes ==
  ASSUME TypeInv, MarkAllRead
  PROVE  TypeInv'
<1>1. Becomes("app", Idle) /\ "app" \in Goroutines
  BY DEF MarkAllRead, Goroutines
<1>2. TableInv'
  BY DEF TypeInv, TableInv, MarkAllRead, summary, account, Statuses
<1> QED
  BY <1>1, <1>2, GoesOn, IdleOK, PartsNext

LEMMA EditArrivesTypes ==
  ASSUME TypeInv, NEW g \in Goroutines, NEW m \in Msgs, EditArrives(g, m)
  PROVE  TypeInv'
<1> DEFINE j == [at |-> "edit", msg |-> m, body |-> latest[m] + 1]
<1>1. JobOK(j)
  BY DEF TypeInv, JobOK, Marks, Edits
<1>2. Becomes(g, j)
  BY DEF EditArrives
<1>3. TableInv'
  BY DEF TypeInv, TableInv, EditArrives, table, summary
<1> HIDE DEF j
<1> QED
  BY <1>1, <1>2, <1>3, GoesOn, PartsNext

LEMMA EditRowTypes ==
  ASSUME TypeInv, NEW g \in Goroutines, EditRow(g)
  PROVE  TypeInv'
<1> DEFINE k == [job[g] EXCEPT !.at = "preview"]
           j == IF job[g].msg \in stored THEN k ELSE Idle
<1>1. JobOK(k)
  <2>1. job[g] \in [at : Edits, msg : Msgs, body : Nat]
    BY DEF TypeInv, JobOK, EditRow, At, Edits
  <2>2. k \in [at : Edits, msg : Msgs, body : Nat] /\ k.at = "preview"
    BY <2>1 DEF Edits
  <2> HIDE DEF k
  <2> QED
    BY <2>2 DEF JobOK, Marks, Edits
<1>2. JobOK(j)
  BY <1>1, IdleOK
<1>3. Becomes(g, j)
  BY DEF EditRow
<1>4. TableInv'
  BY DEF TypeInv, TableInv, EditRow, summary, account
<1> HIDE DEF j
<1> QED
  BY <1>2, <1>3, <1>4, GoesOn, PartsNext

LEMMA EditPreviewTypes ==
  ASSUME TypeInv, NEW g \in Goroutines, EditPreview(g)
  PROVE  TypeInv'
<1>1. Becomes(g, Idle)
  BY DEF EditPreview
<1>2. job[g].msg \in Msgs
  BY DEF TypeInv, JobOK, EditPreview, At, Edits
<1>3. preview' = preview \/ preview' = [msg |-> job[g].msg, body |-> job[g].body]
  BY DEF EditPreview
<1>4. TableInv'
  BY <1>2, <1>3 DEF TypeInv, TableInv, EditPreview, table, account
<1> QED
  BY <1>1, <1>4, GoesOn, IdleOK, PartsNext

LEMMA DeleteMessageTypes ==
  ASSUME TypeInv, NEW m \in Msgs, DeleteMessage(m)
  PROVE  TypeInv'
<1>1. TableInv'
  BY FS_RemoveElement DEF TypeInv, TableInv, DeleteMessage, summary, account, Statuses
<1> QED
  BY <1>1, SameJobs, PartsNext DEF DeleteMessage

LEMMA CrashTypes ==
  ASSUME TypeInv, Crash
  PROVE  TypeInv'
<1>1. TableInv'
  BY DEF TypeInv, TableInv, Crash, table, summary, account
<1>2. DOMAIN job' = Goroutines /\ \A g \in Goroutines : JobOK(job'[g])
  BY IdleOK DEF Crash
<1> QED
  BY <1>1, <1>2, PartsNext

LEMMA TypeStep == TypeInv /\ [Next]_vars => TypeInv'
<1> SUFFICES ASSUME TypeInv, [Next]_vars PROVE TypeInv'
  OBVIOUS
<1>1. ASSUME NEW m \in Incoming, LiveMessage(m) PROVE TypeInv'
  BY <1>1, LiveMessageTypes
<1>2. ASSUME NEW m \in Msgs, NEW b \in Bodies, HistoryMessage(m, b) PROVE TypeInv'
  BY <1>2, HistoryMessageTypes
<1>3. ASSUME NEW m \in Msgs, NEW s \in Statuses, HandleReceipt(m, s) PROVE TypeInv'
  BY <1>3, HandleReceiptTypes
<1>4. ASSUME NEW m \in Msgs, DeleteMessage(m) PROVE TypeInv'
  BY <1>4, DeleteMessageTypes
<1>5. ASSUME NEW m \in Msgs, NEW g \in {"app", "event"}, EditArrives(g, m) PROVE TypeInv'
  BY <1>5, EditArrivesTypes DEF Goroutines
<1>6. ASSUME NEW m \in Own, SendReturns(m) PROVE TypeInv'
  BY <1>6, SendReturnsTypes
<1>7. ASSUME NEW g \in Goroutines, PutSummary(g) \/ EditRow(g) \/ EditPreview(g) PROVE TypeInv'
  BY <1>7, PutSummaryTypes, EditRowTypes, EditPreviewTypes
<1>8. CASE RecordSent \/ SetMessageStatus
  BY <1>8, RecordSentTypes, SetMessageStatusTypes
<1>9. CASE MarkChatRead \/ MarkReadReturns \/ MarkReadFails \/ MarkAllRead
  BY <1>9, MarkChatReadTypes, MarkReadReturnsTypes, MarkReadFailsTypes, MarkAllReadTypes
<1>10. CASE Crash
  BY <1>10, CrashTypes
<1>11. CASE UNCHANGED vars
  BY <1>11 DEF TypeInv, vars, table, summary, account
<1> QED
  BY <1>1, <1>2, <1>3, <1>4, <1>5, <1>6, <1>7, <1>8, <1>9, <1>10, <1>11 DEF Next

-----------------------------------------------------------------------------
(* The summary                                                             *)

\* Whatever is stored and newer than the summary is in the hands of a goroutine
\* that has its second statement to do.
Covered ==
  crashes = 0 =>
    \A m \in stored : m <= lastTs \/ \E g \in Goroutines : job[g].at = "summary" /\ job[g].msg = m

\* Edits come only once there are some, and until then the preview and the
\* timestamp are of one message.
Quoted == NoEdits => preview.msg = lastTs /\ \A g \in Goroutines : job[g].at \notin Edits

\* A step that adds no row and leaves the summaries that are due.
LEMMA StillCovered ==
  ASSUME Covered, stored' \subseteq stored, lastTs' = lastTs, crashes' = crashes,
         \A g \in Goroutines : job[g].at = "summary" => job'[g] = job[g]
  PROVE  Covered'
BY DEF Covered

LEMMA PutRowCovered ==
  ASSUME TypeInv, Covered, NEW g \in Goroutines, NEW m, NEW b, PutRow(g, m, b), job[g].at # "summary"
  PROVE  Covered'
<1> SUFFICES ASSUME crashes = 0, NEW n \in stored'
             PROVE  n <= lastTs \/ \E h \in Goroutines : job'[h].at = "summary" /\ job'[h].msg = n
  BY DEF Covered, PutRow, summary
<1> DEFINE j == [at |-> "summary", msg |-> m, body |-> b]
<1>1. job'[g] = j /\ \A h \in Goroutines \ {g} : job'[h] = job[h]
  BY DEF TypeInv, PutRow, Becomes
<1>2. CASE n = m
  BY <1>1, <1>2
<1>3. CASE n \in stored
  BY <1>1, <1>3 DEF Covered
<1> QED
  BY <1>2, <1>3 DEF PutRow

LEMMA PutSummaryCovered ==
  ASSUME TypeInv, Covered, NEW g \in Goroutines, PutSummary(g)
  PROVE  Covered'
<1>1. job[g].msg \in Nat /\ lastTs \in Nat
  BY MsgsAreNumbers DEF TypeInv, JobOK, PutSummary, At
<1>2. lastTs' \in Nat /\ lastTs' >= lastTs /\ lastTs' >= job[g].msg
  <2>1. lastTs' = Max({lastTs, job[g].msg})
    BY DEF PutSummary, Upsert
  <2> QED
    BY <1>1, <2>1, MaxOfTwo
<1>3. stored' = stored /\ crashes' = crashes /\ \A h \in Goroutines \ {g} : job'[h] = job[h]
  BY DEF PutSummary, Becomes, table, TypeInv
<1> SUFFICES ASSUME crashes = 0, NEW n \in stored
             PROVE  n <= lastTs' \/ \E h \in Goroutines : job'[h].at = "summary" /\ job'[h].msg = n
  BY <1>3 DEF Covered
<1>4. n \in Nat
  BY MsgsAreNumbers DEF TypeInv
<1>5. n <= lastTs \/ \E h \in Goroutines : job[h].at = "summary" /\ job[h].msg = n
  BY DEF Covered
<1> QED
  BY <1>1, <1>2, <1>3, <1>4, <1>5

\* A goroutine that is not between the two statements goes on to another job.
LEMMA OtherJobs ==
  ASSUME TypeInv, NEW g \in Goroutines, NEW j, Becomes(g, j)
  PROVE  job'[g] = j /\ \A h \in Goroutines \ {g} : job'[h] = job[h]
BY DEF TypeInv, Becomes

LEMMA CoveredStep == TypeInv /\ Covered /\ [Next]_vars => Covered'
<1> SUFFICES ASSUME TypeInv, Covered, [Next]_vars PROVE Covered'
  OBVIOUS
<1> USE DEF At, Goroutines
<1>1. ASSUME NEW m \in Incoming, LiveMessage(m) PROVE Covered'
  BY <1>1, PutRowCovered DEF LiveMessage
<1>2. ASSUME NEW m \in Msgs, NEW b \in Bodies, HistoryMessage(m, b) PROVE Covered'
  BY <1>2, PutRowCovered DEF HistoryMessage
<1>3. ASSUME NEW m \in Msgs, NEW s \in Statuses, HandleReceipt(m, s) PROVE Covered'
  BY <1>3, StillCovered, OtherJobs DEF HandleReceipt, table, summary
<1>4. ASSUME NEW m \in Msgs, DeleteMessage(m) PROVE Covered'
  BY <1>4, StillCovered DEF DeleteMessage, summary
<1>5. ASSUME NEW m \in Msgs, NEW g \in {"app", "event"}, EditArrives(g, m) PROVE Covered'
  BY <1>5, StillCovered, OtherJobs DEF EditArrives, table, summary
<1>6. ASSUME NEW m \in Own, SendReturns(m) PROVE Covered'
  BY <1>6, StillCovered, OtherJobs DEF SendReturns, table, summary
<1>7. ASSUME NEW g \in Goroutines, PutSummary(g) PROVE Covered'
  BY <1>7, PutSummaryCovered
<1>8. ASSUME NEW g \in Goroutines, EditRow(g) PROVE Covered'
  BY <1>8, StillCovered, OtherJobs DEF EditRow, summary
<1>9. ASSUME NEW g \in Goroutines, EditPreview(g) PROVE Covered'
  BY <1>9, StillCovered, OtherJobs DEF EditPreview, table
<1>10. CASE RecordSent
  BY <1>10, PutRowCovered DEF RecordSent
<1>11. CASE SetMessageStatus
  BY <1>11, StillCovered, OtherJobs DEF SetMessageStatus, summary
<1>12. CASE MarkChatRead
  BY <1>12, StillCovered, OtherJobs DEF MarkChatRead, table, summary
<1>13. CASE MarkReadReturns
  BY <1>13, StillCovered, OtherJobs DEF MarkReadReturns, table, summary
<1>14. CASE MarkReadFails
  BY <1>14, StillCovered, OtherJobs DEF MarkReadFails, table, summary
<1>15. CASE MarkAllRead
  BY <1>15, StillCovered, OtherJobs DEF MarkAllRead, summary
<1>16. CASE Crash
  BY <1>16 DEF Crash, Covered, TypeInv
<1>17. CASE UNCHANGED vars
  BY <1>17 DEF Covered, vars, table, summary
<1> QED
  BY <1>1, <1>2, <1>3, <1>4, <1>5, <1>6, <1>7, <1>8, <1>9, <1>10, <1>11, <1>12, <1>13, <1>14, <1>15,
     <1>16, <1>17 DEF Next

\* A step that leaves the summary alone and begins no edit.
LEMMA StillQuoted ==
  ASSUME Quoted, latest' = latest, preview' = preview, lastTs' = lastTs,
         \A g \in Goroutines : job'[g].at \in Edits => job[g].at \in Edits
  PROVE  Quoted'
BY DEF Quoted, NoEdits

LEMMA PutRowQuoted ==
  ASSUME TypeInv, Quoted, NEW g \in Goroutines, NEW m, NEW b, PutRow(g, m, b), latest' = latest
  PROVE  Quoted'
<1> DEFINE j == [at |-> "summary", msg |-> m, body |-> b]
<1>1. job'[g] = j /\ \A h \in Goroutines \ {g} : job'[h] = job[h]
  BY DEF TypeInv, PutRow, Becomes
<1>2. preview' = preview /\ lastTs' = lastTs
  BY DEF PutRow, summary
<1> QED
  BY <1>1, <1>2, StillQuoted DEF Edits

LEMMA PutSummaryQuoted ==
  ASSUME TypeInv, Quoted, NEW g \in Goroutines, PutSummary(g)
  PROVE  Quoted'
<1> SUFFICES ASSUME NoEdits
             PROVE  preview'.msg = lastTs' /\ \A h \in Goroutines : job'[h].at \notin Edits
  BY DEF Quoted, NoEdits, PutSummary, account
<1> DEFINE m == job[g].msg
<1>1. m \in Nat /\ lastTs \in Nat
  BY MsgsAreNumbers DEF TypeInv, JobOK, PutSummary, At
<1>2. lastTs' = Max({lastTs, m}) /\ preview' = IF m >= lastTs THEN [msg |-> m, body |-> job[g].body] ELSE preview
  BY DEF PutSummary, Upsert
<1>3. lastTs' \in {lastTs, m} /\ lastTs' >= lastTs /\ lastTs' >= m
  BY <1>1, <1>2, MaxOfTwo
<1>4. preview.msg = lastTs /\ \A h \in Goroutines : job[h].at \notin Edits
  BY DEF Quoted
<1>5. preview'.msg = lastTs'
  <2>1. CASE m >= lastTs
    BY <1>1, <1>2, <1>3, <2>1
  <2>2. CASE ~(m >= lastTs)
    BY <1>1, <1>2, <1>3, <1>4, <2>2
  <2> QED
    BY <2>1, <2>2
<1>6. \A h \in Goroutines : job'[h].at \notin Edits
  BY <1>4, OtherJobs DEF PutSummary, Idle, Edits
<1> QED
  BY <1>5, <1>6

\* While an edit is being stored there has been one.
LEMMA AnEdit ==
  ASSUME Quoted, NEW g \in Goroutines, job[g].at \in Edits, latest' = latest
  PROVE  Quoted'
BY DEF Quoted, NoEdits

LEMMA QuotedStep == TypeInv /\ Quoted /\ [Next]_vars => Quoted'
<1> SUFFICES ASSUME TypeInv, Quoted, [Next]_vars PROVE Quoted'
  OBVIOUS
<1> USE DEF At, Goroutines, Idle
<1>1. ASSUME NEW m \in Incoming, LiveMessage(m) PROVE Quoted'
  BY <1>1, PutRowQuoted DEF LiveMessage
<1>2. ASSUME NEW m \in Msgs, NEW b \in Bodies, HistoryMessage(m, b) PROVE Quoted'
  BY <1>2, PutRowQuoted DEF HistoryMessage
<1>3. ASSUME NEW m \in Msgs, NEW s \in Statuses, HandleReceipt(m, s) PROVE Quoted'
  BY <1>3, StillQuoted, OtherJobs DEF HandleReceipt, summary, account, Edits
<1>4. ASSUME NEW m \in Msgs, DeleteMessage(m) PROVE Quoted'
  BY <1>4, StillQuoted DEF DeleteMessage, summary, account
<1>5. ASSUME NEW m \in Msgs, NEW g \in {"app", "event"}, EditArrives(g, m) PROVE Quoted'
  <2>1. latest'[m] # 0
    BY <1>5 DEF EditArrives, TypeInv
  <2> QED
    BY <2>1 DEF Quoted, NoEdits
<1>6. ASSUME NEW m \in Own, SendReturns(m) PROVE Quoted'
  BY <1>6, StillQuoted, OtherJobs DEF SendReturns, summary, Edits
<1>7. ASSUME NEW g \in Goroutines, PutSummary(g) PROVE Quoted'
  BY <1>7, PutSummaryQuoted
<1>8. ASSUME NEW g \in Goroutines, EditRow(g) PROVE Quoted'
  BY <1>8, AnEdit DEF EditRow, account, Edits
<1>9. ASSUME NEW g \in Goroutines, EditPreview(g) PROVE Quoted'
  BY <1>9, AnEdit DEF EditPreview, account, Edits
<1>10. CASE RecordSent
  BY <1>10, PutRowQuoted DEF RecordSent, account
<1>11. CASE SetMessageStatus
  BY <1>11, StillQuoted, OtherJobs DEF SetMessageStatus, summary, account, Edits
<1>12. CASE MarkChatRead
  BY <1>12, StillQuoted, OtherJobs DEF MarkChatRead, summary, account, Edits
<1>13. CASE MarkReadReturns
  <2>1. job'["app"].at = "marking"
    BY <1>13, OtherJobs DEF MarkReadReturns, TypeInv, JobOK, Marks
  <2> QED
    BY <1>13, <2>1, StillQuoted, OtherJobs DEF MarkReadReturns, summary, account, Edits
<1>14. CASE MarkReadFails
  BY <1>14, StillQuoted, OtherJobs DEF MarkReadFails, summary, account, Edits
<1>15. CASE MarkAllRead
  BY <1>15, StillQuoted, OtherJobs DEF MarkAllRead, summary, account, Edits
<1>16. CASE Crash
  BY <1>16, StillQuoted DEF Crash, summary, account, Edits
<1>17. CASE UNCHANGED vars
  BY <1>17 DEF Quoted, NoEdits, vars, summary, account
<1> QED
  BY <1>1, <1>2, <1>3, <1>4, <1>5, <1>6, <1>7, <1>8, <1>9, <1>10, <1>11, <1>12, <1>13, <1>14, <1>15,
     <1>16, <1>17 DEF Next

-----------------------------------------------------------------------------
(* Receipts                                                                *)

\* The receipt a goroutine is about to store is no step back, although the row
\* may have been written since it was looked at: rows are put with no state, and
\* what arrived can only become read.
Ranked ==
  /\ \A m \in Incoming : status[m] \in {"", "read"}
  /\ job["event"].at = "status" =>
       /\ job["event"].msg \in Incoming => job["event"].new = "read"
       /\ job["event"].msg \in stored => Rank(job["event"].new) >= Rank(status[job["event"].msg])

\* The newest of what MarkChatRead saw is in the receipt, and what WhatsApp has
\* taken of it is acknowledged.
NewestNamed ==
  /\ job["app"].at \in Marks => \A m \in job["app"].seen : \E n \in job["app"].ids : n >= m
  /\ job["app"].at = "marking" => job["app"].ids \subseteq acked

LEMMA RankOf ==
  /\ Rank("") = 0 /\ Rank("sent") = 1 /\ Rank("delivered") = 2
  /\ Rank("read") = 3 /\ Rank("played") = 4
BY DEF Rank

LEMMA RankType == \A s \in Statuses : Rank(s) \in Nat
<1> SUFFICES ASSUME NEW s \in Statuses PROVE Rank(s) \in Nat
  OBVIOUS
<1>1. CASE s = "" \/ s = "sent" \/ s = "delivered"
  BY <1>1, RankOf, Zenon, 0 \in Nat, 1 \in Nat, 2 \in Nat
<1>2. CASE s = "read" \/ s = "played"
  BY <1>2, RankOf, Zenon, 3 \in Nat, 4 \in Nat
<1> QED
  BY <1>1, <1>2 DEF Statuses

LEMMA StillRanked ==
  ASSUME Ranked, status' = status, stored' \subseteq stored,
         job'["event"].at = "status" => job'["event"] = job["event"]
  PROVE  Ranked'
BY DEF Ranked, Rank

LEMMA PutRowRanked ==
  ASSUME TypeInv, Ranked, NEW g \in Goroutines, NEW m \in Msgs, NEW b, PutRow(g, m, b)
  PROVE  Ranked'
<1> DEFINE j == [at |-> "summary", msg |-> m, body |-> b]
<1>1. job'[g] = j /\ \A h \in Goroutines \ {g} : job'[h] = job[h]
  BY DEF TypeInv, PutRow, Becomes
<1>2. \A n \in Incoming : status'[n] \in {"", "read"}
  BY MsgsAreNumbers DEF PutRow, Ranked, TypeInv
<1> SUFFICES ASSUME job'["event"].at = "status"
             PROVE  /\ job'["event"].msg \in Incoming => job'["event"].new = "read"
                    /\ job'["event"].msg \in stored' => Rank(job'["event"].new) >= Rank(status'[job'["event"].msg])
  BY <1>2 DEF Ranked, Rank
<1>3. job'["event"] = job["event"]
  BY <1>1 DEF Goroutines
<1> DEFINE n == job["event"].msg
           s == job["event"].new
<1>4. n \in Msgs /\ s \in Statuses
  BY <1>3 DEF TypeInv, JobOK, Goroutines, Statuses
<1>5. n \in Incoming => s = "read"
  BY <1>3 DEF Ranked
<1>6. CASE n = m
  <2>1. status'[n] = ""
    BY <1>4, <1>6 DEF PutRow, TypeInv
  <2>2. Rank(status'[n]) = 0 /\ Rank(s) \in Nat
    BY <1>4, <2>1, RankType, RankOf
  <2>3. Rank(s) >= Rank(status'[n])
    BY <2>2
  <2> QED
    BY <1>3, <1>5, <2>3
<1>7. CASE n # m
  <2>1. status'[n] = status[n] /\ (n \in stored' => n \in stored)
    BY <1>4, <1>7 DEF PutRow, TypeInv
  <2>2. n \in stored => Rank(s) >= Rank(status[n])
    BY <1>3 DEF Ranked
  <2> QED
    BY <1>3, <1>5, <2>1, <2>2
<1> QED
  BY <1>6, <1>7

LEMMA HandleReceiptRanked ==
  ASSUME TypeInv, Ranked, NEW m \in Msgs, NEW s \in Statuses, HandleReceipt(m, s)
  PROVE  Ranked'
<1> DEFINE k == [at |-> "status", msg |-> m, new |-> s]
           j == IF Advances(m, s) THEN k ELSE Idle
<1>1. job'["event"] = j
  BY OtherJobs DEF HandleReceipt, Goroutines
<1>2. m \in Incoming => s = "read"
  BY MsgAssumption DEF HandleReceipt, MayReport, TypeInv
<1>3. status' = status /\ stored' = stored
  BY DEF HandleReceipt, table
<1>4. CASE Advances(m, s)
  <2>1. job'["event"].msg = m /\ job'["event"].new = s
    BY <1>1, <1>4
  <2>2. m \in stored => Rank(s) >= Rank(status[m])
    <3>1. status[m] \in Statuses
      BY DEF TypeInv
    <3>2. Rank(s) \in Nat /\ Rank(status[m]) \in Nat
      BY <3>1, RankType
    <3>3. Rank(s) > Rank(status[m])
      BY <1>4 DEF Advances
    <3> QED
      BY <3>2, <3>3
  <2> QED
    BY <1>2, <1>3, <2>1, <2>2 DEF Ranked, Rank
<1>5. CASE ~Advances(m, s)
  <2>1. job'["event"].at # "status"
    BY <1>1, <1>5 DEF Idle
  <2> QED
    BY <1>3, <2>1 DEF Ranked
<1> QED
  BY <1>4, <1>5

LEMMA SetMessageStatusRanked ==
  ASSUME TypeInv, Ranked, SetMessageStatus
  PROVE  Ranked'
<1>1. job'["event"].at = "idle"
  BY OtherJobs DEF SetMessageStatus, Idle, Goroutines
<1>2. \A m \in Incoming : status'[m] \in {"", "read"}
  BY MsgsAreNumbers DEF SetMessageStatus, Ranked, TypeInv, At
<1> QED
  BY <1>1, <1>2 DEF Ranked

LEMMA MarkAllReadRanked ==
  ASSUME TypeInv, Ranked, MarkAllRead
  PROVE  Ranked'
<1>1. \A m \in Incoming : status'[m] \in {"", "read"}
  BY MsgsAreNumbers DEF MarkAllRead, Ranked, TypeInv
<1>2. job'["event"] = job["event"] /\ stored' = stored
  BY OtherJobs DEF MarkAllRead, Goroutines
<1> SUFFICES ASSUME job["event"].at = "status"
             PROVE  /\ job["event"].msg \in Incoming => job["event"].new = "read"
                    /\ job["event"].msg \in stored => Rank(job["event"].new) >= Rank(status'[job["event"].msg])
  BY <1>1, <1>2 DEF Ranked, Rank
<1> DEFINE n == job["event"].msg
<1>3. n \in Msgs
  BY DEF TypeInv, JobOK, Goroutines
<1>4. (n \in Incoming => job["event"].new = "read")
      /\ (n \in stored => Rank(job["event"].new) >= Rank(status[n]))
  BY DEF Ranked
<1>5. CASE n \in Unread
  <2>1. status'[n] = "read" /\ n \in Incoming
    BY <1>3, <1>5 DEF MarkAllRead, Unread
  <2>2. Rank(job["event"].new) = 3 /\ Rank(status'[n]) = 3
    BY <1>4, <2>1, RankOf
  <2> QED
    BY <1>4, <2>2
<1>6. CASE n \notin Unread
  <2>1. status'[n] = status[n]
    BY <1>3, <1>6 DEF MarkAllRead
  <2> QED
    BY <1>4, <2>1
<1> QED
  BY <1>5, <1>6

LEMMA DeleteMessageRanked ==
  ASSUME TypeInv, Ranked, NEW m \in Msgs, DeleteMessage(m)
  PROVE  Ranked'
<1>1. \A n \in Incoming : status'[n] \in {"", "read"}
  BY MsgsAreNumbers DEF DeleteMessage, Ranked, TypeInv
<1>2. job' = job /\ stored' = stored \ {m} /\ \A n \in Msgs \ {m} : status'[n] = status[n]
  BY DEF DeleteMessage, TypeInv
<1>3. job["event"].at = "status" => job["event"].msg \in Msgs
  BY DEF TypeInv, JobOK, Goroutines
<1> QED
  BY <1>1, <1>2, <1>3 DEF Ranked, Rank

LEMMA RankedStep == TypeInv /\ Ranked /\ [Next]_vars => Ranked'
<1> SUFFICES ASSUME TypeInv, Ranked, [Next]_vars PROVE Ranked'
  OBVIOUS
<1> USE DEF At, Goroutines, Idle
<1>1. ASSUME NEW m \in Incoming, LiveMessage(m) PROVE Ranked'
  BY <1>1, PutRowRanked, MsgsAreNumbers DEF LiveMessage
<1>2. ASSUME NEW m \in Msgs, NEW b \in Bodies, HistoryMessage(m, b) PROVE Ranked'
  BY <1>2, PutRowRanked DEF HistoryMessage
<1>3. ASSUME NEW m \in Msgs, NEW s \in Statuses, HandleReceipt(m, s) PROVE Ranked'
  BY <1>3, HandleReceiptRanked
<1>4. ASSUME NEW m \in Msgs, DeleteMessage(m) PROVE Ranked'
  BY <1>4, DeleteMessageRanked
<1>5. ASSUME NEW m \in Msgs, NEW g \in {"app", "event"}, EditArrives(g, m) PROVE Ranked'
  BY <1>5, StillRanked, OtherJobs DEF EditArrives, table
<1>6. ASSUME NEW m \in Own, SendReturns(m) PROVE Ranked'
  BY <1>6, StillRanked, OtherJobs DEF SendReturns, table
<1>7. ASSUME NEW g \in Goroutines, PutSummary(g) PROVE Ranked'
  BY <1>7, StillRanked, OtherJobs DEF PutSummary, table
<1>8. ASSUME NEW g \in Goroutines, EditRow(g) PROVE Ranked'
  <2>1. job'[g].at \in {"preview", "idle"}
    BY <1>8, OtherJobs DEF EditRow, TypeInv, JobOK, Edits
  <2> QED
    BY <1>8, <2>1, StillRanked, OtherJobs DEF EditRow
<1>9. ASSUME NEW g \in Goroutines, EditPreview(g) PROVE Ranked'
  BY <1>9, StillRanked, OtherJobs DEF EditPreview, table
<1>10. CASE RecordSent
  BY <1>10, PutRowRanked, MsgsAreNumbers DEF RecordSent, TypeInv, JobOK
<1>11. CASE SetMessageStatus
  BY <1>11, SetMessageStatusRanked
<1>12. CASE MarkChatRead
  BY <1>12, StillRanked, OtherJobs DEF MarkChatRead, table
<1>13. CASE MarkReadReturns
  BY <1>13, StillRanked, OtherJobs DEF MarkReadReturns, table
<1>14. CASE MarkReadFails
  BY <1>14, StillRanked, OtherJobs DEF MarkReadFails, table
<1>15. CASE MarkAllRead
  BY <1>15, MarkAllReadRanked
<1>16. CASE Crash
  BY <1>16, StillRanked DEF Crash, table
<1>17. CASE UNCHANGED vars
  BY <1>17, StillRanked DEF vars, table
<1> QED
  BY <1>1, <1>2, <1>3, <1>4, <1>5, <1>6, <1>7, <1>8, <1>9, <1>10, <1>11, <1>12, <1>13, <1>14, <1>15,
     <1>16, <1>17 DEF Next

LEMMA StillNamed ==
  ASSUME NewestNamed, acked \subseteq acked', job'["app"].at \in Marks => job'["app"] = job["app"]
  PROVE  NewestNamed'
BY DEF NewestNamed, Marks

\* Batch takes the newest unread message, however few it may take.
LEMMA MarkChatReadNamed ==
  ASSUME TypeInv, MarkChatRead
  PROVE  NewestNamed'
<1>1. job'["app"] = [at |-> "acking", ids |-> Batch, seen |-> Unread]
  BY OtherJobs DEF MarkChatRead, Goroutines
<1>2. Unread \subseteq Nat /\ IsFiniteSet(Unread)
  BY FS_Subset, MsgsAreNumbers DEF Unread, TypeInv
<1>3. ASSUME NEW m \in Unread PROVE \E n \in Batch : n >= m
  <2>1. PICK k \in Unread : k >= m /\ {n \in Unread : n > k} = {}
    BY <1>2, NoneAbove
  <2>2. Cardinality({n \in Unread : n > k}) = 0
    BY <2>1, FS_EmptySet
  <2>3. k \in Batch
    BY <2>2, LimitAssumption DEF Batch
  <2> QED
    BY <2>1, <2>3
<1> QED
  BY <1>1, <1>3 DEF NewestNamed

LEMMA MarkReadReturnsNamed ==
  ASSUME TypeInv, NewestNamed, MarkReadReturns
  PROVE  NewestNamed'
<1>1. job["app"] \in [at : Marks, ids : SUBSET Incoming, seen : SUBSET Incoming]
  BY DEF TypeInv, JobOK, MarkReadReturns, At, Marks, Goroutines
<1>2. job'["app"] = [job["app"] EXCEPT !.at = "marking"]
  BY OtherJobs DEF MarkReadReturns, Goroutines
<1>3. job'["app"].ids = job["app"].ids /\ job'["app"].seen = job["app"].seen
  BY <1>1, <1>2
<1>4. job["app"].ids \subseteq acked'
  BY DEF MarkReadReturns
<1>5. \A m \in job["app"].seen : \E n \in job["app"].ids : n >= m
  BY <1>1 DEF NewestNamed
<1> QED
  BY <1>3, <1>4, <1>5 DEF NewestNamed

LEMMA NamedStep == TypeInv /\ NewestNamed /\ [Next]_vars => NewestNamed'
<1> SUFFICES ASSUME TypeInv, NewestNamed, [Next]_vars PROVE NewestNamed'
  OBVIOUS
<1> USE DEF At, Goroutines, Idle, Marks
<1>1. ASSUME NEW m, NEW b, NEW g \in Goroutines, PutRow(g, m, b) PROVE NewestNamed'
  <2>1. job'[g].at = "summary" /\ \A h \in Goroutines \ {g} : job'[h] = job[h]
    BY <1>1 DEF PutRow, Becomes, TypeInv
  <2> QED
    BY <1>1, <2>1, StillNamed DEF PutRow
<1>2. ASSUME NEW m, (\E b \in Bodies : HistoryMessage(m, b)) \/ LiveMessage(m) \/ RecordSent PROVE NewestNamed'
  BY <1>1, <1>2 DEF HistoryMessage, LiveMessage, RecordSent
<1>3. ASSUME NEW m \in Msgs, NEW s \in Statuses, HandleReceipt(m, s) PROVE NewestNamed'
  BY <1>3, StillNamed, OtherJobs DEF HandleReceipt
<1>4. ASSUME NEW m \in Msgs, DeleteMessage(m) PROVE NewestNamed'
  BY <1>4, StillNamed DEF DeleteMessage
<1>5. ASSUME NEW m \in Msgs, NEW g \in {"app", "event"}, EditArrives(g, m) PROVE NewestNamed'
  BY <1>5, StillNamed, OtherJobs DEF EditArrives
<1>6. ASSUME NEW m \in Own, SendReturns(m) PROVE NewestNamed'
  BY <1>6, StillNamed, OtherJobs DEF SendReturns
<1>7. ASSUME NEW g \in Goroutines, PutSummary(g) PROVE NewestNamed'
  BY <1>7, StillNamed, OtherJobs DEF PutSummary
<1>8. ASSUME NEW g \in Goroutines, EditRow(g) PROVE NewestNamed'
  <2>1. job'[g].at \in {"preview", "idle"}
    BY <1>8, OtherJobs DEF EditRow, TypeInv, JobOK, Edits
  <2> QED
    BY <1>8, <2>1, StillNamed, OtherJobs DEF EditRow
<1>9. ASSUME NEW g \in Goroutines, EditPreview(g) PROVE NewestNamed'
  BY <1>9, StillNamed, OtherJobs DEF EditPreview
<1>10. CASE RecordSent
  BY <1>2, <1>10
<1>11. CASE SetMessageStatus
  BY <1>11, StillNamed, OtherJobs DEF SetMessageStatus
<1>12. CASE MarkChatRead
  BY <1>12, MarkChatReadNamed
<1>13. CASE MarkReadReturns
  BY <1>13, MarkReadReturnsNamed
<1>14. CASE MarkReadFails
  BY <1>14, StillNamed, OtherJobs DEF MarkReadFails
<1>15. CASE MarkAllRead
  BY <1>15, StillNamed, OtherJobs DEF MarkAllRead
<1>16. CASE Crash
  BY <1>16, StillNamed DEF Crash
<1>17. CASE UNCHANGED vars
  BY <1>17, StillNamed DEF vars
<1> QED
  BY <1>2, <1>3, <1>4, <1>5, <1>6, <1>7, <1>8, <1>9, <1>10, <1>11, <1>12, <1>13, <1>14, <1>15,
     <1>16, <1>17 DEF Next

-----------------------------------------------------------------------------
(* Theorems                                                                *)

IInv == TypeInv /\ Covered /\ Quoted /\ Ranked /\ NewestNamed

LEMMA InitIInv == Init => IInv
<1> SUFFICES ASSUME Init PROVE IInv
  OBVIOUS
<1>1. Covered /\ NewestNamed
  BY DEF Init, Covered, NewestNamed, Idle, Marks, Goroutines
<1>2. Quoted
  BY DEF Init, Quoted, Idle, Edits
<1>3. Ranked
  BY MsgsAreNumbers DEF Init, Ranked, Idle, Goroutines
<1> QED
  BY <1>1, <1>2, <1>3, InitTypes DEF IInv

LEMMA Invariance == Spec => []IInv
<1>1. IInv /\ [Next]_vars => IInv'
  BY TypeStep, CoveredStep, QuotedStep, RankedStep, NamedStep DEF IInv
<1> QED
  BY <1>1, InitIInv, PTL DEF Spec

\* A correct state of the store stays one throughout: rows are of known
\* messages, their state is one of the five, and every goroutine carries what
\* its next statement needs.
THEOREM StoreTypeCorrect == Spec => []TypeInv
<1>1. IInv => TypeInv
  BY DEF IInv
<1> QED
  BY <1>1, Invariance, PTL

\* Without a restart between two statements, a chat at rest never sorts below
\* its messages (putMessage, history.go:174), whichever goroutines stored them.
THEOREM SummaryCoversInvariant == Spec => []SummaryCovers
<1>1. IInv => SummaryCovers
  <2> SUFFICES ASSUME IInv, Quiet, crashes = 0, NEW m \in stored PROVE m <= lastTs
    BY DEF SummaryCovers
  <2> QED
    BY DEF IInv, Covered, Quiet, At
<1> QED
  BY <1>1, Invariance, PTL

\* As long as nothing is edited, the preview is that of the message the chat's
\* timestamp belongs to, also across restarts (the upsert in putMessage).
THEOREM PreviewQuotesNewestInvariant == Spec => []PreviewQuotesNewest
<1>1. IInv => PreviewQuotesNewest
  BY DEF IInv, Quoted, PreviewQuotesNewest
<1> QED
  BY <1>1, Invariance, PTL

\* setMessageStatus never moves a message backwards, although it decides in one
\* statement and writes in another (history.go:529-531).
THEOREM ReceiptsOnlyAdvanceAlways == Spec => ReceiptsOnlyAdvance
<1>1. ASSUME IInv, SetMessageStatus, NEW m \in stored
      PROVE  Rank(status'[m]) >= Rank(status[m])
  <2> DEFINE n == job["event"].msg
  <2>1. m \in Msgs /\ status[m] \in Statuses
    BY <1>1 DEF IInv, TypeInv
  <2>2. Rank(status[m]) \in Nat
    BY <2>1, RankType
  <2>3. job["event"].at = "status"
    BY <1>1 DEF SetMessageStatus, At
  <2>4. CASE m = n
    <3>1. status'[m] = job["event"].new
      BY <1>1, <2>1, <2>4 DEF SetMessageStatus, IInv, TypeInv
    <3>2. Rank(job["event"].new) >= Rank(status[n])
      BY <1>1, <2>3, <2>4 DEF IInv, Ranked
    <3> QED
      BY <2>4, <3>1, <3>2
  <2>5. CASE m # n
    <3>1. status'[m] = status[m]
      BY <1>1, <2>1, <2>5 DEF SetMessageStatus, IInv, TypeInv
    <3> QED
      BY <2>2, <3>1
  <2> QED
    BY <2>4, <2>5
<1>2. IInv /\ [Next]_vars =>
        [SetMessageStatus => \A m \in stored : Rank(status'[m]) >= Rank(status[m])]_vars
  BY <1>1
<1> QED
  BY <1>2, Invariance, PTL DEF Spec, ReceiptsOnlyAdvance

\* The receipt MarkChatRead sends covers every message that was unread when it
\* was made up, however few ids fit into one (client.go:484-487).
THEOREM ReceiptCoversTheBadgeAlways == Spec => ReceiptCoversTheBadge
<1>1. IInv /\ [Next]_vars =>
        [MarkAllRead => \A m \in job["app"].seen : \E n \in acked : n >= m]_vars
  <2> SUFFICES ASSUME IInv, MarkAllRead, NEW m \in job["app"].seen PROVE \E n \in acked : n >= m
    OBVIOUS
  <2> QED
    BY DEF IInv, NewestNamed, MarkAllRead, At, Marks
<1> QED
  BY <1>1, Invariance, PTL DEF Spec, ReceiptCoversTheBadge

\* Only markAllRead ends a MarkChatRead that WhatsApp has taken.
LEMMA OnlyMarkAllRead ==
  ASSUME TypeInv, Next, job["app"].at = "marking", job'["app"].at = "idle", crashes' = crashes
  PROVE  MarkAllRead
<1> USE DEF At, Goroutines, Idle
<1>1. ASSUME NEW m, NEW b, NEW g \in Goroutines, PutRow(g, m, b) PROVE FALSE
  BY <1>1, OtherJobs DEF PutRow, Becomes, TypeInv
<1>2. ~RecordSent /\ \A m : ~LiveMessage(m) /\ \A b : ~HistoryMessage(m, b)
  BY <1>1 DEF RecordSent, LiveMessage, HistoryMessage
<1>3. \A m, s : ~HandleReceipt(m, s)
  BY OtherJobs DEF HandleReceipt
<1>4. \A m : ~DeleteMessage(m) /\ ~SendReturns(m)
  BY DEF DeleteMessage, SendReturns
<1>5. \A m \in Msgs, g \in {"app", "event"} : ~EditArrives(g, m)
  BY OtherJobs DEF EditArrives
<1>6. \A g \in Goroutines : ~PutSummary(g) /\ ~EditRow(g) /\ ~EditPreview(g)
  BY OtherJobs DEF PutSummary, EditRow, EditPreview
<1>7. ~SetMessageStatus
  BY OtherJobs DEF SetMessageStatus
<1>8. ~MarkChatRead /\ ~MarkReadReturns /\ ~MarkReadFails
  BY DEF MarkChatRead, MarkReadReturns, MarkReadFails
<1>9. ~Crash
  BY DEF Crash, TypeInv
<1> HIDE DEF At, Goroutines, Idle
<1> QED
  BY <1>2, <1>3, <1>4, <1>5, <1>6, <1>7, <1>8, <1>9 DEF Next

\* The badge empties: what MarkChatRead saw and WhatsApp has taken is read in
\* the store (client.go:486), whatever arrived meanwhile.
THEOREM BadgeEmptiesAlways == Spec => BadgeEmpties
<1> DEFINE Ends == At("app", "marking") /\ job'["app"] = Idle /\ crashes' = crashes
           Left == job["app"].seen \cap stored' \cap {m \in Msgs : status'[m] # "read"}
<1>1. ASSUME IInv, Next, Ends PROVE Left = {}
  <2>1. MarkAllRead
    BY <1>1, OnlyMarkAllRead DEF IInv, At, Idle
  <2>2. job["app"].seen \subseteq Incoming
    BY <1>1 DEF IInv, TypeInv, JobOK, At, Marks, Goroutines
  <2> SUFFICES ASSUME NEW m \in Left PROVE FALSE
    OBVIOUS
  <2>3. m \in stored \cap Incoming /\ m \in Msgs /\ status'[m] # "read"
    BY <2>1, <2>2 DEF MarkAllRead
  <2>4. status'[m] = IF m \in Unread THEN "read" ELSE status[m]
    BY <2>1, <2>3 DEF MarkAllRead
  <2> QED
    BY <2>3, <2>4 DEF Unread
<1>2. IInv /\ [Next]_vars => [Ends => Left = {}]_vars
  BY <1>1
<1> QED
  BY <1>2, Invariance, PTL DEF Spec, BadgeEmpties

-----------------------------------------------------------------------------
(* Names                                                                   *)

Owners ==
  {NoOne} \cup Addrs \cup ({"nick", "book", "phone", "own"} \X People) \cup {<<"own">>}
AnyName == {None} \cup [kind : {"number", "text", "marked"}, of : Owners]

\* A row with a sender and a name.  Nothing is said of what it refers to: the name
\* in a quote is what a sequence of replacements made of it.
IsRow(r) ==
  /\ r = [from |-> r.from, name |-> r.name, ref |-> r.ref, group |-> r.group]
  /\ r.from \in Addrs /\ r.name \in AnyName /\ r.name # None

Migrated == {"chats", "senders", "quotes", "refresh", "mark", "mentions", "previews", "serve"}

NamesTypeInv ==
  /\ Mapped \subseteq Hidden
  /\ learned \in [Addrs -> {n \in AnyName : n.kind # "number"}]
  /\ row = [m \in Messages |-> row[m]]
  /\ \A m \in Messages : row[m] = NoRow \/ IsRow(row[m])
  /\ title \in [Addrs -> AnyName]
  /\ handling # NoRow => handling.msg \in Messages /\ IsRow(handling.row) /\ handling.chat \in AnyName
  /\ phase \in {"migrate"} \cup Migrated
  /\ quiet \in BOOLEAN /\ settled \in BOOLEAN

\* The three things UpToDate says of a name, each the work of one kind of pass.
NotStale(n, a) == IsNumber(n) => DisplayName(a, None) = None
Agrees(n, a) == Saved(a) # None => n = Saved(a)
HasMark(n, a) == ~IsSaved(a) => n.kind # "text"

Moved == \A p \in Mapped : title[<<p, "lid">>] = None
TitlesNotStale == \A a \in Addrs : title[a] # None => NotStale(title[a], a)
TitlesAgree == \A a \in Addrs : title[a] # None => Agrees(title[a], a)
TitlesMarked == \A a \in Addrs : title[a] # None => HasMark(title[a], a)
RowsNotStale == \A m \in Messages : row[m] # NoRow => NotStale(row[m].name, row[m].from)
RowsAgree == \A m \in Messages : row[m] # NoRow => Agrees(row[m].name, row[m].from)
RowsMarked == \A m \in Messages : row[m] # NoRow => HasMark(row[m].name, row[m].from)

\* How far an undisturbed repair has come, by the pass it comes to next.
Repaired ==
  quiet =>
    /\ phase \in Migrated => Moved
    /\ phase \in Migrated \ {"chats"} => TitlesNotStale
    /\ phase \in Migrated \ {"chats", "senders"} => RowsNotStale
    /\ phase \in {"mark", "mentions", "previews", "serve"} => TitlesAgree /\ RowsAgree
    /\ phase \in {"mentions", "previews", "serve"} => TitlesMarked /\ RowsMarked

PreviewIsNewest ==
  GroupRows # {} => groupPreview = [msg |-> Max(GroupRows), name |-> row[Max(GroupRows)].name]

Clean ==
  /\ Moved
  /\ TitlesNotStale /\ TitlesAgree /\ TitlesMarked
  /\ RowsNotStale /\ RowsAgree /\ RowsMarked
  /\ PreviewIsNewest

NamesInv == NamesTypeInv /\ Repaired /\ (settled => Clean)

-----------------------------------------------------------------------------
(* Addresses and names                                                     *)

\* Addresses are closed under Canon, and NoOne is none of them.
LEMMA AddrsAre ==
  ASSUME Mapped \subseteq Hidden, NEW a \in Addrs
  PROVE  /\ Canon(a) \in Addrs /\ a[1] \in People /\ a # NoOne
         /\ a = <<a[1], a[2]>>
         /\ a[1] \in Mapped => Canon(a) = <<a[1], "pn">>
BY PeopleAssumption DEF Addrs, Canon, NoOne

\* The names the module builds.
LEMMA NamesAre ==
  /\ None \in AnyName /\ None.kind = "none" /\ \A n \in AnyName : n.kind = "none" => n = None
  /\ \A a \in Addrs : Number(a) \in AnyName /\ Number(a).kind = "number"
  /\ \A s \in {"nick", "book", "phone"}, p \in People :
       Text(s, p) \in AnyName /\ Text(s, p).kind = "text"
  /\ \A p \in People : OwnName(p) \in AnyName /\ OwnName(p).kind = "text"
  /\ \A n \in AnyName : Marked(n) \in AnyName /\ Marked(n).kind # "text"
                        /\ (n.kind = "text" => Marked(n).kind = "marked")
                        /\ (n.kind # "text" => Marked(n) = n)
<1>1. None \in AnyName /\ None.kind = "none" /\ \A n \in AnyName : n.kind = "none" => n = None
  BY DEF None, AnyName
<1>2. \A a \in Addrs : Number(a) \in AnyName /\ Number(a).kind = "number"
  BY DEF Number, AnyName, Owners
<1>3. \A s \in {"nick", "book", "phone"}, p \in People :
        Text(s, p) \in AnyName /\ Text(s, p).kind = "text"
  BY DEF Text, AnyName, Owners
<1>4. ASSUME NEW p \in People PROVE OwnName(p) \in AnyName /\ OwnName(p).kind = "text"
  <2>1. (IF Namesakes THEN <<"own">> ELSE <<"own", p>>) \in Owners
    BY DEF Owners
  <2> QED BY <2>1 DEF OwnName, AnyName
<1>5. ASSUME NEW n \in AnyName
      PROVE  /\ Marked(n) \in AnyName /\ Marked(n).kind # "text"
             /\ n.kind = "text" => Marked(n).kind = "marked"
             /\ n.kind # "text" => Marked(n) = n
  <2>1. CASE n.kind = "text"
    <3>1. Marked(n) = [n EXCEPT !.kind = "marked"]
      BY <2>1 DEF Marked
    <3>3. n \in [kind : {"number", "text", "marked"}, of : Owners]
      BY <2>1 DEF AnyName, None
    <3>2. Marked(n) \in AnyName /\ Marked(n).kind = "marked"
      BY <3>1, <3>3 DEF AnyName
    <3> QED BY <2>1, <3>2
  <2>2. CASE n.kind # "text"
    BY <2>2 DEF Marked
  <2> QED BY <2>1, <2>2
<1> QED BY <1>1, <1>2, <1>3, <1>4, <1>5

\* What the user has saved is a text, if it is there.
LEMMA SavedIs ==
  ASSUME NEW a, a[1] \in People
  PROVE  Saved(a) \in AnyName /\ (Saved(a) # None => Saved(a).kind = "text")
<1>1. Saved(a) \in {Text("nick", a[1]), Text("book", a[1]), None}
  BY DEF Saved
<1> QED BY <1>1, NamesAre

\* The name that is shown for an address: the saved one or a marked one, a number
\* only if that is what came along.
LEMMA DisplayNameIs ==
  ASSUME NamesTypeInv, NEW a \in Addrs, NEW pushed \in AnyName
  PROVE  /\ DisplayName(a, pushed) \in AnyName
         /\ Saved(a) # None => DisplayName(a, pushed) = Saved(a)
         /\ ~IsSaved(a) => DisplayName(a, pushed).kind # "text"
         /\ IsNumber(DisplayName(a, pushed)) => IsNumber(pushed)
<1>1. a[1] \in People
  BY AddrsAre DEF NamesTypeInv
<1>2. CASE Saved(a) # None
  BY <1>1, <1>2, SavedIs DEF DisplayName, IsNumber, IsSaved
<1>3. CASE Saved(a) = None /\ InBook(a, pushed)
  <2>1. DisplayName(a, pushed) = Text("book", a[1])
    BY <1>3 DEF DisplayName
  <2>2. IsSaved(a)
    BY <1>3 DEF InBook, IsSaved
  <2> QED BY <1>1, <1>3, <2>1, <2>2, NamesAre DEF IsNumber
<1>4. CASE Saved(a) = None /\ ~InBook(a, pushed)
  <2>1. Chosen(a, pushed) \in {pushed, OwnName(a[1]), learned[a]}
    BY DEF Chosen
  <2>2. pushed = None => Chosen(a, pushed) # pushed \/ ~IsNumber(pushed)
    BY NamesAre DEF IsNumber
  <2>3. learned[a] \in AnyName /\ ~IsNumber(learned[a])
    BY DEF NamesTypeInv, IsNumber
  <2>4. Chosen(a, pushed) \in AnyName /\ (IsNumber(Chosen(a, pushed)) => IsNumber(pushed))
    BY <1>1, <2>1, <2>2, <2>3, NamesAre DEF IsNumber
  <2>5. DisplayName(a, pushed) = Marked(Chosen(a, pushed))
    BY <1>4 DEF DisplayName
  <2> HIDE DEF IsNumber
  <2>6. IsNumber(Marked(Chosen(a, pushed))) => IsNumber(Chosen(a, pushed))
    BY <2>4, NamesAre DEF IsNumber
  <2> QED BY <1>4, <2>4, <2>5, <2>6, NamesAre
<1> QED BY <1>2, <1>3, <1>4

\* The same with something to fall back on: there always is a name.
LEMMA LabelIs ==
  ASSUME NamesTypeInv, NEW a \in Addrs, NEW pushed \in AnyName, NEW m \in AnyName, m # None
  PROVE  OrElse(DisplayName(a, pushed), m) \in AnyName \ {None}
BY DisplayNameIs DEF OrElse

\* A row keeps its shape and its sender when its name is replaced, or
LEMMA RowNamed ==
  ASSUME NEW r, IsRow(r), NEW x \in AnyName \ {None}
  PROVE  LET q == [r EXCEPT !.name = x] IN
         IsRow(q) /\ q.name = x /\ q.from = r.from /\ q.group = r.group
<1>1. [r EXCEPT !.name = x] = [from |-> r.from, name |-> x, ref |-> r.ref, group |-> r.group]
  BY DEF IsRow
<1> QED BY <1>1 DEF IsRow

\* the name in what it refers to.
LEMMA RowQuoting ==
  ASSUME NEW r, IsRow(r), NEW y
  PROVE  LET q == [r EXCEPT !.ref.name = y] IN
         IsRow(q) /\ q.name = r.name /\ q.from = r.from /\ q.group = r.group
<1> DEFINE f == [r.ref EXCEPT !.name = y]
<1>1. [r EXCEPT !.ref.name = y] = [from |-> r.from, name |-> r.name, ref |-> f, group |-> r.group]
  BY DEF IsRow
<1> HIDE DEF f
<1> QED BY <1>1 DEF IsRow

\* A row is not the absence of one.
LEMMA RowIsThere == ASSUME NEW r, IsRow(r) PROVE r # NoRow
<1>1. r.from \in Addrs /\ NoRow.from = NoOne
  BY DEF IsRow, NoRow
<1> QED BY <1>1, PeopleAssumption DEF Addrs, NoOne

\* What the passes and handlers preserve: nobody's knowledge of names changes.
Knowing == UNCHANGED <<facts, nick, learned>>

\* Then what a name resolves to stays the same, too.
LEMMA KnowingNames ==
  ASSUME Knowing
  PROVE  /\ \A a : Saved(a)' = Saved(a) /\ IsSaved(a)' = IsSaved(a)
         /\ \A a : DisplayName(a, None)' = DisplayName(a, None)
BY DEF Knowing, facts, numbers, Saved, IsSaved, DisplayName, Chosen, Canon, Mapped, Finds, OwnKnown, InBook

\* A name is replaced by one that is as good in every respect, and one that was
\* right by itself.
Kept(n, x, a) ==
  /\ NotStale(n, a) => NotStale(x, a)
  /\ Agrees(n, a) => Agrees(x, a)
  /\ HasMark(n, a) => HasMark(x, a)
  /\ NotStale(n, a) /\ Agrees(n, a) /\ HasMark(n, a) => x = n

\* A bare number is resolved.
LEMMA BackfilledIs ==
  ASSUME NamesTypeInv, NEW a \in Addrs, NEW n \in AnyName
  PROVE  /\ Backfilled(n, a) \in AnyName /\ (n # None => Backfilled(n, a) # None)
         /\ (n = None => Backfilled(n, a) = None)
         /\ NotStale(Backfilled(n, a), a)
         /\ Kept(n, Backfilled(n, a), a)
<1> DEFINE d == DisplayName(a, None)
<1>1. /\ d \in AnyName /\ (Saved(a) # None => d = Saved(a)) /\ (~IsSaved(a) => d.kind # "text")
      /\ ~IsNumber(d)
  BY DisplayNameIs, NamesAre DEF IsNumber
<1>2. CASE ~IsNumber(n)
  <2>1. Backfilled(n, a) = n
    BY <1>2 DEF Backfilled
  <2> QED BY <1>2, <2>1 DEF NotStale, Kept
<1>3. CASE IsNumber(n) /\ d = None
  <2>1. Backfilled(n, a) = n
    BY <1>3 DEF Backfilled, OrElse
  <2> QED BY <1>3, <2>1, NamesAre DEF NotStale, Kept, IsNumber
<1>4. CASE IsNumber(n) /\ d # None
  <2>1. Backfilled(n, a) = d
    BY <1>4 DEF Backfilled, OrElse
  <2>2. n # None /\ NotStale(d, a) /\ ~NotStale(n, a)
    BY <1>1, <1>4, NamesAre DEF NotStale, IsNumber
  <2>3. Agrees(d, a) /\ HasMark(d, a)
    BY <1>1 DEF Agrees, HasMark
  <2> HIDE DEF d
  <2> QED BY <1>1, <1>4, <2>1, <2>2, <2>3 DEF Kept
<1> QED BY <1>2, <1>3, <1>4

\* What RefreshNames makes of a name at an address it looks at.
LEMMA RefreshedIs ==
  ASSUME NamesTypeInv, NEW a \in Addrs, NEW n \in AnyName
  PROVE  LET x == Corrected(SavedNames, a, n) IN
         /\ x \in AnyName /\ (n # None => x # None)
         /\ Kept(n, x, a)
         /\ <<a, n>> \in StoredNames \cup Titles => Agrees(x, a)
         /\ <<a, n>> \notin StoredNames \cup Titles => x = n
<1> DEFINE x == Corrected(SavedNames, a, n)
           D == {t \in StoredNames \cup Titles : Outdated(t[1], t[2])}
<1>1. DOMAIN SavedNames = D /\ \A s \in D : SavedNames[s] = Saved(s[1])
  BY DEF SavedNames
<1>2. <<a, n>> \in D <=> <<a, n>> \in StoredNames \cup Titles /\ Saved(a) # None /\ Saved(a) # n
  BY DEF Outdated
<1>3. Saved(a) \in AnyName /\ (Saved(a) # None => Saved(a).kind = "text" /\ IsSaved(a))
  BY AddrsAre, SavedIs DEF NamesTypeInv, IsSaved
<1>4. CASE <<a, n>> \in D
  <2>1. x = Saved(a)
    BY <1>1, <1>4 DEF Corrected
  <2>2. Saved(a) # None /\ Saved(a) # n /\ <<a, n>> \in StoredNames \cup Titles
    BY <1>2, <1>4
  <2> HIDE DEF D
  <2> QED BY <1>3, <2>1, <2>2 DEF Kept, NotStale, Agrees, HasMark, IsNumber
<1>5. CASE <<a, n>> \notin D
  <2>1. x = n
    BY <1>1, <1>5 DEF Corrected
  <2> HIDE DEF D
  <2> QED BY <1>2, <1>5, <2>1 DEF Kept, Agrees
<1> QED BY <1>4, <1>5

\* What markUnsavedNames makes of a name at an address it looks at.
LEMMA MarkedIs ==
  ASSUME NamesTypeInv, NEW a \in Addrs, NEW n \in AnyName
  PROVE  LET x == Corrected(MarkedNames, a, n) IN
         /\ x \in AnyName /\ (n # None => x # None)
         /\ Kept(n, x, a)
         /\ <<a, n>> \in StoredNames \cup Titles => HasMark(x, a)
         /\ <<a, n>> \notin StoredNames \cup Titles => x = n
<1> DEFINE x == Corrected(MarkedNames, a, n)
           D == {t \in StoredNames \cup Titles : Unmarked(t[1], t[2])}
<1>1. DOMAIN MarkedNames = D /\ \A s \in D : MarkedNames[s] = Marked(s[2])
  BY DEF MarkedNames
<1>2. <<a, n>> \in D <=> <<a, n>> \in StoredNames \cup Titles /\ n.kind = "text" /\ ~IsSaved(a)
  BY DEF Unmarked
<1>3. CASE <<a, n>> \in D
  <2>1. x = Marked(n)
    BY <1>1, <1>3 DEF Corrected
  <2>2. n.kind = "text" /\ ~IsSaved(a) /\ Saved(a) = None /\ <<a, n>> \in StoredNames \cup Titles
    BY <1>2, <1>3 DEF IsSaved
  <2> HIDE DEF D
  <2>3. x \in AnyName /\ x.kind = "marked"
    BY <2>1, <2>2, NamesAre
  <2> QED BY <2>2, <2>3, NamesAre DEF Kept, NotStale, Agrees, HasMark, IsNumber
<1>4. CASE <<a, n>> \notin D
  <2>1. x = n
    BY <1>1, <1>4 DEF Corrected
  <2> HIDE DEF D
  <2> QED BY <1>2, <1>4, <2>1 DEF Kept, HasMark
<1> QED BY <1>3, <1>4

-----------------------------------------------------------------------------
(* The passes                                                              *)

\* A pass that replaces names and changes nothing else, for better.
Replaces ==
  /\ Knowing /\ UNCHANGED <<handling, quiet>>
  /\ title' \in [Addrs -> AnyName]
  /\ \A a \in Addrs :
       (title[a] = None => title'[a] = None) /\ Kept(title[a], title'[a], a)
  /\ row' = [m \in Messages |-> row'[m]]
  /\ \A m \in Messages : row[m] = NoRow => row'[m] = NoRow
  /\ \A m \in Messages : row[m] # NoRow =>
       /\ IsRow(row'[m]) /\ row'[m].from = row[m].from /\ row'[m].group = row[m].group
       /\ Kept(row[m].name, row'[m].name, row[m].from)

\* Names that are left alone are kept.
LEMMA SameIsKept == ASSUME NEW n, NEW a PROVE Kept(n, n, a)
BY DEF Kept

\* A pass over the titles.
LEMMA BackfillChatNamesReplaces ==
  ASSUME NamesTypeInv, BackfillChatNames
  PROVE  Replaces /\ \A a \in Addrs : NotStale(title'[a], a)
<1>1. /\ Knowing /\ UNCHANGED <<handling, quiet, row>>
      /\ title' = [a \in Addrs |-> Backfilled(title[a], a)]
  BY DEF BackfillChatNames, Pass, Knowing
<1>2. \A a \in Addrs : title'[a] = Backfilled(title[a], a) /\ title[a] \in AnyName
  BY <1>1 DEF NamesTypeInv
<1>3. title' \in [Addrs -> AnyName]
  BY <1>1, <1>2, BackfilledIs
<1>4. \A m \in Messages : row[m] # NoRow =>
        IsRow(row[m]) /\ Kept(row[m].name, row[m].name, row[m].from)
  BY SameIsKept DEF NamesTypeInv
<1>5. row = [m \in Messages |-> row[m]]
  BY DEF NamesTypeInv
<1> QED BY <1>1, <1>2, <1>3, <1>4, <1>5, BackfilledIs DEF Replaces

\* A pass over the senders.
LEMMA BackfillSenderNamesReplaces ==
  ASSUME NamesTypeInv, BackfillSenderNames
  PROVE  /\ Replaces
         /\ \A m \in Messages : row[m] # NoRow => NotStale(row'[m].name, row[m].from)
<1>1. /\ Knowing /\ UNCHANGED <<handling, quiet, title>>
      /\ row' = [m \in Messages |-> IF row[m] = NoRow THEN NoRow
                                ELSE [row[m] EXCEPT !.name = Backfilled(@, row[m].from)]]
  BY DEF BackfillSenderNames, Pass, Knowing
<1>2. \A m \in Messages : row[m] = NoRow => row'[m] = NoRow
  BY <1>1
<1>3. ASSUME NEW m \in Messages, row[m] # NoRow
      PROVE  /\ IsRow(row'[m]) /\ row'[m].from = row[m].from /\ row'[m].group = row[m].group
             /\ Kept(row[m].name, row'[m].name, row[m].from)
             /\ NotStale(row'[m].name, row[m].from)
  <2> DEFINE x == Backfilled(row[m].name, row[m].from)
  <2>1. IsRow(row[m]) /\ row[m].from \in Addrs /\ row[m].name \in AnyName \ {None}
    BY <1>3 DEF NamesTypeInv, IsRow
  <2>2. row'[m] = [row[m] EXCEPT !.name = x]
    BY <1>1, <1>3
  <2>3. x \in AnyName \ {None} /\ Kept(row[m].name, x, row[m].from) /\ NotStale(x, row[m].from)
    BY <2>1, BackfilledIs
  <2> HIDE DEF x
  <2>4. /\ IsRow(row'[m]) /\ row'[m].from = row[m].from /\ row'[m].group = row[m].group
        /\ row'[m].name = x
    BY <2>1, <2>2, <2>3, RowNamed
  <2> QED BY <2>3, <2>4
<1>4. row' = [m \in Messages |-> row'[m]]
  BY <1>1
<1>5. title' \in [Addrs -> AnyName] /\ \A a \in Addrs : title'[a] = title[a]
  BY <1>1 DEF NamesTypeInv
<1>6. \A a \in Addrs : (title[a] = None => title'[a] = None) /\ Kept(title[a], title'[a], a)
  BY <1>5, SameIsKept
<1> QED BY <1>1, <1>2, <1>3, <1>4, <1>5, <1>6 DEF Replaces

\* A pass over the quotes, or over the mentions: no sender and no title changes.
LEMMA RefsBackfilledReplaces ==
  ASSUME NamesTypeInv, NEW kind, RefsBackfilled(kind), Knowing, UNCHANGED <<handling, quiet, title>>
  PROVE  Replaces
<1>1. row' = [m \in Messages |->
                IF row[m] # NoRow /\ row[m].ref.kind = kind /\ IsNumber(row[m].ref.name)
                THEN [row[m] EXCEPT !.ref.name = Backfilled(@, @.of)] ELSE row[m]]
  BY DEF RefsBackfilled
<1>2. \A m \in Messages : row[m] = NoRow => row'[m] = NoRow
  BY <1>1
<1>3. ASSUME NEW m \in Messages, row[m] # NoRow
      PROVE  /\ IsRow(row'[m]) /\ row'[m].from = row[m].from /\ row'[m].group = row[m].group
             /\ Kept(row[m].name, row'[m].name, row[m].from)
  <2>1. IsRow(row[m]) /\ row[m].name \in AnyName \ {None}
    BY <1>3 DEF NamesTypeInv, IsRow
  <2> DEFINE y == Backfilled(row[m].ref.name, row[m].ref.name.of)
  <2>2. row'[m] = row[m] \/ row'[m] = [row[m] EXCEPT !.ref.name = y]
    BY <1>1, <1>3
  <2> HIDE DEF y
  <2>4. LET q == [row[m] EXCEPT !.ref.name = y] IN
        IsRow(q) /\ q.name = row[m].name /\ q.from = row[m].from /\ q.group = row[m].group
    BY <2>1, RowQuoting
  <2>3. /\ IsRow(row'[m]) /\ row'[m].from = row[m].from /\ row'[m].group = row[m].group
        /\ row'[m].name = row[m].name
    BY <2>1, <2>2, <2>4
  <2> QED BY <2>3, SameIsKept
<1>4. row' = [m \in Messages |-> row'[m]]
  BY <1>1
<1>5. title' \in [Addrs -> AnyName] /\ \A a \in Addrs : title'[a] = title[a]
  BY DEF NamesTypeInv
<1>6. \A a \in Addrs : (title[a] = None => title'[a] = None) /\ Kept(title[a], title'[a], a)
  BY <1>5, SameIsKept
<1> QED BY <1>2, <1>3, <1>4, <1>5, <1>6 DEF Replaces

\* A pass that corrects names, whatever it makes of the quotes.
LEMMA CorrectsNames ==
  ASSUME NamesTypeInv, NEW fix, Corrects(fix),
         \A a \in Addrs, n \in AnyName :
           Corrected(fix, a, n) \in AnyName /\ (n # None => Corrected(fix, a, n) # None)
  PROVE  /\ title' \in [Addrs -> AnyName]
         /\ \A a \in Addrs : title'[a] = Corrected(fix, a, title[a])
         /\ row' = [m \in Messages |-> row'[m]]
         /\ \A m \in Messages : row[m] = NoRow => row'[m] = NoRow
         /\ \A m \in Messages : row[m] # NoRow =>
              /\ IsRow(row'[m]) /\ row'[m].from = row[m].from /\ row'[m].group = row[m].group
              /\ row'[m].name = Corrected(fix, row[m].from, row[m].name)
<1>1. PICK f \in Replacements(fix) : \E order \in SetToSeqs(DOMAIN f) :
        row' = [m \in Messages |->
                 IF row[m] = NoRow THEN NoRow
                 ELSE [row[m] EXCEPT
                         !.name = Corrected(fix, row[m].from, @),
                         !.ref.name = IF row[m].ref.kind = "quote"
                                      THEN Requoted(@, f, order) ELSE @]]
  BY DEF Corrects
<1>4. PICK order \in SetToSeqs(DOMAIN f) :
        row' = [m \in Messages |->
                 IF row[m] = NoRow THEN NoRow
                 ELSE [row[m] EXCEPT
                         !.name = Corrected(fix, row[m].from, @),
                         !.ref.name = IF row[m].ref.kind = "quote"
                                      THEN Requoted(@, f, order) ELSE @]]
  BY <1>1
<1>2. title' = [a \in Addrs |-> Corrected(fix, a, title[a])]
  BY DEF Corrects
<1>3. ASSUME NEW m \in Messages, row[m] # NoRow
      PROVE  /\ IsRow(row'[m]) /\ row'[m].from = row[m].from /\ row'[m].group = row[m].group
             /\ row'[m].name = Corrected(fix, row[m].from, row[m].name)
  <2> DEFINE x == Corrected(fix, row[m].from, row[m].name)
             q == [row[m] EXCEPT !.name = x]
             y == IF row[m].ref.kind = "quote" THEN Requoted(q.ref.name, f, order) ELSE q.ref.name
  <2>1. IsRow(row[m]) /\ row[m].from \in Addrs /\ row[m].name \in AnyName \ {None}
    BY <1>3 DEF NamesTypeInv, IsRow
  <2>2. row'[m] = [q EXCEPT !.ref.name = y]
    BY <1>4, <1>3
  <2>3. x \in AnyName \ {None}
    BY <2>1
  <2> HIDE DEF x, y
  <2>4. IsRow(q) /\ q.name = x /\ q.from = row[m].from /\ q.group = row[m].group
    BY <2>1, <2>3, RowNamed
  <2> HIDE DEF q
  <2>6. LET o == [q EXCEPT !.ref.name = y] IN
        IsRow(o) /\ o.name = q.name /\ o.from = q.from /\ o.group = q.group
    BY <2>4, RowQuoting
  <2>5. IsRow(row'[m]) /\ row'[m].name = x /\ row'[m].from = row[m].from /\ row'[m].group = row[m].group
    BY <2>2, <2>4, <2>6
  <2> QED BY <2>5 DEF x
<1>5. row' = [m \in Messages |-> row'[m]] /\ \A m \in Messages : row[m] = NoRow => row'[m] = NoRow
  BY <1>4
<1>6. \A a \in Addrs : title[a] \in AnyName
  BY DEF NamesTypeInv
<1>7. title' \in [Addrs -> AnyName]
  BY <1>2, <1>6
<1> QED BY <1>2, <1>3, <1>5, <1>7

\* A name of a row is a stored name, that of a listed chat a title.
LEMMA NamesStored ==
  ASSUME NamesTypeInv
  PROVE  /\ \A m \in Messages : row[m] # NoRow =>
              /\ row[m].from \in Addrs /\ row[m].name \in AnyName \ {None}
              /\ <<row[m].from, row[m].name>> \in StoredNames \cup Titles
         /\ \A a \in Addrs : title[a] # None => <<a, title[a]>> \in StoredNames \cup Titles
         /\ \A a \in Addrs : <<a, None>> \notin StoredNames \cup Titles
<1>1. \A m \in Messages : row[m] # NoRow =>
        row[m].from \in Addrs /\ row[m].name \in AnyName \ {None}
  BY DEF NamesTypeInv, IsRow
<1> QED BY <1>1 DEF StoredNames, Titles

\* RefreshNames
LEMMA RefreshNamesReplaces ==
  ASSUME NamesTypeInv, RefreshNames
  PROVE  /\ Replaces
         /\ \A a \in Addrs : title'[a] # None => Agrees(title'[a], a)
         /\ \A m \in Messages : row[m] # NoRow => Agrees(row'[m].name, row[m].from)
<1>1. Knowing /\ UNCHANGED <<handling, quiet>> /\ Corrects(SavedNames)
  BY DEF RefreshNames, Pass, Knowing
<1>2. /\ title' \in [Addrs -> AnyName]
      /\ \A a \in Addrs : title'[a] = Corrected(SavedNames, a, title[a])
      /\ row' = [m \in Messages |-> row'[m]]
      /\ \A m \in Messages : row[m] = NoRow => row'[m] = NoRow
      /\ \A m \in Messages : row[m] # NoRow =>
           /\ IsRow(row'[m]) /\ row'[m].from = row[m].from /\ row'[m].group = row[m].group
           /\ row'[m].name = Corrected(SavedNames, row[m].from, row[m].name)
  BY <1>1, RefreshedIs, CorrectsNames
<1>3. \A a \in Addrs : title[a] \in AnyName
  BY DEF NamesTypeInv
<1>4. \A a \in Addrs :
        /\ title[a] = None => title'[a] = None
        /\ Kept(title[a], title'[a], a) /\ (title'[a] # None => Agrees(title'[a], a))
  <2> SUFFICES ASSUME NEW a \in Addrs
               PROVE  /\ title[a] = None => title'[a] = None
                      /\ Kept(title[a], title'[a], a) /\ (title'[a] # None => Agrees(title'[a], a))
    OBVIOUS
  <2>1. LET x == Corrected(SavedNames, a, title[a]) IN
        /\ Kept(title[a], x, a)
        /\ <<a, title[a]>> \in StoredNames \cup Titles => Agrees(x, a)
        /\ <<a, title[a]>> \notin StoredNames \cup Titles => x = title[a]
    BY <1>3, RefreshedIs
  <2>2. title'[a] = Corrected(SavedNames, a, title[a])
    BY <1>2
  <2> QED BY <2>1, <2>2, NamesStored
<1>5. \A m \in Messages : row[m] # NoRow =>
        Kept(row[m].name, row'[m].name, row[m].from) /\ Agrees(row'[m].name, row[m].from)
  <2> SUFFICES ASSUME NEW m \in Messages, row[m] # NoRow
               PROVE  Kept(row[m].name, row'[m].name, row[m].from) /\ Agrees(row'[m].name, row[m].from)
    OBVIOUS
  <2>1. /\ row[m].from \in Addrs /\ row[m].name \in AnyName
        /\ <<row[m].from, row[m].name>> \in StoredNames \cup Titles
    BY NamesStored
  <2>2. LET x == Corrected(SavedNames, row[m].from, row[m].name) IN
        Kept(row[m].name, x, row[m].from) /\ Agrees(x, row[m].from)
    BY <2>1, RefreshedIs
  <2> QED BY <1>2, <2>2
<1> QED BY <1>1, <1>2, <1>4, <1>5 DEF Replaces

\* markUnsavedNames
LEMMA MarkUnsavedNamesReplaces ==
  ASSUME NamesTypeInv, MarkUnsavedNames
  PROVE  /\ Replaces
         /\ \A a \in Addrs : title'[a] # None => HasMark(title'[a], a)
         /\ \A m \in Messages : row[m] # NoRow => HasMark(row'[m].name, row[m].from)
<1>1. Knowing /\ UNCHANGED <<handling, quiet>> /\ Corrects(MarkedNames)
  BY DEF MarkUnsavedNames, Pass, Knowing
<1>2. /\ title' \in [Addrs -> AnyName]
      /\ \A a \in Addrs : title'[a] = Corrected(MarkedNames, a, title[a])
      /\ row' = [m \in Messages |-> row'[m]]
      /\ \A m \in Messages : row[m] = NoRow => row'[m] = NoRow
      /\ \A m \in Messages : row[m] # NoRow =>
           /\ IsRow(row'[m]) /\ row'[m].from = row[m].from /\ row'[m].group = row[m].group
           /\ row'[m].name = Corrected(MarkedNames, row[m].from, row[m].name)
  BY <1>1, MarkedIs, CorrectsNames
<1>3. \A a \in Addrs : title[a] \in AnyName
  BY DEF NamesTypeInv
<1>4. \A a \in Addrs :
        /\ title[a] = None => title'[a] = None
        /\ Kept(title[a], title'[a], a) /\ (title'[a] # None => HasMark(title'[a], a))
  <2> SUFFICES ASSUME NEW a \in Addrs
               PROVE  /\ title[a] = None => title'[a] = None
                      /\ Kept(title[a], title'[a], a) /\ (title'[a] # None => HasMark(title'[a], a))
    OBVIOUS
  <2>1. LET x == Corrected(MarkedNames, a, title[a]) IN
        /\ Kept(title[a], x, a)
        /\ <<a, title[a]>> \in StoredNames \cup Titles => HasMark(x, a)
        /\ <<a, title[a]>> \notin StoredNames \cup Titles => x = title[a]
    BY <1>3, MarkedIs
  <2>2. title'[a] = Corrected(MarkedNames, a, title[a])
    BY <1>2
  <2> QED BY <2>1, <2>2, NamesStored
<1>5. \A m \in Messages : row[m] # NoRow =>
        Kept(row[m].name, row'[m].name, row[m].from) /\ HasMark(row'[m].name, row[m].from)
  <2> SUFFICES ASSUME NEW m \in Messages, row[m] # NoRow
               PROVE  Kept(row[m].name, row'[m].name, row[m].from) /\ HasMark(row'[m].name, row[m].from)
    OBVIOUS
  <2>1. /\ row[m].from \in Addrs /\ row[m].name \in AnyName
        /\ <<row[m].from, row[m].name>> \in StoredNames \cup Titles
    BY NamesStored
  <2>2. LET x == Corrected(MarkedNames, row[m].from, row[m].name) IN
        Kept(row[m].name, x, row[m].from) /\ HasMark(x, row[m].from)
    BY <2>1, MarkedIs
  <2> QED BY <1>2, <2>2
<1> QED BY <1>1, <1>2, <1>4, <1>5 DEF Replaces

-----------------------------------------------------------------------------
(* The newest message                                                      *)

\* A finite set of numbers that is not empty has its greatest element.
LEMMA MaxIs ==
  ASSUME NEW S, S \subseteq Nat, IsFiniteSet(S), S # {}
  PROVE  Max(S) \in S
<1> DEFINE Above(k) == {n \in S : n > k}
           R == OpToRel(<, Nat)
           T == {Cardinality(Above(k)) : k \in S}
<1>1. \A k \in S : IsFiniteSet(Above(k)) /\ Cardinality(Above(k)) \in Nat
  <2> SUFFICES ASSUME NEW k \in S PROVE IsFiniteSet(Above(k)) /\ Cardinality(Above(k)) \in Nat
    OBVIOUS
  <2>1. Above(k) \in SUBSET S
    OBVIOUS
  <2> HIDE DEF Above
  <2> QED BY <2>1, FS_Subset, FS_CardinalityType
<1>2. T \subseteq Nat /\ T # {}
  <2> HIDE DEF Above
  <2> QED BY <1>1
<1>3. PICK x \in T : \A y \in T : ~ (<<y, x>> \in R)
  <2> HIDE DEF T, R
  <2>1. IsWellFoundedOn(R, Nat)
    BY NatLessThanWellFounded DEF R
  <2> QED BY <1>2, <2>1, WFMin
<1>4. \A y \in T : ~ (y < x)
  <2> HIDE DEF T
  <2> QED BY <1>2, <1>3 DEF OpToRel
<1>5. PICK k \in S : x = Cardinality(Above(k))
  OBVIOUS
<1>6. ASSUME NEW n \in Above(k) PROVE FALSE
  <2>1. n \in S /\ n > k /\ k \in Nat /\ n \in Nat
    OBVIOUS
  <2>2. Above(n) \in SUBSET Above(k) /\ n \notin Above(n)
    <3>1. ASSUME NEW i \in Above(n) PROVE i \in Above(k)
      BY <2>1
    <3>2. n \notin Above(n)
      BY <2>1
    <3> QED BY <3>1, <3>2
  <2>3. Cardinality(Above(n)) \in T
    BY <2>1
  <2> HIDE DEF Above, T
  <2>4. Cardinality(Above(n)) < Cardinality(Above(k))
    <3>1. IsFiniteSet(Above(k)) /\ Cardinality(Above(k)) \in Nat /\ Cardinality(Above(n)) \in Nat
      BY <1>1, <2>1
    <3>2. Above(n) # Above(k)
      BY <1>6, <2>2
    <3> QED BY <2>2, <3>1, <3>2, FS_Subset
  <2> QED BY <1>4, <1>5, <2>3, <2>4
<1>7. k \in S /\ \A n \in S : k >= n
  BY <1>6
<1> QED BY <1>7 DEF Max

\* The preview's message is one that has a row.
LEMMA NewestIsThere == GroupRows # {} => Max(GroupRows) \in GroupRows
<1>1. GroupRows \in SUBSET Messages
  BY DEF GroupRows
<1>2. GroupRows \subseteq Nat /\ IsFiniteSet(GroupRows)
  BY <1>1, MessagesAssumption, FS_Subset
<1> QED BY <1>2, MaxIs

-----------------------------------------------------------------------------
(* A pass and what was put right before                                    *)

\* A pass that replaces names for better undoes nothing.
LEMMA ReplacesKeeps ==
  ASSUME NamesTypeInv, Replaces
  PROVE  /\ Moved => Moved'
         /\ TitlesNotStale => TitlesNotStale'
         /\ TitlesAgree => TitlesAgree'
         /\ TitlesMarked => TitlesMarked'
         /\ RowsNotStale => RowsNotStale'
         /\ RowsAgree => RowsAgree'
         /\ RowsMarked => RowsMarked'
<1>1. /\ \A a : Saved(a)' = Saved(a) /\ IsSaved(a)' = IsSaved(a)
      /\ \A a : DisplayName(a, None)' = DisplayName(a, None)
  BY KnowingNames DEF Replaces
<1>2. \A a \in Addrs : title'[a] # None => title[a] # None /\ Kept(title[a], title'[a], a)
  BY DEF Replaces
<1>3. \A m \in Messages : row'[m] # NoRow =>
        row[m] # NoRow /\ row'[m].from = row[m].from /\ Kept(row[m].name, row'[m].name, row[m].from)
  BY DEF Replaces
<1>4. \A n, a : NotStale(n, a) <=> (IsNumber(n) => DisplayName(a, None)' = None)
  BY <1>1 DEF NotStale
<1>5. \A n, a : Agrees(n, a) <=> (Saved(a)' # None => n = Saved(a)')
  BY <1>1 DEF Agrees
<1>6. \A n, a : HasMark(n, a) <=> (~IsSaved(a)' => n.kind # "text")
  BY <1>1 DEF HasMark
<1>7. Moved => Moved'
  <2>1. ASSUME Moved, NEW p \in Mapped PROVE title'[<<p, "lid">>] = None
    <3>1. <<p, "lid">> \in Addrs
      BY <2>1 DEF NamesTypeInv, Addrs
    <3> QED BY <2>1, <3>1 DEF Moved, Replaces
  <2> QED BY <2>1 DEF Moved, Mapped, Replaces, Knowing, facts, numbers
<1>8. TitlesNotStale => TitlesNotStale'
  BY <1>2, <1>4 DEF TitlesNotStale, Kept, NotStale
<1>9. TitlesAgree => TitlesAgree'
  BY <1>2, <1>5 DEF TitlesAgree, Kept, Agrees
<1>10. TitlesMarked => TitlesMarked'
  BY <1>2, <1>6 DEF TitlesMarked, Kept, HasMark
<1>11. RowsNotStale => RowsNotStale'
  BY <1>3, <1>4 DEF RowsNotStale, Kept, NotStale
<1>12. RowsAgree => RowsAgree'
  BY <1>3, <1>5 DEF RowsAgree, Kept, Agrees
<1>13. RowsMarked => RowsMarked'
  BY <1>3, <1>6 DEF RowsMarked, Kept, HasMark
<1> QED BY <1>7, <1>8, <1>9, <1>10, <1>11, <1>12, <1>13

\* Nor does it change a name that is right, so a preview that is right stays so.
LEMMA ReplacesKeepsClean ==
  ASSUME NamesTypeInv, Replaces, Clean, UNCHANGED groupPreview
  PROVE  Clean'
<1>1. \A m \in Messages : row[m] # NoRow => row'[m].name = row[m].name
  BY DEF Replaces, Kept, Clean, RowsNotStale, RowsAgree, RowsMarked
<1>2. \A m \in Messages : (row'[m] # NoRow <=> row[m] # NoRow) /\ (row[m] # NoRow => row'[m].group = row[m].group)
  BY RowIsThere DEF Replaces
<1>3. GroupRows' = GroupRows
  BY <1>2 DEF GroupRows
<1>4. PreviewIsNewest'
  <2>1. SUFFICES ASSUME GroupRows # {}
                 PROVE  groupPreview' = [msg |-> Max(GroupRows), name |-> row'[Max(GroupRows)].name]
    BY <1>3 DEF PreviewIsNewest
  <2>2. Max(GroupRows) \in Messages /\ row[Max(GroupRows)] # NoRow
    BY <2>1, NewestIsThere DEF GroupRows
  <2> QED BY <1>1, <2>1, <2>2 DEF Clean, PreviewIsNewest
<1> QED BY <1>4, ReplacesKeeps DEF Clean

\* And the types stay.
LEMMA ReplacesTypes ==
  ASSUME NamesTypeInv, Replaces, phase' \in Migrated, settled' \in BOOLEAN
  PROVE  NamesTypeInv'
<1>1. Mapped' = Mapped /\ learned' = learned /\ handling' = handling /\ quiet' = quiet
  BY DEF Replaces, Knowing, facts, numbers, Mapped
<1>2. title' \in [Addrs -> AnyName] /\ row' = [m \in Messages |-> row'[m]]
  BY DEF Replaces
<1>3. \A m \in Messages : row'[m] = NoRow \/ IsRow(row'[m])
  BY DEF Replaces
<1> QED BY <1>1, <1>2, <1>3 DEF NamesTypeInv

\* Where neither the names nor what is known of people changes, what is right
\* stays so.
LEMMA SameNames ==
  ASSUME Knowing, UNCHANGED <<row, title>>
  PROVE  /\ (Moved <=> Moved')
         /\ (TitlesNotStale <=> TitlesNotStale') /\ (RowsNotStale <=> RowsNotStale')
         /\ (TitlesAgree <=> TitlesAgree') /\ (RowsAgree <=> RowsAgree')
         /\ (TitlesMarked <=> TitlesMarked') /\ (RowsMarked <=> RowsMarked')
<1>1. \A n, a : /\ NotStale(n, a) <=> (NotStale(n, a))'
                /\ Agrees(n, a) <=> (Agrees(n, a))'
                /\ HasMark(n, a) <=> (HasMark(n, a))'
  BY KnowingNames DEF NotStale, Agrees, HasMark
<1>2. Moved <=> Moved'
  BY DEF Moved, Mapped, Knowing, facts, numbers
<1>3. /\ TitlesNotStale <=> TitlesNotStale'
      /\ TitlesAgree <=> TitlesAgree'
      /\ TitlesMarked <=> TitlesMarked'
  BY <1>1 DEF TitlesNotStale, TitlesAgree, TitlesMarked
<1>4. /\ RowsNotStale <=> RowsNotStale'
      /\ RowsAgree <=> RowsAgree'
      /\ RowsMarked <=> RowsMarked'
  BY <1>1 DEF RowsNotStale, RowsAgree, RowsMarked
<1> QED BY <1>2, <1>3, <1>4

\* A restart forgets numbers and adds none.
LEMMA RestartsTypes ==
  ASSUME NamesTypeInv, Restarts
  PROVE  Mapped' \subseteq Hidden /\ UNCHANGED learned /\ handling' = NoRow
BY DEF NamesTypeInv, Restarts, Mapped

\* It changes nothing that is known where whatsmeow had nothing for itself.
LEMMA RestartsKnowing == ASSUME Restarts, alone = {} PROVE Knowing
<1>1. PICK written \in SUBSET alone : found' = found \cup written /\ taught' = taught \ written
  BY DEF Restarts
<1>2. written = {}
  OBVIOUS
<1>3. found' = found /\ taught' = taught
  BY <1>1, <1>2
<1> QED BY <1>3 DEF Restarts, Knowing, facts, numbers

\* Every pass keeps the invariant.
LEMMA PassKeeps == ASSUME NamesInv, RepairPass PROVE NamesInv'
<1>1. NamesTypeInv /\ (quiet => Repaired) /\ (settled => Clean)
  BY DEF NamesInv
<1>2. ASSUME Replaces, phase' \in Migrated, UNCHANGED <<groupPreview, settled>>
      PROVE  NamesTypeInv' /\ (settled' => Clean')
  BY <1>1, <1>2, ReplacesKeepsClean, ReplacesTypes DEF NamesTypeInv
<1>3. CASE MigrateLIDs
  <2> DEFINE moved == {p \in Mapped : title[<<p, "lid">>] # None}
  <2>1. /\ phase' = "chats" /\ Knowing /\ UNCHANGED <<handling, quiet, row, groupPreview, settled>>
        /\ title' = [a \in Addrs |->
                       CASE a[1] \in moved /\ a[2] = "lid" -> None
                         [] a[1] \in moved /\ a[2] = "pn" -> title[<<a[1], "lid">>]
                         [] OTHER -> title[a]]
    BY <1>3 DEF MigrateLIDs, Pass, Knowing
  <2>2. ASSUME NEW p \in Mapped PROVE <<p, "lid">> \in Addrs /\ title'[<<p, "lid">>] = None
    <3>1. <<p, "lid">> \in Addrs
      BY <1>1 DEF NamesTypeInv, Addrs
    <3> QED BY <2>1, <3>1
  <2>3. Moved'
    BY <2>1, <2>2 DEF Moved, Mapped, Knowing, facts, numbers
  <2>4. \A a \in Addrs : title'[a] \in AnyName
    <3>1. SUFFICES ASSUME NEW a \in Addrs PROVE title'[a] \in AnyName
      OBVIOUS
    <3>2. title[a] \in AnyName /\ None \in AnyName
      BY <1>1, NamesAre DEF NamesTypeInv
    <3>3. a[1] \in moved => title[<<a[1], "lid">>] \in AnyName
      BY <1>1, <2>2 DEF NamesTypeInv
    <3> HIDE DEF moved
    <3>4. title'[a] \in {None, title[<<a[1], "lid">>], title[a]} /\ (a[1] \notin moved => title'[a] = title[a])
      BY <2>1
    <3> QED BY <3>2, <3>3, <3>4
  <2>5. NamesTypeInv'
    <3>1. title' \in [Addrs -> AnyName]
      BY <2>1, <2>4
    <3>2. Mapped' = Mapped
      BY <2>1 DEF Mapped, Knowing, facts, numbers
    <3> QED BY <1>1, <2>1, <3>1, <3>2 DEF NamesTypeInv, Knowing, Migrated
  <2>6. ASSUME Moved PROVE title' = title
    <3>1. moved = {}
      BY <2>6 DEF Moved
    <3>2. \A a \in Addrs : title'[a] = title[a]
      <4> HIDE DEF moved
      <4> QED BY <2>1, <3>1
    <3> QED BY <1>1, <2>1, <3>2 DEF NamesTypeInv
  <2>7. settled' => Clean'
    <3>1. SUFFICES ASSUME settled PROVE Clean'
      BY <2>1
    <3>2. Clean /\ title' = title
      BY <1>1, <2>6, <3>1 DEF Clean
    <3>3. Replaces
      <4>1. \A m \in Messages : row[m] # NoRow => IsRow(row'[m]) /\ Kept(row[m].name, row'[m].name, row[m].from)
        BY <1>1, <2>1, SameIsKept DEF NamesTypeInv
      <4> QED BY <1>1, <2>1, <3>2, <4>1, SameIsKept DEF Replaces, NamesTypeInv
    <3> QED BY <1>1, <2>1, <3>2, <3>3, ReplacesKeepsClean
  <2>8. Repaired'
    BY <2>1, <2>3 DEF Repaired
  <2> QED BY <2>5, <2>7, <2>8 DEF NamesInv
<1>4. ASSUME Knowing
      PROVE  \A n, a : /\ NotStale(n, a) => (IsNumber(n) => DisplayName(a, None)' = None)
                       /\ Agrees(n, a) => (Saved(a)' # None => n = Saved(a)')
                       /\ HasMark(n, a) => (~IsSaved(a)' => n.kind # "text")
  BY <1>4, KnowingNames DEF NotStale, Agrees, HasMark
<1>5. CASE BackfillChatNames
  <2>1. Replaces /\ \A a \in Addrs : NotStale(title'[a], a)
    BY <1>1, <1>5, BackfillChatNamesReplaces
  <2>2. phase = "chats" /\ phase' = "senders" /\ UNCHANGED <<quiet, groupPreview, settled>>
    BY <1>5 DEF BackfillChatNames, Pass
  <2>3. TitlesNotStale'
    BY <1>4, <2>1 DEF TitlesNotStale, NotStale, Replaces
  <2>4. quiet => Moved'
    BY <1>1, <2>1, <2>2, ReplacesKeeps DEF Repaired, Migrated
  <2>5. Repaired'
    BY <2>2, <2>3, <2>4 DEF Repaired
  <2> QED BY <1>2, <2>1, <2>2, <2>5 DEF NamesInv, Migrated
<1>6. CASE BackfillSenderNames
  <2>1. Replaces /\ \A m \in Messages : row[m] # NoRow => NotStale(row'[m].name, row[m].from)
    BY <1>1, <1>6, BackfillSenderNamesReplaces
  <2>2. phase = "senders" /\ phase' = "quotes" /\ UNCHANGED <<quiet, groupPreview, settled>>
    BY <1>6 DEF BackfillSenderNames, Pass
  <2>3. RowsNotStale'
    <3>1. \A m \in Messages : row'[m] # NoRow => row[m] # NoRow /\ row'[m].from = row[m].from
      BY <2>1 DEF Replaces
    <3> QED BY <1>4, <2>1, <3>1 DEF RowsNotStale, NotStale, Replaces
  <2>4. quiet => Moved' /\ TitlesNotStale'
    BY <1>1, <2>1, <2>2, ReplacesKeeps DEF Repaired, Migrated
  <2>5. Repaired'
    BY <2>2, <2>3, <2>4 DEF Repaired
  <2> QED BY <1>2, <2>1, <2>2, <2>5 DEF NamesInv, Migrated
<1>7. CASE BackfillQuotedNames
  <2>1. phase = "quotes" /\ phase' = "refresh" /\ UNCHANGED <<quiet, groupPreview, settled>>
    BY <1>7 DEF BackfillQuotedNames, Pass
  <2>2. Replaces
    BY <1>1, <1>7, RefsBackfilledReplaces DEF BackfillQuotedNames, Pass, Knowing
  <2>3. quiet => Moved' /\ TitlesNotStale' /\ RowsNotStale'
    BY <1>1, <2>1, <2>2, ReplacesKeeps DEF Repaired, Migrated
  <2>4. Repaired'
    BY <2>1, <2>3 DEF Repaired
  <2> QED BY <1>2, <2>1, <2>2, <2>4 DEF NamesInv, Migrated
<1>8. CASE RefreshNames
  <2>1. /\ Replaces
        /\ \A a \in Addrs : title'[a] # None => Agrees(title'[a], a)
        /\ \A m \in Messages : row[m] # NoRow => Agrees(row'[m].name, row[m].from)
    BY <1>1, <1>8, RefreshNamesReplaces
  <2>2. phase = "refresh" /\ phase' = "mark" /\ UNCHANGED <<quiet, groupPreview, settled>>
    BY <1>8 DEF RefreshNames, Corrects, Pass
  <2>3. TitlesAgree' /\ RowsAgree'
    <3>1. \A m \in Messages : row'[m] # NoRow => row[m] # NoRow /\ row'[m].from = row[m].from
      BY <2>1 DEF Replaces
    <3>4. \A a : Saved(a)' = Saved(a) /\ IsSaved(a)' = IsSaved(a)
      BY <2>1, KnowingNames DEF Replaces
    <3>2. TitlesAgree'
      <4>1. \A a \in Addrs : title'[a] # None /\ Saved(a)' # None => title'[a] = Saved(a)'
        BY <2>1, <3>4 DEF Agrees
      <4> QED BY <4>1 DEF TitlesAgree, Agrees
    <3>3. RowsAgree'
      <4>1. \A m \in Messages : \A a :
              row'[m] # NoRow /\ row'[m].from = a /\ Saved(a)' # None => row'[m].name = Saved(a)'
        BY <2>1, <3>1, <3>4 DEF Agrees
      <4>2. \A m \in Messages : \A a : row'[m] # NoRow /\ row'[m].from = a => Agrees(row'[m].name, a)
        BY <3>4, <4>1 DEF Agrees
      <4>3. \A n, a : Agrees(n, a) => (Agrees(n, a))'
        BY <3>4 DEF Agrees
      <4> QED BY <4>2, <4>3 DEF RowsAgree
    <3> QED BY <3>2, <3>3
  <2>4. quiet => Moved' /\ TitlesNotStale' /\ RowsNotStale'
    BY <1>1, <2>1, <2>2, ReplacesKeeps DEF Repaired, Migrated
  <2>5. Repaired'
    BY <2>2, <2>3, <2>4 DEF Repaired
  <2> QED BY <1>2, <2>1, <2>2, <2>5 DEF NamesInv, Migrated
<1>9. CASE MarkUnsavedNames
  <2>1. /\ Replaces
        /\ \A a \in Addrs : title'[a] # None => HasMark(title'[a], a)
        /\ \A m \in Messages : row[m] # NoRow => HasMark(row'[m].name, row[m].from)
    BY <1>1, <1>9, MarkUnsavedNamesReplaces
  <2>2. phase = "mark" /\ phase' = "mentions" /\ UNCHANGED <<quiet, groupPreview, settled>>
    BY <1>9 DEF MarkUnsavedNames, Corrects, Pass
  <2>3. TitlesMarked' /\ RowsMarked'
    <3>1. \A m \in Messages : row'[m] # NoRow => row[m] # NoRow /\ row'[m].from = row[m].from
      BY <2>1 DEF Replaces
    <3>2. TitlesMarked'
      BY <1>4, <2>1 DEF TitlesMarked, HasMark, Replaces
    <3>3. RowsMarked'
      BY <1>4, <2>1, <3>1 DEF RowsMarked, HasMark, Replaces
    <3> QED BY <3>2, <3>3
  <2>4. quiet => Moved' /\ TitlesNotStale' /\ RowsNotStale' /\ TitlesAgree' /\ RowsAgree'
    BY <1>1, <2>1, <2>2, ReplacesKeeps DEF Repaired, Migrated
  <2>5. Repaired'
    BY <2>2, <2>3, <2>4 DEF Repaired
  <2> QED BY <1>2, <2>1, <2>2, <2>5 DEF NamesInv, Migrated
<1>10. CASE ResolveStoredMentions
  <2>1. phase = "mentions" /\ phase' = "previews" /\ UNCHANGED <<quiet, groupPreview, settled>>
    BY <1>10 DEF ResolveStoredMentions, Pass
  <2>2. Replaces
    BY <1>1, <1>10, RefsBackfilledReplaces DEF ResolveStoredMentions, Pass, Knowing
  <2>3. quiet => /\ Moved' /\ TitlesNotStale' /\ RowsNotStale'
                 /\ TitlesAgree' /\ RowsAgree' /\ TitlesMarked' /\ RowsMarked'
    BY <1>1, <2>1, <2>2, ReplacesKeeps DEF Repaired, Migrated
  <2>4. Repaired'
    BY <2>1, <2>3 DEF Repaired
  <2> QED BY <1>2, <2>1, <2>2, <2>4 DEF NamesInv, Migrated
<1>11. CASE RebuildPreviews
  <2>1. /\ phase = "previews" /\ phase' = "serve" /\ quiet' = FALSE /\ UNCHANGED <<row, title>> /\ Restarts
        /\ settled' = (quiet /\ alone = {})
        /\ GroupRows # {} =>
             groupPreview' = [msg |-> Max(GroupRows), name |-> row[Max(GroupRows)].name]
    BY <1>11 DEF RebuildPreviews
  <2>2. NamesTypeInv'
    BY <1>1, <2>1, RestartsTypes DEF Migrated, NamesTypeInv
  <2>3. PreviewIsNewest'
    BY <2>1 DEF PreviewIsNewest, GroupRows
  <2>4. ASSUME settled' PROVE Clean'
    <3>1. /\ Moved /\ TitlesNotStale /\ RowsNotStale
          /\ TitlesAgree /\ RowsAgree /\ TitlesMarked /\ RowsMarked
      BY <1>1, <2>1, <2>4 DEF Repaired, Migrated
    <3>2. Knowing
      BY <2>1, <2>4, RestartsKnowing
    <3> QED BY <2>1, <2>3, <3>1, <3>2, SameNames DEF Clean
  <2>5. Repaired'
    BY <2>1 DEF Repaired
  <2> QED BY <2>2, <2>4, <2>5 DEF NamesInv
<1> QED BY <1>3, <1>5, <1>6, <1>7, <1>8, <1>9, <1>10, <1>11 DEF RepairPass

-----------------------------------------------------------------------------
(* Everything else                                                         *)

\* The initial state satisfies the invariant.
LEMMA InitNamesInv == ASSUME NamesInit PROVE NamesInv
<1>1. None \in AnyName /\ None.kind # "number"
  BY NamesAre
<1>2. NamesTypeInv
  <2>1. learned \in [Addrs -> {n \in AnyName : n.kind # "number"}] /\ title \in [Addrs -> AnyName]
    BY <1>1 DEF NamesInit
  <2>2. row = [m \in Messages |-> row[m]] /\ \A m \in Messages : row[m] = NoRow
    BY DEF NamesInit
  <2> QED BY <2>1, <2>2 DEF NamesInit, NamesTypeInv, Migrated, Mapped
<1>3. ~quiet /\ ~settled
  BY DEF NamesInit
<1> QED BY <1>2, <1>3 DEF NamesInv, Repaired

\* What happens beside a repair disturbs it: then only the types are to be kept.
LEMMA DisturbedKeeps == ASSUME NamesTypeInv', Disturbed PROVE NamesInv'
BY DEF NamesInv, Repaired, Disturbed

\* Something becomes known, or a nickname is taken back.
LEMMA ChangedTypes ==
  ASSUME NamesTypeInv, Changed, UNCHANGED learned, Mapped' \subseteq Hidden
  PROVE  NamesTypeInv'
BY DEF NamesTypeInv, Changed, Disturbed, names

\* A message is resolved.
LEMMA ArrivesTypes ==
  ASSUME NamesTypeInv, NEW m \in Messages, NEW a \in Addrs, NEW pushed \in {None, OwnName(a[1])},
         NEW group \in BOOLEAN, NEW ref, Arrives(m, a, pushed, group, ref)
  PROVE  NamesTypeInv'
<1>1. Canon(a) \in Addrs /\ a[1] \in People
  BY AddrsAre DEF NamesTypeInv
<1>2. pushed \in AnyName /\ ~IsNumber(pushed)
  BY <1>1, NamesAre DEF IsNumber
<1>3. Number(Canon(a)) \in AnyName \ {None} /\ None \in AnyName
  BY <1>1, NamesAre
<1>4. SenderName(a, pushed) \in AnyName \ {None}
  BY <1>2, <1>3, LabelIs DEF SenderName
<1>5. ChatName(Canon(a)) \in AnyName
  BY <1>1, <1>3, LabelIs DEF ChatName
<1> DEFINE n == SenderName(a, pushed)
           r == [from |-> Canon(a), name |-> n, ref |-> ref, group |-> group]
<1>6. handling' = [msg |-> m, chat |-> IF group THEN None ELSE ChatName(Canon(a)), row |-> r]
  BY DEF Arrives
<1>7. learned' = IF IsNumber(n) THEN learned ELSE [learned EXCEPT ![a] = n]
  BY DEF Arrives
<1>8. UNCHANGED <<row, title, phase>> /\ Disturbed
  BY DEF Arrives, names
<1>13. Mapped' \subseteq Hidden
  <2>1. taught' \subseteq Mapped /\ UNCHANGED <<found, alone>>
    BY DEF Arrives, Canon, Mapped
  <2> QED BY <2>1 DEF NamesTypeInv, Mapped
<1> HIDE DEF n
<1>9. n \in AnyName \ {None}
  BY <1>4 DEF n
<1>10. IsRow(r)
  BY <1>1, <1>9 DEF IsRow
<1> HIDE DEF r
<1>11. handling'.msg \in Messages /\ IsRow(handling'.row) /\ handling'.chat \in AnyName
  BY <1>3, <1>5, <1>6, <1>10
<1>12. learned' \in [Addrs -> {x \in AnyName : x.kind # "number"}]
  BY <1>7, <1>9 DEF NamesTypeInv, IsNumber
<1> QED BY <1>8, <1>11, <1>12, <1>13 DEF NamesTypeInv, Disturbed

\* A message is stored.
LEMMA StoresTypes == ASSUME NamesTypeInv, Stores PROVE NamesTypeInv'
<1>1. handling.msg \in Messages /\ IsRow(handling.row) /\ handling.chat \in AnyName
  BY DEF NamesTypeInv, Stores
<1>2. row' = [row EXCEPT ![handling.msg] = handling.row]
  BY DEF Stores
<1>3. row' = [m \in Messages |-> row'[m]] /\ \A m \in Messages : row'[m] = NoRow \/ IsRow(row'[m])
  <2> DEFINE R(m) == row[m]
  <2>1. row = [m \in Messages |-> R(m)]
    BY DEF NamesTypeInv
  <2>2. \A m \in Messages : R(m) = NoRow \/ IsRow(R(m))
    BY DEF NamesTypeInv
  <2> HIDE DEF R
  <2> QED BY <1>1, <1>2, <2>1, <2>2
<1>4. title' \in [Addrs -> AnyName]
  <2>1. CASE handling.row.group
    BY <2>1 DEF Stores, NamesTypeInv
  <2>2. CASE ~handling.row.group
    BY <1>1, <2>2 DEF Stores, NamesTypeInv, IsRow
  <2> QED BY <2>1, <2>2
<1>5. UNCHANGED <<Mapped, learned, phase>> /\ Disturbed /\ handling' = NoRow
  BY DEF Stores, facts, numbers, Mapped
<1> QED BY <1>3, <1>4, <1>5 DEF NamesTypeInv, Disturbed

\* A nickname is saved.
LEMMA SaveContactTypes ==
  ASSUME NamesTypeInv, NEW a \in Addrs, SaveContact(a) PROVE NamesTypeInv'
<1> DEFINE n == Text("nick", a[1])
           as == {a, Canon(a)}
<1>1. n \in AnyName \ {None}
  BY AddrsAre, NamesAre DEF NamesTypeInv
<1>2. Renamed(as, n) /\ UNCHANGED <<Mapped, learned, handling, phase>> /\ Disturbed
  BY DEF SaveContact, facts, numbers, Mapped
<1> HIDE DEF n, as
<1>3. title' = [b \in Addrs |-> IF b \in as /\ title[b] # None THEN n ELSE title[b]]
  BY <1>2 DEF Renamed
<1>4. title' \in [Addrs -> AnyName]
  BY <1>1, <1>3 DEF NamesTypeInv
<1>5. row' = [m \in Messages |->
                IF \E b \in as : From(m, b)
                THEN [row[m] EXCEPT !.name = n,
                                    !.ref.name = IF row[m].ref.kind = "quote" THEN n ELSE @]
                ELSE row[m]]
  BY <1>2 DEF Renamed
<1>6. ASSUME NEW m \in Messages PROVE row'[m] = NoRow \/ IsRow(row'[m])
  <2> DEFINE q == [row[m] EXCEPT !.name = n]
             y == IF row[m].ref.kind = "quote" THEN n ELSE q.ref.name
  <2>1. CASE \E b \in as : From(m, b)
    <3>1. row'[m] = [q EXCEPT !.ref.name = y]
      BY <1>5, <2>1
    <3>2. IsRow(row[m])
      BY <2>1 DEF From, NamesTypeInv
    <3> HIDE DEF y
    <3>3. IsRow(q)
      BY <1>1, <3>2, RowNamed
    <3> HIDE DEF q
    <3>4. IsRow([q EXCEPT !.ref.name = y])
      BY <3>3, RowQuoting
    <3> QED BY <3>1, <3>4
  <2>2. CASE ~\E b \in as : From(m, b)
    BY <1>5, <2>2 DEF NamesTypeInv
  <2> QED BY <2>1, <2>2
<1>7. row' = [m \in Messages |-> row'[m]]
  BY <1>5
<1> QED BY <1>2, <1>4, <1>6, <1>7 DEF NamesTypeInv, Disturbed

\* A repair begins: nothing has been put right yet, and what was right is.
LEMMA StartsRepairKeeps == ASSUME NamesInv, StartsRepair PROVE NamesInv'
<1>1. /\ UNCHANGED <<row, title, groupPreview>> /\ phase' = "migrate" /\ quiet' = TRUE
      /\ Restarts /\ settled' = (settled /\ alone = {})
  BY DEF StartsRepair, names
<1>2. NamesTypeInv'
  BY <1>1, RestartsTypes DEF NamesInv, NamesTypeInv
<1>3. Repaired'
  BY <1>1 DEF Repaired, Migrated
<1>4. ASSUME settled' PROVE Clean'
  <2>1. Clean /\ Knowing
    BY <1>1, <1>4, RestartsKnowing DEF NamesInv
  <2>2. PreviewIsNewest'
    BY <1>1, <2>1 DEF Clean, PreviewIsNewest, GroupRows
  <2> QED BY <1>1, <2>1, <2>2, SameNames DEF Clean
<1> QED BY <1>2, <1>3, <1>4 DEF NamesInv

\* Every step keeps the invariant.
LEMMA NamesStep == ASSUME NamesInv, [NamesNext]_namesVars PROVE NamesInv'
<1>1. NamesTypeInv
  BY DEF NamesInv
<1>2. ASSUME NEW m \in Messages, NEW a \in Addrs, MessageArrives(m, a) PROVE NamesInv'
  <2>1. PICK pushed \in {None, OwnName(a[1])}, group \in BOOLEAN :
          \E ref : Arrives(m, a, pushed, group, ref)
    BY <1>2 DEF MessageArrives
  <2>2. PICK ref : Arrives(m, a, pushed, group, ref)
    BY <2>1
  <2>3. NamesTypeInv'
    BY <1>1, <2>2, ArrivesTypes
  <2>4. Disturbed
    BY <2>2 DEF Arrives
  <2> QED BY <2>3, <2>4, DisturbedKeeps
<1>3. CASE Stores
  BY <1>1, <1>3, StoresTypes, DisturbedKeeps DEF Stores
<1>4. ASSUME NEW p \in People, FactsChange(p) PROVE NamesInv'
  <2>1. Changed /\ UNCHANGED learned
    BY <1>4 DEF FactsChange
  <2>2. Mapped' \subseteq Mapped \cup {p} /\ (p \in Hidden \/ Mapped' = Mapped)
    BY <1>4 DEF FactsChange, LearnsNumber, ChangesBook, LearnsOwnName, Mapped, numbers
  <2>3. Mapped' \subseteq Hidden
    BY <1>1, <2>2 DEF NamesTypeInv
  <2> QED BY <1>1, <2>1, <2>3, ChangedTypes, DisturbedKeeps DEF Changed
<1>5. ASSUME NEW a \in Addrs, SaveContact(a) PROVE NamesInv'
  BY <1>1, <1>5, SaveContactTypes, DisturbedKeeps DEF SaveContact
<1>6. ASSUME NEW a \in Addrs, ClearContact(a) PROVE NamesInv'
  <2>1. Changed /\ UNCHANGED learned /\ Mapped' \subseteq Hidden
    BY <1>1, <1>6 DEF ClearContact, facts, numbers, Mapped, NamesTypeInv
  <2> QED BY <1>1, <2>1, ChangedTypes, DisturbedKeeps DEF Changed
<1>7. CASE UNCHANGED namesVars
  <2>1. UNCHANGED <<facts, nick, learned, row, title, groupPreview, handling, phase, quiet, settled>>
    BY <1>7 DEF namesVars, names
  <2>2. Knowing
    BY <2>1 DEF Knowing
  <2>3. PreviewIsNewest <=> PreviewIsNewest'
    BY <2>1 DEF PreviewIsNewest, GroupRows
  <2>4. NamesTypeInv'
    BY <1>1, <2>1 DEF NamesTypeInv, Mapped, facts, numbers
  <2> QED BY <2>1, <2>2, <2>3, <2>4, SameNames DEF NamesInv, Repaired, Clean
<1> QED BY <1>2, <1>3, <1>4, <1>5, <1>6, <1>7, PassKeeps, StartsRepairKeeps DEF NamesNext

-----------------------------------------------------------------------------
(* Theorems                                                                *)

\* After a repair that nothing disturbed, and for as long as nothing does, no
\* sender and no title has a name that is out of date, and the preview says what
\* the newest message says (RunLIDMigration to RebuildPreviews, main.go).
THEOREM RepairLeavesNoStaleNameInvariant == NamesSpec => []RepairLeavesNoStaleName
<1>1. ASSUME Clean PROVE RepairLeavesNoStaleName
  <2>1. \A m \in Messages : row[m] # NoRow => UpToDate(row[m].name, row[m].from)
    BY <1>1 DEF Clean, RowsNotStale, RowsAgree, RowsMarked, NotStale, Agrees, HasMark, UpToDate
  <2>2. \A a \in Addrs : title[a] # None => UpToDate(title[a], a)
    BY <1>1 DEF Clean, TitlesNotStale, TitlesAgree, TitlesMarked, NotStale, Agrees, HasMark, UpToDate
  <2> QED BY <1>1, <2>1, <2>2 DEF RepairLeavesNoStaleName, Clean, PreviewIsNewest
<1>2. NamesInv => RepairLeavesNoStaleName
  BY <1>1 DEF NamesInv, RepairLeavesNoStaleName
<1> QED BY InitNamesInv, NamesStep, <1>2, PTL DEF NamesSpec

=============================================================================
