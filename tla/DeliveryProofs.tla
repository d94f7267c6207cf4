--------------------------- MODULE DeliveryProofs ---------------------------
(***************************************************************************)
(* Theorems about Delivery: every reachable state has its type, a mute is  *)
(* kept, and nobody is left out, for any number of chats, messages,        *)
(* endpoints and failures.                                                 *)
(*                                                                         *)
(* MuteIsKept is not inductive: a bubble comes out of an answer the worker *)
(* has had for some time, or out of a frame that was made before the chat  *)
(* was muted.  Hushed says so of every place a notification can come from, *)
(* and Reported that none of them is ahead of the store.                   *)
(*                                                                         *)
(* NobodyIsLeftOut is about the end of a long way.  InTime says of a chat  *)
(* that is due that its newest message is shown, or Coming at one of the   *)
(* places on that way, and that what is still to be shown takes nothing    *)
(* newer away (Agree, and for frames NewestFollows).                       *)
(***************************************************************************)
EXTENDS Delivery, SequenceTheorems, TLAPS

Answer == [sum : Counts, late : BOOLEAN]
PushFrame == [chat : Chats, n : Nat, muted : BOOLEAN]

\* The phone is only given another endpoint while the bound allows it.
SpareEndpoint == mine = 0 => issued < MaxSubs

\* No notification there is, or may still come of what is under way, reports
\* more messages than have arrived.
Reported ==
  /\ \A c \in Chats : bubble[c] <= arrived[c]
  /\ \A i \in 1..Len(answers) : \A c \in Chats : answers[i].sum[c] <= arrived[c]
  /\ \A i \in 1..Len(down) : down[i].n <= arrived[down[i].chat]

\* And none reports the newest message of a chat that has been muted since
\* before it came.
Hushed(c) ==
  /\ account[c] = "muted"
  /\ bubble[c] < arrived[c]
  /\ \A i \in 1..Len(answers) : answers[i].sum[c] < arrived[c]
  /\ \A i \in 1..Len(down) : down[i].chat = c /\ ~down[i].muted => down[i].n < arrived[c]
  /\ handling.at = "push" /\ handling.chat = c => handling.muted

MutesHold == \A c \in hush : Hushed(c)

\* Chats somebody is still to be told of, if nothing excuses it.
Due == (unread \ missed) \ seen
Shown(c) == c \in vague \/ bubble[c] = arrived[c]
Pushing(c) == handling.at = "push" /\ handling.chat = c
Newest(c, j) == down[j].chat = c /\ down[j].n = arrived[c]
HasNewest(c, i) == answers[i].sum[c] = arrived[c]

\* Something on its way will tell of the chat's newest message.
Coming(c) ==
  \/ Pushing(c)
  \/ handling.at = "wake" /\ handling.chat = c /\ ~handling.sent
  \/ \E j \in 1..Len(down) : Newest(c, j)
  \/ LookIsComing
  \/ \E i \in 1..Len(answers) : answers[i].late \/ HasNewest(c, i)

\* An answer that is still to be shown takes away nothing newer than itself:
\* neither a notification there is, nor one of an answer before it.
Agree(c) ==
  /\ Shown(c) => \A i \in 1..Len(answers) : answers[i].late \/ HasNewest(c, i)
  /\ \A i, j \in 1..Len(answers) : i < j /\ HasNewest(c, i) => answers[j].late \/ HasNewest(c, j)

InTime(c) == Agree(c) /\ (Shown(c) \/ Coming(c))

\* A frame on its way is followed by that of its chat's newest message.
NewestFollows ==
  \A i \in 1..Len(down) :
    Pushing(down[i].chat) \/ \E j \in i..Len(down) : Newest(down[i].chat, j)

DownWhileOn == link # "on" => down = <<>>
MutedIsExcused == \A c \in Chats : ListedMuted(c) => c \in missed
NobodyForgotten == DownWhileOn /\ MutedIsExcused /\ NewestFollows /\ \A c \in Due : InTime(c)

IInv == TypeOK /\ SpareEndpoint /\ Reported /\ MutesHold /\ NobodyForgotten

-----------------------------------------------------------------------------
(* Sequences                                                               *)

\* An overtaken answer still says the same.
LEMMA OvertakenType ==
  ASSUME NEW ans \in Seq(Answer)
  PROVE  /\ Overtaken(ans) \in Seq(Answer)
         /\ Len(Overtaken(ans)) = Len(ans)
         /\ \A i \in 1..Len(ans) : Overtaken(ans)[i].sum = ans[i].sum /\ Overtaken(ans)[i].late
<1> DEFINE n == Len(ans)
           o == [i \in 1..n |-> [ans[i] EXCEPT !.late = TRUE]]
<1>1. n \in Nat /\ ans \in [1..n -> Answer]
  BY LenProperties
<1>2. Overtaken(ans) = o
  BY DEF Overtaken
<1>3. ASSUME NEW i \in 1..n
      PROVE  o[i] \in Answer /\ o[i].sum = ans[i].sum /\ o[i].late
  <2>1. o[i] \in Answer /\ o[i].sum = ans[i].sum
    BY <1>1 DEF Answer
  <2>2. ans[i] \in Answer /\ o[i] = [ans[i] EXCEPT !.late = TRUE]
    BY <1>1
  <2> HIDE DEF o
  <2>3. o[i].late
    BY <2>2 DEF Answer
  <2> QED
    BY <2>1, <2>3
<1> HIDE DEF n
<1>4. o \in [1..n -> Answer]
  BY <1>3
<1> HIDE DEF o
<1>5. o \in Seq(Answer)
  BY <1>1, <1>4, SeqDef
<1>6. Len(o) \in Nat /\ 1..Len(o) = 1..n
  BY <1>4, <1>5, LenProperties
<1>7. Len(o) = n
  BY <1>1, <1>6
<1> QED
  BY <1>2, <1>3, <1>5, <1>7 DEF n

\* What ShowSummary leaves of the answers: each of them says what one said, and
\* those before the one that was shown are overtaken.
LEMMA TheOtherAnswers ==
  ASSUME NEW ans \in Seq(Answer), NEW i \in 1..Len(ans)
  PROVE  LET rest == Overtaken(SubSeq(ans, 1, i - 1)) \o SubSeq(ans, i + 1, Len(ans)) IN
         /\ rest \in Seq(Answer)
         /\ Len(rest) = Len(ans) - 1
         /\ \A j \in 1..(Len(ans) - 1) : j < i => rest[j].sum = ans[j].sum /\ rest[j].late
         /\ \A j \in 1..(Len(ans) - 1) : j >= i => rest[j] = ans[j + 1]
<1> DEFINE m == Len(ans)
           l == SubSeq(ans, 1, i - 1)
           r == SubSeq(ans, i + 1, m)
           o == Overtaken(l)
<1>1. m \in Nat /\ i \in 1..m /\ \A j \in 1..m : ans[j] \in Answer
  BY LenProperties
<1> HIDE DEF m
<1>2. l \in Seq(Answer) /\ Len(l) = i - 1 /\ \A j \in 1..(i - 1) : l[j] = ans[j]
  <2>1. 1 \in Int /\ i - 1 \in Int /\ \A j \in 1..(i - 1) : ans[j] \in Answer
    BY <1>1
  <2>2. /\ l \in Seq(Answer)
        /\ Len(l) = IF 1 <= i - 1 THEN i - 1 - 1 + 1 ELSE 0
        /\ \A j \in 1..(i - 1 - 1 + 1) : l[j] = ans[1 + j - 1]
    BY <2>1, SubSeqProperties
  <2> HIDE DEF l
  <2> QED
    BY <1>1, <2>2
<1>3. r \in Seq(Answer) /\ Len(r) = m - i /\ \A j \in 1..(m - i) : r[j] = ans[i + j]
  <2>1. i + 1 \in Int /\ m \in Int /\ \A j \in (i + 1)..m : ans[j] \in Answer
    BY <1>1
  <2>2. /\ r \in Seq(Answer)
        /\ Len(r) = IF i + 1 <= m THEN m - (i + 1) + 1 ELSE 0
        /\ \A j \in 1..(m - (i + 1) + 1) : r[j] = ans[i + 1 + j - 1]
    BY <2>1, SubSeqProperties
  <2> HIDE DEF r
  <2> QED
    BY <1>1, <2>2
<1> HIDE DEF l, r
<1>5. o \in Seq(Answer) /\ Len(o) = i - 1 /\ \A j \in 1..(i - 1) : o[j].sum = ans[j].sum /\ o[j].late
  BY <1>2, OvertakenType
<1> HIDE DEF o
<1> DEFINE q == o \o r
<1>6. /\ q \in Seq(Answer)
      /\ Len(q) = m - 1
      /\ \A j \in 1..(m - 1) : j <= i - 1 => q[j] = o[j]
      /\ \A j \in 1..(m - 1) : j > i - 1 => q[j] = r[j - (i - 1)]
  <2>1. /\ q \in Seq(Answer)
        /\ Len(q) = Len(o) + Len(r)
        /\ \A j \in 1..(Len(o) + Len(r)) : q[j] = IF j <= Len(o) THEN o[j] ELSE r[j - Len(o)]
    BY <1>3, <1>5, ConcatProperties
  <2>2. Len(o) + Len(r) = m - 1
    BY <1>1, <1>3, <1>5
  <2> HIDE DEF q
  <2>3. \A j \in 1..(m - 1) : q[j] = IF j <= i - 1 THEN o[j] ELSE r[j - (i - 1)]
    BY <1>5, <2>1, <2>2
  <2>4. \A j \in 1..(m - 1) : j > i - 1 => ~(j <= i - 1)
    BY <1>1
  <2> QED
    BY <2>1, <2>2, <2>3, <2>4
<1> HIDE DEF q
<1>7. ASSUME NEW j \in 1..(m - 1), j < i
      PROVE  q[j].sum = ans[j].sum /\ q[j].late
  <2>1. j \in 1..(i - 1) /\ j <= i - 1
    BY <1>1, <1>7
  <2> QED
    BY <1>5, <1>6, <2>1
<1>8. ASSUME NEW j \in 1..(m - 1), j >= i
      PROVE  q[j] = ans[j + 1]
  <2>1. j > i - 1 /\ j - (i - 1) \in 1..(m - i) /\ i + (j - (i - 1)) = j + 1
    BY <1>1, <1>8
  <2>2. q[j] = r[j - (i - 1)]
    BY <1>6, <2>1
  <2>3. r[j - (i - 1)] = ans[j + 1]
    BY <1>3, <2>1
  <2> QED
    BY <2>2, <2>3
<1> QED
  BY <1>6, <1>7, <1>8 DEF l, r, o, m, q

\* What is left of the answers when the i-th has been shown.
LEMMA AnswersLeft ==
  ASSUME WorkerOK, NEW i \in 1..Len(answers), ShowSummary(i)
  PROVE  /\ answers' \in Seq(Answer)
         /\ Len(answers) \in Nat /\ Len(answers') = Len(answers) - 1
         /\ \A j \in 1..Len(answers') : j < i => answers'[j].sum = answers[j].sum /\ answers'[j].late
         /\ \A j \in 1..Len(answers') : j >= i => answers'[j] = answers[j + 1]
<1>1. answers \in Seq(Answer)
  BY DEF WorkerOK, Answer
<1>2. answers' = Overtaken(SubSeq(answers, 1, i - 1)) \o SubSeq(answers, i + 1, Len(answers))
  BY DEF ShowSummary
<1>3. Len(answers) \in Nat
  BY <1>1, LenProperties
<1> QED
  BY <1>1, <1>2, <1>3, TheOtherAnswers

-----------------------------------------------------------------------------
(* The type                                                                *)

USE DEF Counts, Endpoints, Handlings, Idle

\* What the invariant says of each part is true at the start.
LEMMA InitIInv == Init => IInv
<1> SUFFICES ASSUME Init PROVE IInv
  OBVIOUS
<1>1. StoreOK /\ DaemonOK /\ AppOK /\ WorkerOK /\ RestOK
  BY ChatAssumption, BoundAssumption, EmptySeq
  DEF Init, StoreOK, DaemonOK, AppOK, WorkerOK, RestOK, Nothing
<1>2. SpareEndpoint /\ Reported /\ MutesHold
  BY DEF Init, SpareEndpoint, Reported, MutesHold, Nothing
<1>3. NobodyForgotten
  BY DEF Init, NobodyForgotten, DownWhileOn, MutedIsExcused, NewestFollows, Due, ListedMuted, Nothing
<1> QED
  BY <1>1, <1>2, <1>3 DEF IInv, TypeOK

\* The sets of chats the histories are made of, the answer to /notify-summary
\* and the frame that is heard next.
LEMMA UntoldType == Untold \subseteq Chats
BY DEF Untold

LEMMA LostType == AppOK /\ RestOK => Lost(down) \subseteq Chats
<1> SUFFICES ASSUME AppOK, RestOK PROVE Lost(down) \subseteq Chats
  OBVIOUS
<1>1. down \in Seq(PushFrame) /\ missed \subseteq Chats
  BY DEF AppOK, RestOK, PushFrame
<1>2. \A i \in 1..Len(down) : down[i] \in PushFrame
  BY <1>1, ElementOfSeq
<1>3. \A i \in 1..Len(down) : down[i].chat \in Chats
  BY <1>2 DEF PushFrame
<1> QED
  BY <1>1, <1>3 DEF Lost

LEMMA HandlingType ==
  ASSUME DaemonOK, handling.at # "idle"
  PROVE  handling \in Handlings /\ handling.chat \in Chats
BY DEF DaemonOK

LEMMA TakesType ==
  ASSUME DaemonOK, NEW e \in Endpoints, Takes(e)
  PROVE  posts' \in [Endpoints -> Nat]
<1> USE DEF DaemonOK, Takes
<1>1. posts \in [Endpoints -> Nat] /\ posts[e] - 1 \in Nat
  OBVIOUS
<1> HIDE DEF Endpoints
<1> QED
  BY <1>1

LEMMA BoundsType == MaxMoves \in Nat /\ MaxBreaks \in Nat /\ MaxSubs \in Nat
BY BoundAssumption

LEMMA SummaryType == StoreOK => Summary \in Counts
BY DEF StoreOK, Summary

LEMMA FirstFrame ==
  ASSUME AppOK, down # <<>>
  PROVE  /\ Head(down) \in PushFrame
         /\ Tail(down) \in Seq(PushFrame)
         /\ Head(down) = down[1]
         /\ Len(Tail(down)) = Len(down) - 1
         /\ \A i \in 1..Len(Tail(down)) : Tail(down)[i] = down[i + 1]
<1>1. down \in Seq(PushFrame)
  BY DEF AppOK, PushFrame
<1>2. /\ Head(down) \in PushFrame
      /\ Tail(down) \in Seq(PushFrame)
      /\ Len(Tail(down)) = Len(down) - 1
      /\ \A i \in 1..Len(Tail(down)) : Tail(down)[i] = down[i + 1]
  BY <1>1, HeadTailProperties
<1>3. Head(down) = down[1]
  BY <1>1
<1> QED
  BY <1>2, <1>3

LEMMA PutMessageType ==
  ASSUME TypeOK, SpareEndpoint, NEW c \in Chats, PutMessage(c)
  PROVE  TypeOK'
<1> USE DEF TypeOK, PutMessage
<1>1. StoreOK'
  BY DEF StoreOK, store
<1>2. DaemonOK'
  BY DEF DaemonOK, daemon, StoreOK, AppOK, WorkerOK, RestOK
<1>3. AppOK'
  BY DEF AppOK, app, StoreOK, DaemonOK, WorkerOK, RestOK
<1>4. WorkerOK'
  BY DEF WorkerOK, worker, StoreOK, DaemonOK, AppOK, RestOK
<1>5. RestOK'
  BY DEF RestOK, ListedMuted, pushService, StoreOK, DaemonOK, AppOK, WorkerOK
<1> QED
  BY <1>1, <1>2, <1>3, <1>4, <1>5

LEMMA PushMessageType ==
  ASSUME TypeOK, SpareEndpoint, PushMessage
  PROVE  TypeOK'
<1> USE DEF TypeOK, PushMessage
<1>1. DaemonOK'
  BY HandlingType DEF DaemonOK, daemon, StoreOK, AppOK, WorkerOK, RestOK
<1>2. AppOK'
  <2>1. handling.chat \in Chats /\ handling.muted \in BOOLEAN /\ arrived[handling.chat] \in Nat
    BY HandlingType DEF StoreOK
  <2>2. down \in Seq(PushFrame)
    BY DEF AppOK, PushFrame
  <2>3. [chat |-> handling.chat, n |-> arrived[handling.chat], muted |-> handling.muted] \in PushFrame
    BY <2>1 DEF PushFrame
  <2>4. down' \in Seq(PushFrame)
    BY <2>2, <2>3, AppendProperties
  <2> QED
    BY <2>4 DEF AppOK, PushFrame
<1>3. StoreOK' /\ WorkerOK' /\ RestOK'
  BY DEF StoreOK, WorkerOK, RestOK, store, worker, pushService
<1> QED
  BY <1>1, <1>2, <1>3

LEMMA SomebodyHomeType ==
  ASSUME TypeOK, SpareEndpoint, SomebodyHome
  PROVE  TypeOK'
<1> USE DEF TypeOK, SomebodyHome
<1>1. DaemonOK'
  BY DEF DaemonOK, daemon, StoreOK, AppOK, WorkerOK, RestOK
<1>2. RestOK'
  BY HandlingType DEF RestOK, pushService, StoreOK, DaemonOK, AppOK, WorkerOK
<1>3. StoreOK' /\ AppOK' /\ WorkerOK'
  BY DEF StoreOK, AppOK, WorkerOK, store, app, worker
<1> QED
  BY <1>1, <1>2, <1>3

LEMMA NotifyPushType ==
  ASSUME TypeOK, SpareEndpoint, NotifyPush
  PROVE  TypeOK'
<1> USE DEF TypeOK, NotifyPush
<1>1. DaemonOK'
  <2>1. handling.chat \in Chats
    BY HandlingType
  <2>2. posts' \in [Endpoints -> Nat]
    <3> HIDE DEF Endpoints
    <3> QED
      BY DEF DaemonOK
  <2> QED
    BY <2>1, <2>2 DEF DaemonOK
<1>2. RestOK'
  BY DEF RestOK, pushService, StoreOK, DaemonOK, AppOK, WorkerOK
<1>3. StoreOK' /\ AppOK' /\ WorkerOK'
  BY DEF StoreOK, AppOK, WorkerOK, store, app, worker
<1> QED
  BY <1>1, <1>2, <1>3

LEMMA WindowPassesType ==
  ASSUME TypeOK, SpareEndpoint, NEW c \in Chats, WindowPasses(c)
  PROVE  TypeOK'
<1> USE DEF TypeOK, WindowPasses
<1>1. DaemonOK'
  BY DEF DaemonOK, daemon, StoreOK, AppOK, WorkerOK, RestOK
<1>2. StoreOK' /\ AppOK' /\ WorkerOK' /\ RestOK'
  BY DEF StoreOK, AppOK, WorkerOK, RestOK, store, app, worker, pushService
<1> QED
  BY <1>1, <1>2

LEMMA PostGoneType ==
  ASSUME TypeOK, SpareEndpoint, NEW e \in Endpoints, PostGone(e)
  PROVE  TypeOK'
<1> USE DEF TypeOK, PostGone
<1>1. DaemonOK'
  BY TakesType DEF DaemonOK, daemon, StoreOK, AppOK, WorkerOK, RestOK
<1>2. StoreOK' /\ AppOK' /\ WorkerOK' /\ RestOK'
  BY DEF StoreOK, AppOK, WorkerOK, RestOK, store, app, worker, pushService
<1> QED
  BY <1>1, <1>2

LEMMA PostFailsType ==
  ASSUME TypeOK, SpareEndpoint, NEW e \in Endpoints, PostFails(e)
  PROVE  TypeOK'
<1> USE DEF TypeOK, PostFails
<1>1. DaemonOK'
  BY TakesType DEF DaemonOK, daemon, StoreOK, AppOK, WorkerOK, RestOK
<1>2. RestOK'
  BY BoundsType, UntoldType DEF RestOK, Excused, pushService, StoreOK, DaemonOK, AppOK, WorkerOK
<1>3. StoreOK' /\ AppOK' /\ WorkerOK'
  BY DEF StoreOK, AppOK, WorkerOK, store, app, worker
<1> QED
  BY <1>1, <1>2, <1>3

LEMMA EndpointExpiresType ==
  ASSUME TypeOK, SpareEndpoint, EndpointExpires
  PROVE  TypeOK'
<1> USE DEF TypeOK, EndpointExpires
<1>1. DaemonOK'
  BY DEF DaemonOK, daemon, StoreOK, AppOK, WorkerOK, RestOK
<1>2. RestOK'
  BY BoundsType, UntoldType DEF RestOK, Excused, pushService, StoreOK, DaemonOK, AppOK, WorkerOK
<1>3. StoreOK' /\ AppOK' /\ WorkerOK'
  BY DEF StoreOK, AppOK, WorkerOK, store, app, worker
<1> QED
  BY <1>1, <1>2, <1>3

LEMMA SummaryForNotificationType ==
  ASSUME TypeOK, SpareEndpoint, SummaryForNotification
  PROVE  TypeOK'
<1> USE DEF TypeOK, SummaryForNotification
<1>1. DaemonOK'
  BY TakesType DEF DaemonOK, daemon, StoreOK, AppOK, WorkerOK, RestOK
<1>2. WorkerOK'
  BY AppendProperties, SummaryType DEF WorkerOK, Answer, worker, StoreOK, DaemonOK, AppOK, RestOK
<1>3. StoreOK' /\ AppOK' /\ RestOK'
  BY DEF StoreOK, AppOK, RestOK, store, app, pushService
<1> QED
  BY <1>1, <1>2, <1>3

LEMMA ShowGenericType ==
  ASSUME TypeOK, SpareEndpoint, ShowGeneric
  PROVE  TypeOK'
<1> USE DEF TypeOK, ShowGeneric
<1>1. DaemonOK'
  BY TakesType DEF DaemonOK, daemon, StoreOK, AppOK, WorkerOK, RestOK
<1>2. WorkerOK'
  BY OvertakenType DEF WorkerOK, NotifyGeneric, Answer, worker, StoreOK, DaemonOK, AppOK, RestOK
<1>3. RestOK'
  BY BoundsType DEF RestOK, pushService, StoreOK, DaemonOK, AppOK, WorkerOK
<1>4. StoreOK' /\ AppOK'
  BY DEF StoreOK, AppOK, store, app
<1> QED
  BY <1>1, <1>2, <1>3, <1>4

LEMMA ShowSummaryType ==
  ASSUME TypeOK, SpareEndpoint, NEW i \in 1..Len(answers), ShowSummary(i)
  PROVE  TypeOK'
<1> USE DEF TypeOK, ShowSummary
<1>1. WorkerOK'
  <2>1. answers \in Seq(Answer) /\ answers[i] \in Answer
    BY ElementOfSeq DEF WorkerOK, Answer
  <2>2. answers' \in Seq(Answer)
    BY AnswersLeft
  <2> QED
    BY <2>1, <2>2 DEF WorkerOK, Answer
<1>2. RestOK'
  BY DEF RestOK, pushService, StoreOK, DaemonOK, AppOK, WorkerOK
<1>3. StoreOK' /\ DaemonOK' /\ AppOK'
  BY DEF StoreOK, DaemonOK, AppOK, store, daemon, app
<1> QED
  BY <1>1, <1>2, <1>3

LEMMA WorkerStopsType ==
  ASSUME TypeOK, SpareEndpoint, WorkerStops
  PROVE  TypeOK'
<1> USE DEF TypeOK, WorkerStops
<1>1. WorkerOK'
  BY DEF WorkerOK, worker, StoreOK, DaemonOK, AppOK, RestOK
<1>2. StoreOK' /\ DaemonOK' /\ AppOK' /\ RestOK'
  BY DEF StoreOK, DaemonOK, AppOK, RestOK, store, daemon, app, pushService
<1> QED
  BY <1>1, <1>2

LEMMA PageLoadsType ==
  ASSUME TypeOK, SpareEndpoint, PageLoads
  PROVE  TypeOK'
<1> USE DEF TypeOK, PageLoads
<1>1. AppOK'
  <2>1. mine' \in Endpoints
    BY BoundsType DEF RestOK, SpareEndpoint
  <2> HIDE DEF Endpoints
  <2> QED
    BY <2>1 DEF AppOK
<1>2. WorkerOK'
  BY DEF WorkerOK, worker, StoreOK, DaemonOK, AppOK, RestOK
<1>3. RestOK'
  <2>1. mine' \in Endpoints /\ issued' \in Endpoints
    BY BoundsType DEF RestOK, SpareEndpoint
  <2>2. moves' \in 0..MaxMoves
    BY BoundsType DEF RestOK, Moves
  <2> QED
    BY <2>1, <2>2 DEF RestOK
<1>4. StoreOK' /\ DaemonOK'
  BY DEF StoreOK, DaemonOK, store, daemon
<1> QED
  BY <1>1, <1>2, <1>3, <1>4

LEMMA ConnectType ==
  ASSUME TypeOK, SpareEndpoint, Connect
  PROVE  TypeOK'
<1> USE DEF TypeOK, Connect
<1>1. StoreOK'
  BY DEF StoreOK, MarkRead, OnScreen, store
<1>2. DaemonOK'
  BY DEF DaemonOK, daemon, StoreOK, AppOK, WorkerOK, RestOK
<1>3. AppOK'
  BY EmptySeq DEF AppOK, Sees, app, StoreOK, DaemonOK, WorkerOK, RestOK
<1>4. WorkerOK'
  BY DEF WorkerOK, worker, StoreOK, DaemonOK, AppOK, RestOK
<1>5. RestOK'
  BY DEF RestOK, pushService, StoreOK, DaemonOK, AppOK, WorkerOK
<1> QED
  BY <1>1, <1>2, <1>3, <1>4, <1>5

LEMMA LinkDiesType ==
  ASSUME TypeOK, SpareEndpoint, LinkDies
  PROVE  TypeOK'
<1> USE DEF TypeOK, LinkDies
<1>1. AppOK'
  BY EmptySeq DEF AppOK, app, StoreOK, DaemonOK, WorkerOK, RestOK
<1>2. RestOK'
  <2>1. breaks' \in 0..MaxBreaks
    BY BoundsType DEF RestOK
  <2> QED
    BY <2>1, LostType DEF RestOK, pushService
<1>3. StoreOK' /\ DaemonOK' /\ WorkerOK'
  BY DEF StoreOK, DaemonOK, WorkerOK, store, daemon, worker
<1> QED
  BY <1>1, <1>2, <1>3

LEMMA DetachType ==
  ASSUME TypeOK, SpareEndpoint, Detach
  PROVE  TypeOK'
<1> USE DEF TypeOK, Detach
<1>1. AppOK'
  BY DEF AppOK, app, StoreOK, DaemonOK, WorkerOK, RestOK
<1>2. StoreOK' /\ DaemonOK' /\ WorkerOK' /\ RestOK'
  BY DEF StoreOK, DaemonOK, WorkerOK, RestOK, store, daemon, worker, pushService
<1> QED
  BY <1>1, <1>2

LEMMA AppEndsType ==
  ASSUME TypeOK, SpareEndpoint, AppEnds
  PROVE  TypeOK'
<1> USE DEF TypeOK, AppEnds
<1>1. AppOK'
  BY EmptySeq DEF AppOK, app, StoreOK, DaemonOK, WorkerOK, RestOK
<1>2. RestOK'
  <2>1. moves' \in 0..MaxMoves
    BY BoundsType DEF RestOK, Moves
  <2> QED
    BY <2>1, LostType DEF RestOK, pushService
<1>3. StoreOK' /\ DaemonOK' /\ WorkerOK'
  BY DEF StoreOK, DaemonOK, WorkerOK, store, daemon, worker
<1> QED
  BY <1>1, <1>2, <1>3

LEMMA HideType ==
  ASSUME TypeOK, SpareEndpoint, Hide
  PROVE  TypeOK'
<1> USE DEF TypeOK, Hide
<1>1. AppOK'
  BY DEF AppOK, app, StoreOK, DaemonOK, WorkerOK, RestOK
<1>2. RestOK'
  BY BoundsType DEF RestOK, Moves, pushService, StoreOK, DaemonOK, AppOK, WorkerOK
<1>3. StoreOK' /\ DaemonOK' /\ WorkerOK'
  BY DEF StoreOK, DaemonOK, WorkerOK, store, daemon, worker
<1> QED
  BY <1>1, <1>2, <1>3

LEMMA ShowType ==
  ASSUME TypeOK, SpareEndpoint, Show
  PROVE  TypeOK'
<1> USE DEF TypeOK, Show
<1>1. StoreOK'
  BY DEF StoreOK, BackOnScreen, MarkRead, store
<1>2. AppOK'
  BY DEF AppOK, BackOnScreen, OnScreen, Sees, app, StoreOK, DaemonOK, WorkerOK, RestOK
<1>3. RestOK'
  BY BoundsType DEF RestOK, Moves, pushService, StoreOK, DaemonOK, AppOK, WorkerOK
<1>4. DaemonOK' /\ WorkerOK'
  BY DEF DaemonOK, WorkerOK, daemon, worker
<1> QED
  BY <1>1, <1>2, <1>3, <1>4

LEMMA OpenThreadType ==
  ASSUME TypeOK, SpareEndpoint, NEW c \in Chats, OpenThread(c)
  PROVE  TypeOK'
<1> USE DEF TypeOK, OpenThread
<1>1. StoreOK'
  BY DEF StoreOK, MarkRead, store
<1>2. AppOK'
  BY DEF AppOK, Sees, app, StoreOK, DaemonOK, WorkerOK, RestOK
<1>3. RestOK'
  BY BoundsType DEF RestOK, Moves, pushService, StoreOK, DaemonOK, AppOK, WorkerOK
<1>4. DaemonOK' /\ WorkerOK'
  BY DEF DaemonOK, WorkerOK, daemon, worker
<1> QED
  BY <1>1, <1>2, <1>3, <1>4

LEMMA EnterListScreenType ==
  ASSUME TypeOK, SpareEndpoint, EnterListScreen
  PROVE  TypeOK'
<1> USE DEF TypeOK, EnterListScreen
<1>1. AppOK'
  BY DEF AppOK, app, StoreOK, DaemonOK, WorkerOK, RestOK
<1>2. RestOK'
  BY BoundsType DEF RestOK, Moves, pushService, StoreOK, DaemonOK, AppOK, WorkerOK
<1>3. StoreOK' /\ DaemonOK' /\ WorkerOK'
  BY DEF StoreOK, DaemonOK, WorkerOK, store, daemon, worker
<1> QED
  BY <1>1, <1>2, <1>3

LEMMA HearMessageType ==
  ASSUME TypeOK, SpareEndpoint, HearMessage
  PROVE  TypeOK'
<1> USE DEF TypeOK, HearMessage
<1>1. StoreOK'
  BY DEF StoreOK, MarkRead, store
<1>2. AppOK'
  BY FirstFrame DEF AppOK, PushFrame, app, StoreOK, DaemonOK, WorkerOK, RestOK
<1>3. WorkerOK'
  BY FirstFrame, OvertakenType DEF WorkerOK, Answer, PushFrame, worker, StoreOK, DaemonOK, AppOK, RestOK
<1>4. RestOK'
  BY FirstFrame DEF RestOK, PushFrame, pushService, StoreOK, DaemonOK, AppOK, WorkerOK
<1>5. DaemonOK'
  BY DEF DaemonOK, daemon
<1> QED
  BY <1>1, <1>2, <1>3, <1>4, <1>5

LEMMA ReadElsewhereType ==
  ASSUME TypeOK, SpareEndpoint, NEW c \in Chats, ReadElsewhere(c)
  PROVE  TypeOK'
<1> USE DEF TypeOK, ReadElsewhere
<1>1. StoreOK'
  BY DEF StoreOK, MarkRead, store
<1>2. RestOK'
  BY BoundsType DEF RestOK, Moves, pushService, StoreOK, DaemonOK, AppOK, WorkerOK
<1>3. DaemonOK' /\ AppOK' /\ WorkerOK'
  BY DEF DaemonOK, AppOK, WorkerOK, daemon, app, worker
<1> QED
  BY <1>1, <1>2, <1>3

LEMMA MuteElsewhereType ==
  ASSUME TypeOK, SpareEndpoint, NEW c \in Chats, NEW on \in BOOLEAN, MuteElsewhere(c, on)
  PROVE  TypeOK'
<1> USE DEF TypeOK, MuteElsewhere
<1>1. StoreOK'
  BY DEF StoreOK, SetTo, store
<1>2. RestOK'
  BY BoundsType DEF RestOK, Moves, SetTo, pushService, StoreOK, DaemonOK, AppOK, WorkerOK
<1>3. DaemonOK' /\ AppOK' /\ WorkerOK'
  BY DEF DaemonOK, AppOK, WorkerOK, daemon, app, worker
<1> QED
  BY <1>1, <1>2, <1>3

LEMMA SetMuteType ==
  ASSUME TypeOK, SpareEndpoint, NEW c \in Chats, NEW on \in BOOLEAN, SetMute(c, on)
  PROVE  TypeOK'
<1> USE DEF TypeOK, SetMute
<1>1. StoreOK'
  BY DEF StoreOK, SetTo, store
<1>2. AppOK'
  BY DEF AppOK, app, StoreOK, DaemonOK, WorkerOK, RestOK
<1>3. RestOK'
  BY BoundsType DEF RestOK, Moves, SetTo, pushService, StoreOK, DaemonOK, AppOK, WorkerOK
<1>4. DaemonOK' /\ WorkerOK'
  BY DEF DaemonOK, WorkerOK, daemon, worker
<1> QED
  BY <1>1, <1>2, <1>3, <1>4

\* No step takes a variable out of its type.
LEMMA TypeStep == TypeOK /\ SpareEndpoint /\ [Next]_vars => TypeOK'
<1> SUFFICES ASSUME TypeOK, SpareEndpoint, [Next]_vars PROVE TypeOK'
  OBVIOUS
<1>1. CASE Next
  BY <1>1, PutMessageType, PushMessageType, SomebodyHomeType, NotifyPushType,
     WindowPassesType, PostGoneType, PostFailsType, EndpointExpiresType,
     SummaryForNotificationType, ShowGenericType, ShowSummaryType, WorkerStopsType,
     PageLoadsType, ConnectType, LinkDiesType, DetachType,
     AppEndsType, HideType, ShowType, OpenThreadType,
     EnterListScreenType, HearMessageType, ReadElsewhereType, MuteElsewhereType,
     SetMuteType
  DEF Next
<1>2. CASE UNCHANGED vars
  BY <1>2 DEF vars, store, daemon, app, worker, pushService, TypeOK, StoreOK, DaemonOK, AppOK, WorkerOK, RestOK
<1> QED
  BY <1>1, <1>2

-----------------------------------------------------------------------------
(* The endpoint                                                            *)

LEMMA SpareStep == TypeOK /\ SpareEndpoint /\ [Next]_vars => SpareEndpoint'
<1> SUFFICES ASSUME TypeOK, SpareEndpoint, [Next]_vars PROVE SpareEndpoint'
  OBVIOUS
<1>1. CASE UNCHANGED <<mine, issued>>
  BY <1>1 DEF SpareEndpoint
<1>2. CASE PageLoads
  BY <1>2, BoundsType DEF PageLoads, SpareEndpoint, TypeOK, RestOK
<1>3. CASE EndpointExpires
  BY <1>3 DEF EndpointExpires, SpareEndpoint
<1>4. UNCHANGED <<mine, issued>> \/ PageLoads \/ EndpointExpires
  BY DEF Next, vars, pushService, PutMessage, PushMessage, SomebodyHome, NotifyPush, WindowPasses,
         PostGone, PostFails, SummaryForNotification, ShowGeneric, ShowSummary, WorkerStops, Connect,
         LinkDies, Detach, AppEnds, Hide, Show, OpenThread, EnterListScreen, HearMessage,
         ReadElsewhere, MuteElsewhere, SetMute
<1> QED
  BY <1>1, <1>2, <1>3, <1>4

-----------------------------------------------------------------------------
(* The notifications                                                       *)

\* A step that adds nothing a notification could come from.
LEMMA NothingNew ==
  ASSUME TypeOK, Reported, MutesHold, TypeOK',
         UNCHANGED <<arrived, account, bubble, hush>>,
         \A j \in 1..Len(answers)' : \E k \in 1..Len(answers) : answers'[j].sum = answers[k].sum,
         \A j \in 1..Len(down)' : \E k \in 1..Len(down) : down'[j] = down[k],
         handling' = handling \/ handling'.at # "push"
  PROVE  Reported' /\ MutesHold'
<1>1. Reported'
  BY DEF Reported
<1>2. ASSUME NEW c \in hush PROVE Hushed(c)'
  BY DEF MutesHold, Hushed
<1> QED
  BY <1>1, <1>2 DEF MutesHold

LEMMA AnswersType == TypeOK => \A i \in 1..Len(answers) : answers[i].sum \in Counts
<1> SUFFICES ASSUME TypeOK, NEW i \in 1..Len(answers) PROVE answers[i].sum \in Counts
  OBVIOUS
<1>1. answers[i] \in Answer
  BY ElementOfSeq DEF TypeOK, WorkerOK, Answer
<1> QED
  BY <1>1 DEF Answer

LEMMA FramesType ==
  TypeOK => \A i \in 1..Len(down) : down[i].n \in Nat /\ down[i].chat \in Chats
<1> SUFFICES ASSUME TypeOK, NEW i \in 1..Len(down) PROVE down[i].n \in Nat /\ down[i].chat \in Chats
  OBVIOUS
<1>1. down[i] \in PushFrame
  BY ElementOfSeq DEF TypeOK, AppOK, PushFrame
<1> QED
  BY <1>1 DEF PushFrame

\* A message that comes while its chat is muted is ahead of all there is.
LEMMA PutMessageMute ==
  ASSUME TypeOK, Reported, MutesHold, NEW c \in Chats, PutMessage(c)
  PROVE  Reported' /\ MutesHold'
<1>1. /\ arrived \in Counts /\ bubble \in Counts /\ hush \subseteq Chats
      /\ \A d \in Chats : arrived'[d] = IF d = c THEN arrived[d] + 1 ELSE arrived[d]
      /\ UNCHANGED <<account, bubble, answers, down>>
      /\ handling' = [at |-> "push", chat |-> c, muted |-> account[c] = "muted", sent |-> FALSE]
      /\ hush' = IF account[c] = "muted" THEN hush \cup {c} ELSE hush \ {c}
  BY DEF TypeOK, StoreOK, WorkerOK, RestOK, PutMessage
<1>2. \A i \in 1..Len(answers) : answers[i].sum \in Counts
  BY AnswersType
<1>3. \A i \in 1..Len(down) : down[i].n \in Nat /\ down[i].chat \in Chats
  BY FramesType
<1>4. Reported'
  <2>1. \A d \in Chats : arrived[d] \in Nat /\ arrived[d] <= arrived'[d]
    BY <1>1
  <2>2. \A d \in Chats : bubble[d] \in Nat /\ bubble[d] <= arrived[d]
    BY <1>1 DEF Reported
  <2>3. \A i \in 1..Len(answers) : \A d \in Chats :
          answers[i].sum[d] \in Nat /\ answers[i].sum[d] <= arrived[d]
    BY <1>2 DEF Reported
  <2>4. \A i \in 1..Len(down) : down[i].n <= arrived[down[i].chat]
    BY DEF Reported
  <2>5. \A d \in Chats : bubble'[d] <= arrived'[d]
    BY <1>1, <2>1, <2>2
  <2>6. \A i \in 1..Len(answers') : \A d \in Chats : answers'[i].sum[d] <= arrived'[d]
    BY <1>1, <2>1, <2>3
  <2>7. ASSUME NEW i \in 1..Len(down) PROVE down[i].n <= arrived'[down[i].chat]
    <3>1. down[i].chat \in Chats /\ down[i].n \in Nat
      BY <1>3
    <3>2. /\ arrived[down[i].chat] \in Nat /\ arrived'[down[i].chat] \in Nat
          /\ arrived[down[i].chat] <= arrived'[down[i].chat]
      BY <1>1, <2>1, <3>1
    <3> QED
      BY <2>4, <3>1, <3>2
  <2> QED
    BY <1>1, <2>5, <2>6, <2>7 DEF Reported
<1>5. ASSUME NEW d \in hush', d # c PROVE Hushed(d)'
  BY <1>1, <1>5 DEF MutesHold, Hushed
<1>6. ASSUME c \in hush' PROVE Hushed(c)'
  <2>1. account'[c] = "muted" /\ (handling'.chat = c => handling'.muted)
    BY <1>1, <1>6
  <2>2. arrived[c] \in Nat /\ arrived'[c] = arrived[c] + 1
    BY <1>1
  <2>3. bubble'[c] < arrived'[c]
    BY <1>1, <2>2 DEF Reported
  <2>4. \A i \in 1..Len(answers') : answers'[i].sum[c] < arrived'[c]
    BY <1>1, <1>2, <2>2 DEF Reported
  <2>5. \A i \in 1..Len(down') : down'[i].chat = c => down'[i].n < arrived'[c]
    BY <1>1, <1>3, <2>2 DEF Reported
  <2> QED
    BY <2>1, <2>3, <2>4, <2>5 DEF Hushed
<1> QED
  BY <1>4, <1>5, <1>6 DEF MutesHold

\* The frame of a message that came muted says so.
LEMMA PushMessageMute ==
  ASSUME TypeOK, Reported, MutesHold, PushMessage
  PROVE  Reported' /\ MutesHold'
<1> DEFINE h == handling.chat
           f == [chat |-> h, n |-> arrived[h], muted |-> handling.muted]
<1>1. h \in Chats /\ f \in PushFrame /\ f.n = arrived[h] /\ f.chat = h /\ f.muted = handling.muted
  BY HandlingType DEF TypeOK, StoreOK, PushMessage, PushFrame
<1>2. UNCHANGED <<arrived, account, bubble, answers, hush>> /\ handling'.at = "wake"
  <2>1. handling \in Handlings /\ handling' = [handling EXCEPT !.at = "wake", !.sent = link = "on"]
    BY HandlingType DEF TypeOK, PushMessage
  <2> QED
    BY <2>1 DEF PushMessage, store, worker
<1>3. \/ UNCHANGED down
      \/ Len(down') = Len(down) + 1 /\ \A i \in 1..Len(down') : down'[i] = IF i = Len(down) + 1 THEN f ELSE down[i]
  <2>1. down \in Seq(PushFrame)
    BY DEF TypeOK, AppOK, PushFrame
  <2>2. down' = down \/ down' = Append(down, f)
    BY DEF PushMessage
  <2> HIDE DEF f
  <2> QED
    BY <1>1, <2>1, <2>2, AppendProperties
<1>4. Len(down) \in Nat
  BY LenProperties DEF TypeOK, AppOK
<1>5. handling.at = "push" /\ \A c \in hush : h = c => f.muted
  BY <1>1 DEF PushMessage, MutesHold, Hushed
<1>6. arrived \in Counts
  BY DEF TypeOK, StoreOK
<1> HIDE DEF f, h
<1>7. Reported'
  <2>1. \A i \in 1..Len(down') : down'[i].n <= arrived'[down'[i].chat]
    BY <1>1, <1>2, <1>3, <1>4, <1>6 DEF Reported
  <2> QED
    BY <1>2, <2>1 DEF Reported
<1>8. ASSUME NEW c \in hush PROVE Hushed(c)'
  BY <1>1, <1>2, <1>3, <1>4, <1>5, <1>8 DEF MutesHold, Hushed
<1> QED
  BY <1>2, <1>7, <1>8 DEF MutesHold

\* The daemon's answer leaves out what the account has muted.
LEMMA SummaryMute ==
  ASSUME TypeOK, Reported, MutesHold, SummaryForNotification
  PROVE  Reported' /\ MutesHold'
<1> DEFINE f == [sum |-> Summary, late |-> FALSE]
<1>1. /\ UNCHANGED <<arrived, account, bubble, down, hush, handling>>
      /\ arrived \in Counts /\ hush \subseteq Chats /\ bubble \in Counts
  BY DEF SummaryForNotification, store, app, TypeOK, StoreOK, WorkerOK, RestOK
<1>2. f \in Answer /\ f.sum = Summary
  BY SummaryType DEF Answer, TypeOK
<1>3. Len(answers) \in Nat /\ Len(answers') = Len(answers) + 1
      /\ \A i \in 1..Len(answers') : answers'[i] = IF i = Len(answers) + 1 THEN f ELSE answers[i]
  <2>1. answers \in Seq(Answer) /\ answers' = Append(answers, f)
    BY DEF TypeOK, WorkerOK, Answer, SummaryForNotification
  <2> HIDE DEF f
  <2> QED
    BY <1>2, <2>1, AppendProperties, LenProperties
<1>4. \A c \in Chats : Summary[c] <= arrived[c]
  BY <1>1 DEF Summary
<1>5. \A c \in hush : Summary[c] < arrived[c]
  BY <1>1 DEF Summary, ListedMuted, MutesHold, Hushed
<1> HIDE DEF f
<1>6. Reported'
  BY <1>1, <1>2, <1>3, <1>4 DEF Reported
<1>7. ASSUME NEW c \in hush PROVE Hushed(c)'
  BY <1>1, <1>2, <1>3, <1>5, <1>7 DEF MutesHold, Hushed
<1> QED
  BY <1>1, <1>6, <1>7 DEF MutesHold

\* The worker shows an answer it has, and keeps the others.
LEMMA ShowSummaryMute ==
  ASSUME TypeOK, Reported, MutesHold, NEW i \in 1..Len(answers), ShowSummary(i)
  PROVE  Reported' /\ MutesHold'
<1>1. bubble' = answers[i].sum /\ UNCHANGED <<arrived, account, down, hush, handling>>
  BY DEF ShowSummary, store, daemon, app
<1>2. \A j \in 1..Len(answers') : \E k \in 1..Len(answers) : answers'[j].sum = answers[k].sum
  <2> SUFFICES ASSUME NEW j \in 1..Len(answers')
               PROVE  \E k \in 1..Len(answers) : answers'[j].sum = answers[k].sum
    OBVIOUS
  <2>1. /\ Len(answers) \in Nat /\ Len(answers') = Len(answers) - 1
        /\ j < i => answers'[j].sum = answers[j].sum
        /\ j >= i => answers'[j] = answers[j + 1]
    BY AnswersLeft DEF TypeOK
  <2>2. j \in 1..Len(answers) /\ j + 1 \in 1..Len(answers)
    BY <2>1
  <2> QED
    BY <2>1, <2>2
<1>3. Reported'
  BY <1>1, <1>2 DEF Reported
<1>4. ASSUME NEW c \in hush PROVE Hushed(c)'
  BY <1>1, <1>2 DEF MutesHold, Hushed
<1> QED
  BY <1>1, <1>3, <1>4 DEF MutesHold

LEMMA SameAnswers ==
  TypeOK => \A j \in 1..Len(Overtaken(answers)) :
              \E k \in 1..Len(answers) : Overtaken(answers)[j].sum = answers[k].sum
<1> SUFFICES ASSUME TypeOK, NEW j \in 1..Len(Overtaken(answers))
             PROVE  \E k \in 1..Len(answers) : Overtaken(answers)[j].sum = answers[k].sum
  OBVIOUS
<1>1. answers \in Seq(Answer)
  BY DEF TypeOK, WorkerOK, Answer
<1>2. j \in 1..Len(answers) /\ Overtaken(answers)[j].sum = answers[j].sum
  BY <1>1, OvertakenType
<1> QED
  BY <1>2

\* A frame is heard, and one of a chat that is not muted may make a bubble.
LEMMA HearMessageMute ==
  ASSUME TypeOK, Reported, MutesHold, HearMessage
  PROVE  Reported' /\ MutesHold'
<1> DEFINE m == Head(down)
<1>1. /\ m = down[1] /\ Len(down) \in Nat /\ 1 \in 1..Len(down)
      /\ Len(down') = Len(down) - 1
      /\ \A i \in 1..Len(down') : i + 1 \in 1..Len(down) /\ down'[i] = down[i + 1]
  <2>1. down # <<>> /\ down' = Tail(down)
    BY DEF HearMessage
  <2>2. /\ Head(down) = down[1]
        /\ Len(Tail(down)) = Len(down) - 1
        /\ \A i \in 1..Len(Tail(down)) : Tail(down)[i] = down[i + 1]
    BY <2>1, FirstFrame DEF TypeOK
  <2>3. Len(down) \in Nat /\ Len(down) # 0
    BY <2>1, EmptySeq, LenProperties DEF TypeOK, AppOK
  <2> QED
    BY <2>1, <2>2, <2>3
<1>2. UNCHANGED <<arrived, account, hush, handling>>
  BY DEF HearMessage, daemon
<1>3. \/ UNCHANGED bubble
      \/ ~m.muted /\ bubble' = [bubble EXCEPT ![m.chat] = m.n]
  BY DEF HearMessage
<1>4. answers' = answers \/ answers' = Overtaken(answers)
  BY DEF HearMessage
<1>5. bubble \in Counts
  BY DEF TypeOK, WorkerOK
<1>6. \A j \in 1..Len(answers') : \E k \in 1..Len(answers) : answers'[j].sum = answers[k].sum
  BY <1>4, SameAnswers
<1> HIDE DEF m
<1>7. Reported'
  <2>1. \A c \in Chats : bubble'[c] <= arrived'[c]
    BY <1>1, <1>2, <1>3, <1>5 DEF Reported
  <2> QED
    BY <1>1, <1>2, <1>6, <2>1 DEF Reported
<1>8. ASSUME NEW c \in hush PROVE Hushed(c)'
  <2>1. c \in Chats
    BY DEF TypeOK, RestOK
  <2>2. bubble'[c] < arrived'[c]
    BY <1>1, <1>2, <1>3, <1>5, <2>1 DEF MutesHold, Hushed
  <2> QED
    BY <1>1, <1>2, <1>6, <2>2 DEF MutesHold, Hushed
<1> QED
  BY <1>2, <1>7, <1>8 DEF MutesHold

\* Whoever mutes or unmutes, and wherever.
LEMMA SetToMute ==
  ASSUME TypeOK, Reported, MutesHold, NEW c \in Chats, NEW on \in BOOLEAN, SetTo(c, on),
         UNCHANGED <<arrived, handling, answers, bubble, down>>
  PROVE  Reported' /\ MutesHold'
<1>1. Reported'
  BY DEF Reported
<1>2. /\ account \in [Chats -> {"unset", "loud", "muted"}] /\ hush \subseteq Chats
      /\ account' = [account EXCEPT ![c] = IF on THEN "muted" ELSE "loud"]
      /\ hush' = IF on THEN hush ELSE hush \ {c}
  BY DEF TypeOK, StoreOK, RestOK, SetTo
<1>3. ASSUME NEW d \in hush' PROVE Hushed(d)'
  <2>1. d \in hush /\ account'[d] = "muted"
    BY <1>2, <1>3 DEF MutesHold, Hushed
  <2> QED
    BY <2>1 DEF MutesHold, Hushed
<1> QED
  BY <1>1, <1>3 DEF MutesHold

\* No step lets a notification get ahead of the store, or of a mute.
LEMMA MuteStep ==
  ASSUME TypeOK, Reported, MutesHold, TypeOK', [Next]_vars
  PROVE  Reported' /\ MutesHold'
<1> DEFINE Still == UNCHANGED <<arrived, account, bubble, hush>>
           OldAnswers == \A j \in 1..Len(answers)' :
                           \E k \in 1..Len(answers) : answers'[j].sum = answers[k].sum
           OldFrames == \A j \in 1..Len(down)' : \E k \in 1..Len(down) : down'[j] = down[k]
           OldMessage == handling' = handling \/ handling'.at # "push"
<1> USE DEF store, daemon, app, worker, pushService
<1>1. UNCHANGED answers => OldAnswers
  OBVIOUS
<1>2. UNCHANGED down \/ down' = <<>> => OldFrames
  BY EmptySeq
<1>3. answers' = Overtaken(answers) => OldAnswers
  BY SameAnswers
<1>4. CASE UNCHANGED <<arrived, account, bubble, hush, answers, down, handling>>
  BY <1>1, <1>2, <1>4, NothingNew
<1>5. CASE SomebodyHome \/ NotifyPush
  <2>1. Still /\ UNCHANGED <<answers, down>> /\ handling' = Idle
    BY <1>5 DEF SomebodyHome, NotifyPush
  <2> QED
    BY <1>1, <1>2, <2>1, NothingNew
<1>6. CASE ShowGeneric
  <2>1. Still /\ answers' = Overtaken(answers) /\ UNCHANGED <<down, handling>>
    BY <1>6 DEF ShowGeneric, NotifyGeneric
  <2> QED
    BY <1>2, <1>3, <2>1, NothingNew
<1>7. CASE Connect \/ LinkDies \/ AppEnds
  <2>1. Still /\ UNCHANGED <<answers, handling>> /\ down' = <<>>
    BY <1>7 DEF Connect, LinkDies, AppEnds
  <2> QED
    BY <1>1, <1>2, <2>1, NothingNew
<1>8. ASSUME NEW c \in Chats, NEW on \in BOOLEAN, MuteElsewhere(c, on) \/ SetMute(c, on)
      PROVE  Reported' /\ MutesHold'
  <2>1. SetTo(c, on) /\ UNCHANGED <<arrived, handling, answers, bubble, down>>
    BY <1>8 DEF MuteElsewhere, SetMute
  <2> QED
    BY <2>1, SetToMute
<1>9. CASE PushMessage \/ SummaryForNotification \/ HearMessage
  BY <1>9, PushMessageMute, SummaryMute, HearMessageMute
<1>10. ASSUME NEW c \in Chats, PutMessage(c) PROVE Reported' /\ MutesHold'
  BY <1>10, PutMessageMute
<1>11. ASSUME NEW i \in 1..Len(answers), ShowSummary(i) PROVE Reported' /\ MutesHold'
  BY <1>11, ShowSummaryMute
<1>12. ASSUME \/ EndpointExpires \/ WorkerStops \/ PageLoads \/ Detach \/ Hide \/ Show \/ EnterListScreen
              \/ \E c \in Chats : WindowPasses(c) \/ OpenThread(c) \/ ReadElsewhere(c)
              \/ \E e \in Endpoints : PostGone(e) \/ PostFails(e)
              \/ UNCHANGED vars
       PROVE  UNCHANGED <<arrived, account, bubble, hush, answers, down, handling>>
  BY <1>12 DEF EndpointExpires, WorkerStops, PageLoads, Detach, Hide, Show, EnterListScreen,
               WindowPasses, OpenThread, ReadElsewhere, PostGone, PostFails, vars
<1> HIDE DEF store, daemon, app, worker, pushService, Endpoints
<1> QED
  BY <1>4, <1>5, <1>6, <1>7, <1>8, <1>9, <1>10, <1>11, <1>12 DEF Next

-----------------------------------------------------------------------------
(* The newest message of a chat                                            *)

\* Frames are on a socket that is up.
LEMMA LinkStep ==
  ASSUME DownWhileOn, [Next]_vars
  PROVE  DownWhileOn'
<1> USE DEF DownWhileOn, store, daemon, app, worker, pushService
<1>1. CASE UNCHANGED <<link, down>>
  BY <1>1
<1>2. CASE PushMessage \/ HearMessage
  BY <1>2 DEF PushMessage, HearMessage
<1>3. CASE Connect \/ LinkDies \/ AppEnds \/ Detach
  BY <1>3 DEF Connect, LinkDies, AppEnds, Detach
<1>4. ASSUME ~(PushMessage \/ HearMessage \/ Connect \/ LinkDies \/ AppEnds \/ Detach)
      PROVE  UNCHANGED <<link, down>>
  BY <1>4, Zenon DEF Next, vars, PutMessage, SomebodyHome, NotifyPush, WindowPasses, PostGone, PostFails,
         EndpointExpires, SummaryForNotification, ShowGeneric, ShowSummary, WorkerStops, PageLoads,
         Hide, Show, OpenThread, EnterListScreen, ReadElsewhere, MuteElsewhere, SetMute
<1> QED
  BY <1>1, <1>2, <1>3, <1>4

\* Only a new message makes a chat unread, unseen or no longer excused.
LEMMA OnlyMessages ==
  ASSUME TypeOK, [Next]_vars, \A d \in Chats : ~PutMessage(d)
  PROVE  unread' \subseteq unread /\ missed \subseteq missed' /\ seen \subseteq seen'
<1> USE DEF store, daemon, app, worker, pushService
<1>1. unread' \subseteq unread
  <2>1. UNCHANGED unread \/ \E cs : unread' = unread \ cs
    BY Zenon DEF Next, vars, PushMessage, SomebodyHome, NotifyPush, WindowPasses, PostGone, PostFails,
         EndpointExpires, SummaryForNotification, ShowGeneric, ShowSummary, WorkerStops, PageLoads,
         Connect, LinkDies, Detach, AppEnds, HearMessage, BackOnScreen, MarkRead,
         Hide, Show, OpenThread, EnterListScreen, ReadElsewhere, MuteElsewhere, SetMute
  <2> QED
    BY <2>1
<1>2. missed \subseteq missed'
  <2>1. missed \subseteq Chats
    BY DEF TypeOK, RestOK
  <2>2. UNCHANGED missed \/ missed' = Chats \/ \E cs : missed' = missed \cup cs
    BY Zenon DEF Next, vars, PushMessage, SomebodyHome, NotifyPush, WindowPasses, PostGone, PostFails,
         EndpointExpires, SummaryForNotification, ShowGeneric, ShowSummary, WorkerStops, PageLoads,
         Connect, LinkDies, Detach, AppEnds, HearMessage, Excused, Lost, SetTo,
         Hide, Show, OpenThread, EnterListScreen, ReadElsewhere, MuteElsewhere, SetMute
  <2> QED
    BY <2>1, <2>2
<1>3. seen \subseteq seen'
  <2>1. UNCHANGED seen \/ \E cs : seen' = seen \cup cs
    BY Zenon DEF Next, vars, PushMessage, SomebodyHome, NotifyPush, WindowPasses, PostGone, PostFails,
         EndpointExpires, SummaryForNotification, ShowGeneric, ShowSummary, WorkerStops, PageLoads,
         Connect, LinkDies, Detach, AppEnds, HearMessage, Sees,
         Hide, Show, OpenThread, EnterListScreen, ReadElsewhere, MuteElsewhere, SetMute
  <2> QED
    BY <2>1
<1> QED
  BY <1>1, <1>2, <1>3

\* A chat the account has muted is excused: muting it, and every message since.
LEMMA MutedStep ==
  ASSUME TypeOK, MutedIsExcused, [Next]_vars
  PROVE  MutedIsExcused'
<1> USE DEF store, daemon, app, worker, pushService
<1>1. ASSUME NEW d \in Chats, PutMessage(d)
      PROVE  MutedIsExcused'
  BY <1>1 DEF PutMessage, MutedIsExcused, ListedMuted
<1>2. ASSUME NEW d \in Chats, NEW on \in BOOLEAN, MuteElsewhere(d, on) \/ SetMute(d, on)
      PROVE  MutedIsExcused'
  <2>1. /\ account \in [Chats -> {"unset", "loud", "muted"}]
        /\ account' = [account EXCEPT ![d] = IF on THEN "muted" ELSE "loud"]
        /\ missed' = IF on THEN missed \cup {d} ELSE missed
    BY <1>2 DEF MuteElsewhere, SetMute, SetTo, TypeOK, StoreOK
  <2>2. column' \ {d} \subseteq column
    BY <1>2 DEF MuteElsewhere, SetMute
  <2>3. ASSUME NEW c \in Chats, ListedMuted(c)' PROVE c \in missed'
    <3>1. CASE c # d
      BY <2>1, <2>2, <2>3, <3>1 DEF MutedIsExcused, ListedMuted
    <3>2. CASE c = d
      BY <2>1, <2>3, <3>2 DEF ListedMuted
    <3> QED
      BY <3>1, <3>2
  <2> QED
    BY <2>3 DEF MutedIsExcused
<1>3. ASSUME \A d \in Chats : ~PutMessage(d) /\ \A on \in BOOLEAN : ~(MuteElsewhere(d, on) \/ SetMute(d, on))
      PROVE  MutedIsExcused'
  <2>1. UNCHANGED <<account, column>>
    BY <1>3, Zenon DEF Next, vars, PushMessage, SomebodyHome, NotifyPush, WindowPasses, PostGone, PostFails,
         EndpointExpires, SummaryForNotification, ShowGeneric, ShowSummary, WorkerStops, PageLoads,
         Connect, LinkDies, Detach, AppEnds, HearMessage,
         Hide, Show, OpenThread, EnterListScreen, ReadElsewhere
  <2>2. missed \subseteq missed'
    BY <1>3, OnlyMessages
  <2> QED
    BY <2>1, <2>2 DEF MutedIsExcused, ListedMuted
<1> QED
  BY <1>1, <1>2, <1>3

-----------------------------------------------------------------------------
(* What is on its way                                                      *)

\* The frame of the message that is pushed comes last, if the link is up.
LEMMA FrameAdded ==
  ASSUME TypeOK, PushMessage
  PROVE  /\ handling.chat \in Chats
         /\ handling'.at = "wake" /\ handling'.chat = handling.chat
         /\ link = "on" <=> handling'.sent
         /\ Len(down) \in Nat
         /\ \A i \in 1..Len(down) : down'[i] = down[i]
         /\ \/ link # "on" /\ down' = down
            \/ /\ link = "on" /\ Len(down') = Len(down) + 1
               /\ down'[Len(down')].chat = handling.chat
               /\ down'[Len(down')].n = arrived[handling.chat]
<1> DEFINE f == [chat |-> handling.chat, n |-> arrived[handling.chat], muted |-> handling.muted]
<1>1. handling \in Handlings /\ handling' = [handling EXCEPT !.at = "wake", !.sent = link = "on"]
  BY HandlingType DEF TypeOK, PushMessage
<1>2. handling.chat \in Chats /\ handling'.at = "wake" /\ handling'.chat = handling.chat
  BY <1>1
<1>3. link = "on" <=> handling'.sent
  <2>1. handling'.sent = (link = "on")
    BY <1>1, Zenon
  <2> QED
    BY <2>1
<1>4. f \in PushFrame /\ f.chat = handling.chat /\ f.n = arrived[handling.chat]
  BY <1>1, <1>2 DEF PushFrame, TypeOK, StoreOK
<1>5. down \in Seq(PushFrame) /\ Len(down) \in Nat
  BY LenProperties DEF TypeOK, AppOK, PushFrame
<1>6. down' = IF link = "on" THEN Append(down, f) ELSE down
  BY DEF PushMessage
<1> HIDE DEF f
<1>7. CASE link = "on"
  <2>1. /\ Len(down') = Len(down) + 1
        /\ \A i \in 1..Len(down) : down'[i] = down[i]
        /\ down'[Len(down) + 1] = f
    BY <1>4, <1>5, <1>6, <1>7, AppendProperties
  <2> QED
    BY <1>2, <1>3, <1>4, <1>5, <1>7, <2>1
<1>8. CASE link # "on"
  BY <1>2, <1>3, <1>5, <1>6, <1>8
<1> QED
  BY <1>7, <1>8

LEMMA FrameHeard ==
  ASSUME TypeOK, HearMessage
  PROVE  /\ Head(down) = down[1] /\ Len(down) \in Nat /\ 1 \in 1..Len(down)
         /\ down[1].chat \in Chats /\ down[1].n \in Nat
         /\ Len(down') = Len(down) - 1
         /\ \A i \in 1..Len(down') : i + 1 \in 1..Len(down) /\ down'[i] = down[i + 1]
<1>1. down # <<>> /\ down' = Tail(down)
  BY DEF HearMessage
<1>2. /\ Head(down) = down[1] /\ Head(down) \in PushFrame
      /\ Len(Tail(down)) = Len(down) - 1
      /\ \A i \in 1..Len(Tail(down)) : Tail(down)[i] = down[i + 1]
  BY <1>1, FirstFrame DEF TypeOK
<1>3. Len(down) \in Nat /\ Len(down) # 0
  BY <1>1, EmptySeq, LenProperties DEF TypeOK, AppOK
<1>4. down[1].chat \in Chats /\ down[1].n \in Nat
  BY <1>2 DEF PushFrame
<1> QED
  BY <1>1, <1>2, <1>3, <1>4

\* No step leaves an older message of a chat the last one on its way.
LEMMA FollowsStep ==
  ASSUME TypeOK, DownWhileOn, NewestFollows, [Next]_vars
  PROVE  NewestFollows'
<1> USE DEF store, daemon, app, worker, pushService
<1> DEFINE Then(c, j) == down'[j].chat = c /\ down'[j].n = arrived'[c]
           PushingThen(c) == handling'.at = "push" /\ handling'.chat = c
<1>0. (\A i \in 1..Len(down') : PushingThen(down'[i].chat) \/ \E j \in i..Len(down') : Then(down'[i].chat, j))
      => NewestFollows'
  BY DEF NewestFollows, Pushing, Newest
<1>1. CASE UNCHANGED <<arrived, handling, down>>
  BY <1>1 DEF NewestFollows, Pushing, Newest
<1>2. ASSUME NEW c \in Chats, PutMessage(c)
      PROVE  NewestFollows'
  <2>1. /\ UNCHANGED down /\ handling = Idle
        /\ handling'.at = "push" /\ handling'.chat = c
        /\ \A d \in Chats : d # c => arrived'[d] = arrived[d]
    BY <1>2 DEF PutMessage, TypeOK, StoreOK
  <2>2. ASSUME NEW i \in 1..Len(down), ~Pushing(down[i].chat)'
        PROVE  \E j \in i..Len(down) : Newest(down[i].chat, j)'
    <3>1. down[i].chat \in Chats /\ down[i].chat # c
      BY <2>1, <2>2, FramesType DEF Pushing
    <3>2. ~Pushing(down[i].chat)
      BY <2>1 DEF Pushing
    <3>3. \E j \in i..Len(down) : Newest(down[i].chat, j)
      BY <3>2 DEF NewestFollows
    <3> QED
      BY <2>1, <3>1, <3>3 DEF Newest
  <2> QED
    BY <2>1, <2>2 DEF NewestFollows, Pushing, Newest
<1>3. CASE PushMessage
  <2>1. UNCHANGED arrived
    BY <1>3 DEF PushMessage
  <2>2. CASE link # "on"
    <3>1. down' = <<>>
      BY <1>3, <2>2, FrameAdded DEF DownWhileOn
    <3> QED
      BY <3>1 DEF NewestFollows
  <2>3. CASE link = "on"
    <3> DEFINE h == handling.chat
               l == Len(down')
    <3>1. /\ Len(down) \in Nat /\ l = Len(down) + 1
          /\ \A i \in 1..Len(down) : down'[i] = down[i]
          /\ down'[l].chat = h /\ down'[l].n = arrived[h]
      BY <1>3, <2>3, FrameAdded
    <3>2. \A d : Pushing(d) => d = h
      BY DEF Pushing
    <3> HIDE DEF h, l
    <3>3. ASSUME NEW i \in 1..l
          PROVE  \E j \in i..l : Then(down'[i].chat, j)
      <4>1. CASE i = l
        BY <2>1, <3>1, <4>1 DEF Newest
      <4>2. CASE i # l
        <5>1. i \in 1..Len(down) /\ l \in i..l
          BY <3>1, <4>2
        <5>2. CASE Pushing(down[i].chat)
          BY <2>1, <3>1, <3>2, <5>1, <5>2 DEF Newest
        <5>3. CASE ~Pushing(down[i].chat)
          <6>1. PICK j \in i..Len(down) : Newest(down[i].chat, j)
            BY <5>1, <5>3 DEF NewestFollows
          <6>2. j \in 1..Len(down) /\ j \in i..l
            BY <3>1, <5>1
          <6> QED
            BY <2>1, <3>1, <5>1, <6>1, <6>2 DEF Newest
        <5> QED
          BY <5>2, <5>3
      <4> QED
        BY <4>1, <4>2
    <3> QED
      BY <1>0, <3>3 DEF l
  <2> QED
    BY <2>2, <2>3
<1>4. CASE SomebodyHome \/ NotifyPush
  <2>1. UNCHANGED <<arrived, down>> /\ ~\E c : Pushing(c)
    BY <1>4 DEF SomebodyHome, NotifyPush, Pushing
  <2> QED
    BY <2>1 DEF NewestFollows, Newest
<1>5. CASE Connect \/ LinkDies \/ AppEnds
  <2>1. down' = <<>>
    BY <1>5 DEF Connect, LinkDies, AppEnds
  <2> QED
    BY <2>1 DEF NewestFollows
<1>6. CASE HearMessage
  <2>1. /\ Len(down) \in Nat /\ Len(down') = Len(down) - 1
        /\ \A i \in 1..Len(down') : i + 1 \in 1..Len(down) /\ down'[i] = down[i + 1]
    BY <1>6, FrameHeard
  <2>2. UNCHANGED <<arrived, handling>>
    BY <1>6 DEF HearMessage
  <2>3. ASSUME NEW i \in 1..Len(down'), ~PushingThen(down'[i].chat)
        PROVE  \E j \in i..Len(down') : Then(down'[i].chat, j)
    <3>1. ~Pushing(down[i + 1].chat)
      BY <2>1, <2>2, <2>3 DEF Pushing
    <3>2. PICK j \in (i + 1)..Len(down) : Newest(down[i + 1].chat, j)
      BY <2>1, <3>1 DEF NewestFollows
    <3>3. j - 1 \in i..Len(down') /\ j - 1 \in 1..Len(down') /\ (j - 1) + 1 = j
      BY <2>1
    <3>4. Then(down'[i].chat, j - 1)
      BY <2>1, <2>2, <3>2, <3>3 DEF Newest
    <3> QED
      BY <3>3, <3>4
  <2> QED
    BY <1>0, <2>3
<1>7. ASSUME /\ ~(PushMessage \/ SomebodyHome \/ NotifyPush \/ Connect \/ LinkDies \/ AppEnds \/ HearMessage)
             /\ \A c \in Chats : ~PutMessage(c)
      PROVE  UNCHANGED <<arrived, handling, down>>
  BY <1>7, Zenon DEF Next, vars, WindowPasses, PostGone, PostFails,
         EndpointExpires, SummaryForNotification, ShowGeneric, ShowSummary, WorkerStops, PageLoads,
         Detach, Hide, Show, OpenThread, EnterListScreen, ReadElsewhere, MuteElsewhere, SetMute
<1> QED
  BY <1>1, <1>2, <1>3, <1>4, <1>5, <1>6, <1>7

-----------------------------------------------------------------------------
(* Nobody is forgotten                                                     *)

\* What a step that takes no answer and draws no notification leaves to show.
LEMMA SameToShow ==
  ASSUME NEW c \in Chats, Agree(c), UNCHANGED <<answers, bubble, vague>>, arrived'[c] = arrived[c]
  PROVE  /\ Agree(c)' /\ (Shown(c) => Shown(c)')
         /\ \A i \in 1..Len(answers) : answers[i].late \/ HasNewest(c, i) => Coming(c)'
BY DEF Agree, Shown, HasNewest, Coming

\* A step that takes nothing off its way.
LEMMA NothingTaken ==
  ASSUME NEW c \in Chats, InTime(c), UNCHANGED <<arrived, handling, down, answers, bubble, vague>>,
         LookIsComing => LookIsComing'
  PROVE  InTime(c)'
<1>1. Agree(c)' /\ (Shown(c) => Shown(c)')
  BY SameToShow DEF InTime
<1>2. Coming(c) => Coming(c)'
  BY DEF Coming, Pushing, Newest, HasNewest
<1> QED
  BY <1>1, <1>2 DEF InTime

LEMMA PutMessageInTime ==
  ASSUME TypeOK, Reported, NEW c \in Chats, NEW d \in Chats, PutMessage(d), c = d \/ InTime(c)
  PROVE  InTime(c)'
<1>1. /\ UNCHANGED <<answers, bubble, down, posts, mine>> /\ handling = Idle
      /\ handling'.at = "push" /\ handling'.chat = d
      /\ \A e \in Chats : arrived[e] \in Nat /\ arrived'[e] = IF e = d THEN arrived[e] + 1 ELSE arrived[e]
      /\ vague' = vague \ {d}
  BY DEF PutMessage, TypeOK, StoreOK, pushService
<1>2. CASE c = d
  <2>1. /\ bubble[c] \in Nat /\ bubble[c] <= arrived[c]
        /\ \A i \in 1..Len(answers) : answers[i].sum[c] \in Nat /\ answers[i].sum[c] <= arrived[c]
    BY AnswersType DEF Reported, TypeOK, WorkerOK
  <2>2. ~Shown(c)' /\ \A i \in 1..Len(answers) : answers[i].sum[c] # arrived'[c]
    BY <1>1, <1>2, <2>1 DEF Shown
  <2>3. Agree(c)'
    BY <1>1, <2>2 DEF Agree, HasNewest
  <2>4. Coming(c)'
    BY <1>1, <1>2 DEF Coming, Pushing
  <2> QED
    BY <2>3, <2>4 DEF InTime
<1>3. CASE c # d
  <2>1. arrived'[c] = arrived[c] /\ (c \in vague' <=> c \in vague)
    BY <1>1, <1>3
  <2>2. Agree(c)' /\ (Shown(c) => Shown(c)')
    BY <1>1, <1>3, <2>1 DEF InTime, Agree, Shown, HasNewest
  <2>3. Coming(c) => Coming(c)'
    BY <1>1, <2>1 DEF Coming, Pushing, Newest, HasNewest, LookIsComing
  <2> QED
    BY <1>3, <2>2, <2>3 DEF InTime
<1> QED
  BY <1>2, <1>3

\* The frame takes over from the handler, or HasClient will be asked.
LEMMA PushMessageInTime ==
  ASSUME TypeOK, NEW c \in Chats, InTime(c), PushMessage
  PROVE  InTime(c)'
<1>1. UNCHANGED <<arrived, answers, bubble, vague, posts, mine>> /\ handling.at = "push"
  BY DEF PushMessage, store, worker, pushService
<1>2. Agree(c)' /\ (Shown(c) => Shown(c)')
  BY <1>1, SameToShow DEF InTime
<1>3. CASE Pushing(c)
  <2>1. CASE link = "on"
    <3>1. /\ Len(down) \in Nat /\ Len(down') = Len(down) + 1
          /\ down'[Len(down')].chat = c /\ down'[Len(down')].n = arrived[c]
      BY <1>3, <2>1, FrameAdded DEF Pushing
    <3>2. Len(down') \in 1..Len(down')
      BY <3>1
    <3> QED
      BY <1>1, <1>2, <3>1, <3>2 DEF InTime, Coming, Newest
  <2>2. CASE link # "on"
    <3>1. handling'.at = "wake" /\ handling'.chat = c /\ ~handling'.sent
      BY <1>3, <2>2, FrameAdded DEF Pushing
    <3> QED
      BY <1>2, <3>1 DEF InTime, Coming
  <2> QED
    BY <2>1, <2>2
<1>4. CASE ~Pushing(c)
  <2>1. ASSUME NEW j \in 1..Len(down), Newest(c, j) PROVE Coming(c)'
    <3>1. down'[j] = down[j] /\ j \in 1..Len(down')
      BY FrameAdded
    <3> QED
      BY <1>1, <2>1, <3>1 DEF Coming, Newest
  <2>2. Coming(c) => Coming(c)'
    BY <1>1, <1>4, <2>1 DEF Coming, HasNewest, LookIsComing
  <2> QED
    BY <1>2, <2>2 DEF InTime
<1> QED
  BY <1>3, <1>4

\* HasClient says yes, and what was not sent is excused unless it is shown.
LEMMA SomebodyHomeInTime ==
  ASSUME TypeOK, NEW c \in Chats, InTime(c), c \notin missed', c \notin seen, SomebodyHome
  PROVE  InTime(c)'
<1>1. UNCHANGED <<arrived, answers, bubble, vague, down, posts, mine>> /\ handling.at = "wake"
  BY DEF SomebodyHome, store, worker, app, pushService
<1>2. Agree(c)' /\ (Shown(c) => Shown(c)')
  BY <1>1, SameToShow DEF InTime
<1>3. CASE handling.chat = c /\ ~handling.sent
  <2>1. c \notin Untold
    BY <1>3 DEF SomebodyHome
  <2>2. Shown(c)
    BY <2>1 DEF Untold, Told, Shown
  <2> QED
    BY <1>2, <2>2 DEF InTime
<1>4. CASE ~(handling.chat = c /\ ~handling.sent)
  <2>1. Coming(c) => Coming(c)'
    BY <1>1, <1>4 DEF Coming, Pushing, Newest, HasNewest, LookIsComing
  <2> QED
    BY <1>2, <2>1 DEF InTime
<1> QED
  BY <1>3, <1>4

\* The doorbell rings, somebody will look anyway, or the message is excused.
LEMMA NotifyPushInTime ==
  ASSUME TypeOK, NEW c \in Chats, InTime(c), c \notin missed', NotifyPush
  PROVE  InTime(c)'
<1>1. UNCHANGED <<arrived, answers, bubble, vague, down, mine>> /\ handling.at = "wake"
  BY DEF NotifyPush, store, worker, app, pushService
<1>2. Agree(c)' /\ (Shown(c) => Shown(c)')
  BY <1>1, SameToShow DEF InTime
<1>3. posts \in [Endpoints -> Nat] /\ mine \in Endpoints \cup {0} /\ 0 \notin Endpoints
  BY BoundsType DEF TypeOK, DaemonOK, RestOK
<1>4. LookIsComing => LookIsComing'
  <2>1. \/ UNCHANGED posts
        \/ posts' = [e \in Endpoints |-> IF e \in subs THEN posts[e] + 1 ELSE posts[e]]
    BY DEF NotifyPush
  <2> HIDE DEF Endpoints
  <2> QED
    BY <1>1, <1>3, <2>1 DEF LookIsComing
<1>5. handling.chat = c => LookIsComing'
  <2>1. SUFFICES ASSUME handling.chat = c PROVE LookIsComing'
    OBVIOUS
  <2>2. CASE c \in column \/ c \in recent
    BY <1>1, <1>4, <2>1, <2>2 DEF NotifyPush
  <2>3. CASE ~(c \in column \/ c \in recent)
    <3>1. /\ posts' = [e \in Endpoints |-> IF e \in subs THEN posts[e] + 1 ELSE posts[e]]
          /\ missed' = IF mine \in subs \/ LookIsComing THEN missed ELSE missed \cup {c}
      BY <2>1, <2>3 DEF NotifyPush
    <3>2. mine \in subs \/ LookIsComing
      BY <3>1
    <3>3. subs \subseteq Endpoints
      BY DEF TypeOK, DaemonOK
    <3> HIDE DEF Endpoints
    <3> QED
      BY <1>1, <1>3, <1>4, <3>1, <3>2, <3>3 DEF LookIsComing
  <2> QED
    BY <2>2, <2>3
<1>6. CASE handling.chat = c
  BY <1>2, <1>5, <1>6 DEF InTime, Coming
<1>7. CASE handling.chat # c
  <2>1. Coming(c) => Coming(c)'
    BY <1>1, <1>4, <1>7 DEF Coming, Pushing, Newest, HasNewest
  <2> QED
    BY <1>2, <2>1 DEF InTime
<1> QED
  BY <1>6, <1>7

\* A POST is lost, or an endpoint: somebody else will look, or what is not
\* shown yet is excused.
LEMMA ExcusedInTime ==
  ASSUME NEW c \in Chats, InTime(c), c \notin missed', c \notin seen, Excused,
         UNCHANGED <<arrived, handling, down, answers, bubble, vague>>
  PROVE  InTime(c)'
<1>1. Agree(c)' /\ (Shown(c) => Shown(c)')
  BY SameToShow DEF InTime
<1>2. CASE LookIsComing'
  BY <1>1, <1>2 DEF InTime, Coming
<1>3. CASE ~LookIsComing'
  <2>1. Shown(c)
    BY <1>3 DEF Excused, Untold, Told, Shown
  <2> QED
    BY <1>1, <2>1 DEF InTime
<1> QED
  BY <1>2, <1>3

\* The summary the worker fetches has the newest message of every chat that is due.
LEMMA SummaryInTime ==
  ASSUME TypeOK, MutedIsExcused, NEW c \in Chats, InTime(c), c \in unread, c \notin missed, SummaryForNotification
  PROVE  InTime(c)'
<1> DEFINE f == [sum |-> Summary, late |-> FALSE]
<1>1. UNCHANGED <<arrived, bubble, vague>>
  BY DEF SummaryForNotification, store
<1>2. f \in Answer /\ f.sum = Summary
  BY SummaryType DEF Answer, TypeOK
<1>3. Summary[c] = arrived[c]
  BY DEF Summary, MutedIsExcused
<1>4. Len(answers) \in Nat /\ Len(answers') = Len(answers) + 1
      /\ \A i \in 1..Len(answers') : answers'[i] = IF i = Len(answers) + 1 THEN f ELSE answers[i]
  <2>1. answers \in Seq(Answer) /\ answers' = Append(answers, f)
    BY DEF TypeOK, WorkerOK, Answer, SummaryForNotification
  <2> HIDE DEF f
  <2> QED
    BY <1>2, <2>1, AppendProperties, LenProperties
<1> HIDE DEF f
<1>last. PICK n \in Nat : n = Len(answers) + 1
  BY <1>4
<1>5. /\ HasNewest(c, n)'
      /\ \A i \in 1..Len(answers) : answers'[i] = answers[i]
  BY <1>1, <1>2, <1>3, <1>4, <1>last DEF HasNewest
<1>6. \A i \in 1..Len(answers') : i = n \/ i \in 1..Len(answers)
  BY <1>4, <1>last
<1>7. Agree(c)'
  <2>1. Shown(c)' => Shown(c)
    BY <1>1 DEF Shown
  <2>2. ASSUME NEW i \in 1..Len(answers'), Shown(c)'
        PROVE  answers'[i].late \/ HasNewest(c, i)'
    BY <1>1, <1>5, <1>6, <2>1, <2>2 DEF InTime, Agree, HasNewest
  <2>3. ASSUME NEW i \in 1..Len(answers'), NEW j \in 1..Len(answers'), i < j, HasNewest(c, i)'
        PROVE  answers'[j].late \/ HasNewest(c, j)'
    <3>1. CASE j \in 1..Len(answers)
      <4>1. i \in 1..Len(answers)
        BY <1>4, <2>3, <3>1
      <4> QED
        BY <1>1, <1>5, <2>3, <3>1, <4>1 DEF InTime, Agree, HasNewest
    <3>2. CASE j \notin 1..Len(answers)
      BY <1>5, <1>6, <3>2
    <3> QED
      BY <3>1, <3>2
  <2> QED
    BY <2>2, <2>3 DEF Agree
<1>8. Coming(c)'
  <2>1. n \in 1..Len(answers')
    BY <1>4, <1>last
  <2> QED
    BY <1>5, <2>1 DEF Coming
<1> QED
  BY <1>7, <1>8 DEF InTime

\* Once all answers are overtaken, none of them takes back what is shown
\* without its being excused.
LEMMA AllOvertaken ==
  ASSUME TypeOK, answers' = Overtaken(answers)
  PROVE  Len(answers') = Len(answers) /\ \A i \in 1..Len(answers') : answers'[i].late
<1>1. answers \in Seq(Answer)
  BY DEF TypeOK, WorkerOK, Answer
<1> QED
  BY <1>1, OvertakenType

LEMMA ShowGenericInTime ==
  ASSUME TypeOK, NEW c \in Chats, ShowGeneric
  PROVE  InTime(c)'
<1>1. vague' = Chats /\ answers' = Overtaken(answers)
  BY DEF ShowGeneric, NotifyGeneric
<1>2. Shown(c)'
  BY <1>1 DEF Shown
<1>3. Agree(c)'
  BY <1>1, AllOvertaken DEF Agree
<1> QED
  BY <1>2, <1>3 DEF InTime

\* A late answer excuses everything; another one shows what it has, and none
\* of those after it knows less.
LEMMA ShowSummaryInTime ==
  ASSUME TypeOK, NEW c \in Chats, InTime(c), c \notin missed', NEW i \in 1..Len(answers), ShowSummary(i)
  PROVE  InTime(c)'
<1>1. /\ bubble' = answers[i].sum /\ vague' = {} /\ ~answers[i].late
      /\ UNCHANGED <<arrived, handling, down, posts, mine>>
  BY DEF ShowSummary, store, daemon, app, pushService
<1>2. /\ Len(answers) \in Nat /\ Len(answers') = Len(answers) - 1
      /\ \A j \in 1..Len(answers') : j < i => answers'[j].sum = answers[j].sum /\ answers'[j].late
      /\ \A j \in 1..Len(answers') : j >= i => answers'[j] = answers[j + 1]
  BY AnswersLeft DEF TypeOK
<1>3. /\ i \in Nat
      /\ \A j \in 1..Len(answers') : j < i => j \in 1..Len(answers)
      /\ \A j \in 1..Len(answers') : j >= i => j + 1 \in 1..Len(answers) /\ i < j + 1
  BY <1>2
<1>4. Shown(c)' <=> HasNewest(c, i)
  BY <1>1 DEF Shown, HasNewest
<1>5. ASSUME HasNewest(c, i), NEW j \in 1..Len(answers')
      PROVE  answers'[j].late \/ HasNewest(c, j)'
  <2>1. CASE j < i
    BY <1>2, <2>1
  <2>2. CASE j >= i
    <3>1. answers[j + 1].late \/ HasNewest(c, j + 1)
      BY <1>3, <1>5, <2>2 DEF InTime, Agree
    <3> QED
      BY <1>1, <1>2, <2>2, <3>1 DEF HasNewest
  <2> QED
    BY <1>3, <2>1, <2>2
<1>6. ASSUME NEW j \in 1..Len(answers'), NEW k \in 1..Len(answers'), j < k, HasNewest(c, j)'
      PROVE  answers'[k].late \/ HasNewest(c, k)'
  <2>1. CASE k < i
    BY <1>2, <2>1
  <2>2. CASE k >= i
    <3> DEFINE l == IF j < i THEN j ELSE j + 1
    <3>1. l \in 1..Len(answers) /\ l < k + 1
      BY <1>3, <1>6, <2>2
    <3>2. HasNewest(c, l)
      BY <1>1, <1>2, <1>3, <1>6 DEF HasNewest
    <3> HIDE DEF l
    <3>3. answers[k + 1].late \/ HasNewest(c, k + 1)
      BY <1>3, <2>2, <3>1, <3>2 DEF InTime, Agree
    <3> QED
      BY <1>1, <1>2, <2>2, <3>3 DEF HasNewest
  <2> QED
    BY <1>3, <2>1, <2>2
<1>7. Agree(c)'
  BY <1>4, <1>5, <1>6 DEF Agree
<1>8. CASE Shown(c)'
  BY <1>7, <1>8 DEF InTime
<1>9. CASE ~HasNewest(c, i)
  <2>1. ~Shown(c)
    BY <1>1, <1>9 DEF InTime, Agree
  <2>2. ASSUME NEW j \in 1..Len(answers), answers[j].late \/ HasNewest(c, j)
        PROVE  Coming(c)'
    <3>1. j # i
      BY <1>1, <1>9, <2>2
    <3>2. CASE j < i
      <4>1. j \in 1..Len(answers')
        BY <1>2, <1>3, <3>2
      <4> QED
        BY <1>2, <3>2, <4>1 DEF Coming
    <3>3. CASE j > i
      <4>1. j - 1 \in 1..Len(answers') /\ j - 1 >= i /\ (j - 1) + 1 = j
        BY <1>2, <1>3, <3>3
      <4>2. answers'[j - 1] = answers[j]
        BY <1>2, <4>1
      <4> QED
        BY <1>1, <2>2, <4>1, <4>2 DEF Coming, HasNewest
    <3> QED
      BY <1>3, <3>1, <3>2, <3>3
  <2>3. Coming(c)'
    BY <1>1, <2>1, <2>2 DEF InTime, Coming, Pushing, Newest, LookIsComing
  <2> QED
    BY <1>7, <2>3 DEF InTime
<1> QED
  BY <1>4, <1>8, <1>9

\* A link or the app ends, and what was on its way there is excused.
LEMMA LostInTime ==
  ASSUME NEW c \in Chats, InTime(c), c \notin missed', missed' = Lost(down),
         UNCHANGED <<arrived, handling, answers, bubble, vague, posts, mine>>
  PROVE  InTime(c)'
<1>1. \A j \in 1..Len(down) : ~Newest(c, j)
  BY DEF Lost, Newest
<1>2. Agree(c)' /\ (Shown(c) => Shown(c)')
  BY SameToShow DEF InTime
<1>3. Coming(c) => Coming(c)'
  BY <1>1 DEF Coming, Pushing, HasNewest, LookIsComing
<1> QED
  BY <1>2, <1>3 DEF InTime

\* The newest message is seen, shown or excused when its frame is heard; an
\* older one is followed by it.
LEMMA HearMessageInTime ==
  ASSUME TypeOK, NewestFollows, NEW c \in Chats, InTime(c), c \notin missed', c \notin seen', HearMessage
  PROVE  InTime(c)'
<1> DEFINE m == down[1]
<1>1. /\ Len(down) \in Nat /\ 1 \in 1..Len(down) /\ Head(down) = m /\ m.chat \in Chats /\ m.n \in Nat
      /\ Len(down') = Len(down) - 1
      /\ \A i \in 1..Len(down') : i + 1 \in 1..Len(down) /\ down'[i] = down[i + 1]
  BY FrameHeard
<1>2. UNCHANGED <<arrived, handling, posts, mine, vague>> /\ bubble \in Counts
  BY DEF HearMessage, daemon, pushService, TypeOK, WorkerOK
<1>3. \/ UNCHANGED <<bubble, answers>> /\ seen' = seen \cup {d \in {m.chat} : m.n = arrived[d]}
      \/ UNCHANGED <<bubble, answers>> /\ m.chat \in missed'
      \/ bubble' = [bubble EXCEPT ![m.chat] = m.n] /\ answers' = Overtaken(answers)
  BY <1>1 DEF HearMessage
<1> HIDE DEF m
<1>4. ASSUME NEW j \in 2..Len(down), Newest(c, j) PROVE Coming(c)'
  <2>1. j - 1 \in 1..Len(down') /\ (j - 1) + 1 = j
    BY <1>1
  <2>2. down'[j - 1] = down[j]
    BY <1>1, <2>1
  <2> QED
    BY <1>2, <1>4, <2>1, <2>2 DEF Coming, Newest
<1>5. \A j \in 1..Len(down) : j = 1 \/ j \in 2..Len(down)
  BY <1>1
<1>6. CASE UNCHANGED <<bubble, answers>>
  <2>1. Agree(c)' /\ (Shown(c) => Shown(c)')
    BY <1>2, <1>6, SameToShow DEF InTime
  <2>2. ~Newest(c, 1) \/ bubble' = [bubble EXCEPT ![m.chat] = m.n]
    BY <1>2, <1>3 DEF Newest, m
  <2>3. CASE Newest(c, 1)
    <3>1. Shown(c)'
      BY <1>1, <1>2, <2>2, <2>3 DEF Newest, Shown, m
    <3> QED
      BY <2>1, <3>1 DEF InTime
  <2>4. CASE ~Newest(c, 1)
    <3>1. Coming(c) => Coming(c)'
      BY <1>2, <1>4, <1>5, <1>6, <2>4 DEF Coming, Pushing, HasNewest, LookIsComing
    <3> QED
      BY <2>1, <3>1 DEF InTime
  <2> QED
    BY <2>3, <2>4
<1>7. CASE bubble' = [bubble EXCEPT ![m.chat] = m.n] /\ answers' = Overtaken(answers)
  <2>1. Len(answers') = Len(answers) /\ \A i \in 1..Len(answers') : answers'[i].late
    BY <1>7, AllOvertaken
  <2>2. Agree(c)'
    BY <2>1 DEF Agree
  <2>3. (\E i \in 1..Len(answers) : answers[i].late \/ HasNewest(c, i)) => Coming(c)'
    BY <2>1 DEF Coming
  <2>4. ~Newest(c, 1) => (Coming(c) => Coming(c)')
    BY <1>2, <1>4, <1>5, <2>3 DEF Coming, Pushing, LookIsComing
  <2>5. CASE m.chat # c
    <3>1. ~Newest(c, 1) /\ (Shown(c) => Shown(c)')
      BY <1>2, <1>7, <2>5 DEF Newest, Shown, m
    <3> QED
      BY <2>2, <2>4, <3>1 DEF InTime
  <2>6. CASE m.chat = c /\ m.n = arrived[c]
    <3>1. Shown(c)'
      BY <1>2, <1>7, <2>6 DEF Shown
    <3> QED
      BY <2>2, <3>1 DEF InTime
  <2>7. CASE m.chat = c /\ m.n # arrived[c]
    <3>1. Pushing(c) \/ \E j \in 1..Len(down) : Newest(c, j)
      BY <1>1, <2>7 DEF NewestFollows, m
    <3>2. Coming(c) /\ ~Newest(c, 1)
      BY <2>7, <3>1 DEF Coming, Newest, m
    <3> QED
      BY <2>2, <2>4, <3>2 DEF InTime
  <2> QED
    BY <2>5, <2>6, <2>7
<1> QED
  BY <1>3, <1>6, <1>7

LEMMA InTimeStep ==
  ASSUME TypeOK, Reported, NobodyForgotten, [Next]_vars, NEW c \in Due'
  PROVE  InTime(c)'
<1>1. c \in Chats
  <2>1. unread' \subseteq unread \cup Chats /\ unread \subseteq Chats
    <3>1. ASSUME NEW d \in Chats, PutMessage(d) PROVE unread' \subseteq unread \cup Chats
      BY <3>1 DEF PutMessage
    <3> QED
      BY <3>1, OnlyMessages DEF TypeOK, StoreOK
  <2> QED
    BY <2>1 DEF Due
<1>2. c \notin missed' /\ c \notin seen'
  BY DEF Due
<1>3. ASSUME NEW d \in Chats, PutMessage(d)
      PROVE  InTime(c)'
  <2>1. c = d \/ c \in Due
    BY <1>2, <1>3 DEF Due, PutMessage
  <2> QED
    BY <1>1, <1>3, <2>1, PutMessageInTime DEF NobodyForgotten
<1>4. SUFFICES ASSUME \A d \in Chats : ~PutMessage(d) PROVE InTime(c)'
  BY <1>3
<1>5. c \in unread /\ c \notin missed /\ c \notin seen /\ InTime(c)
  BY <1>4, OnlyMessages DEF Due, NobodyForgotten
<1>6. MutedIsExcused /\ DownWhileOn /\ NewestFollows
  BY DEF NobodyForgotten
<1> USE DEF store, daemon, app, worker, pushService
<1>7. CASE PushMessage \/ SomebodyHome \/ NotifyPush \/ SummaryForNotification \/ ShowGeneric \/ HearMessage
  BY <1>1, <1>2, <1>5, <1>6, <1>7, PushMessageInTime, SomebodyHomeInTime, NotifyPushInTime, SummaryInTime,
     ShowGenericInTime, HearMessageInTime
<1>8. CASE EndpointExpires \/ \E e \in Endpoints : PostFails(e)
  <2>1. Excused /\ UNCHANGED <<arrived, handling, down, answers, bubble, vague>>
    BY <1>8, Zenon DEF EndpointExpires, PostFails
  <2> QED
    BY <1>1, <1>2, <1>5, <2>1, ExcusedInTime
<1>9. CASE LinkDies \/ AppEnds
  <2>1. missed' = Lost(down) /\ UNCHANGED <<arrived, handling, answers, bubble, vague, posts, mine>>
    BY <1>9, Zenon DEF LinkDies, AppEnds
  <2> QED
    BY <1>1, <1>2, <1>5, <2>1, LostInTime
<1>10. ASSUME NEW i \in 1..Len(answers), ShowSummary(i) PROVE InTime(c)'
  BY <1>1, <1>2, <1>5, <1>10, ShowSummaryInTime
<1>11. CASE Connect
  <2>1. down' = down
    BY <1>6, <1>11 DEF Connect, DownWhileOn
  <2> QED
    BY <1>1, <1>5, <1>11, <2>1, NothingTaken DEF Connect, LookIsComing
<1>12. ASSUME NEW e \in Endpoints, PostGone(e) PROVE InTime(c)'
  <2>1. LookIsComing => LookIsComing'
    BY <1>12 DEF PostGone, Takes, LookIsComing, TypeOK, DaemonOK, RestOK
  <2> QED
    BY <1>1, <1>5, <1>12, <2>1, NothingTaken DEF PostGone
<1>13. CASE PageLoads
  <2>1. LookIsComing => LookIsComing'
    BY <1>13 DEF PageLoads, LookIsComing
  <2> QED
    BY <1>1, <1>5, <1>13, <2>1, NothingTaken DEF PageLoads
<1>14. ASSUME \/ WorkerStops \/ Detach \/ Hide \/ Show \/ EnterListScreen \/ UNCHANGED vars
              \/ \E d \in Chats : WindowPasses(d) \/ OpenThread(d) \/ ReadElsewhere(d)
              \/ \E d \in Chats, on \in BOOLEAN : MuteElsewhere(d, on) \/ SetMute(d, on)
       PROVE  InTime(c)'
  <2>1. UNCHANGED <<arrived, handling, down, answers, bubble, vague, posts, mine>>
    BY <1>14, Zenon DEF WorkerStops, Detach, Hide, Show, EnterListScreen, WindowPasses, OpenThread,
         ReadElsewhere, MuteElsewhere, SetMute, vars
  <2> QED
    BY <1>1, <1>5, <2>1, NothingTaken DEF LookIsComing
<1> QED
  BY <1>4, <1>7, <1>8, <1>9, <1>10, <1>11, <1>12, <1>13, <1>14, Zenon DEF Next

LEMMA ForgottenStep ==
  ASSUME TypeOK, Reported, NobodyForgotten, [Next]_vars
  PROVE  NobodyForgotten'
BY LinkStep, MutedStep, FollowsStep, InTimeStep DEF NobodyForgotten

LEMMA ForgottenIsLeftOut == NobodyForgotten => NobodyIsLeftOut
<1> SUFFICES ASSUME NobodyForgotten, Settled, NEW c \in Chats \ missed, c \in unread
             PROVE  Told(c)
  BY DEF NobodyIsLeftOut
<1>1. CASE c \in seen
  BY <1>1 DEF Told
<1>2. CASE c \notin seen
  <2>1. Shown(c) \/ Coming(c)
    BY <1>2 DEF NobodyForgotten, Due, InTime
  <2>2. ~Coming(c)
    BY DEF Settled, Coming, Pushing
  <2> QED
    BY <2>1, <2>2 DEF Shown, Told
<1> QED
  BY <1>1, <1>2

-----------------------------------------------------------------------------
(* Theorems                                                                *)

LEMMA Invariance == Spec => []IInv
<1>1. Init => IInv
  BY InitIInv
<1>2. IInv /\ [Next]_vars => IInv'
  BY TypeStep, SpareStep, MuteStep, ForgottenStep DEF IInv
<1> QED
  BY <1>1, <1>2, PTL DEF Spec

\* Every reachable state of the daemon's doorbell, the worker and the app has
\* its type (client.go, push.go, sw.js, app.js).
THEOREM DeliveryTypeCorrect == Spec => []TypeOK
<1>1. IInv => TypeOK
  BY DEF IInv
<1> QED
  BY <1>1, Invariance, PTL

\* A chat's notification never reports a message that came while the account
\* had the chat muted, whether it was drawn from an answer to /notify-summary
\* (push.go:163) or by the app from a frame (app.js:3946).
THEOREM MuteIsKeptInvariant == Spec => []MuteIsKept
<1>1. IInv => MuteIsKept
  BY DEF IInv, MutesHold, Hushed, MuteIsKept
<1> QED
  BY <1>1, Invariance, PTL

\* Once nothing is on its way any more, there is a notification up to the newest
\* message of every unread chat that is not muted, or the user has seen it, or
\* a loss or the coalescing window excuses it, whatever handleMsg, notifyPush
\* (push.go:77), the worker (sw.js), the app and the user did in between.
THEOREM NobodyIsLeftOutInvariant == Spec => []NobodyIsLeftOut
<1>1. IInv => NobodyIsLeftOut
  BY ForgottenIsLeftOut DEF IInv
<1> QED
  BY <1>1, Invariance, PTL

=============================================================================
