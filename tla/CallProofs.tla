----------------------------- MODULE CallProofs -----------------------------
(***************************************************************************)
(* Theorems about CallManager, for every set of calls and phones, every    *)
(* bound, waiting calls or none and hangups at any time: its state is well *)
(* formed, endCall never closes a stop channel twice, and what an answer   *)
(* made is out of reach only once an answer has been taken over a session  *)
(* that stood; without a waiting call the manager is one line (CallLine).  *)
(***************************************************************************)
EXTENDS CallManager, TLAPS

\* An attempt is made by one handler and has not installed its pump yet.
AtFresh ==
  \A p \in Phones : Answering(p) =>
    at[p] \in 1..attempts /\ pumps[at[p]] = "none"
AtApart ==
  \A p, q \in Phones : Answering(p) /\ Answering(q) /\ p # q => at[p] # at[q]
LaterUnused == \A a \in Attempts : a > attempts => pumps[a] = "none"
Fresh == AtFresh /\ AtApart /\ LaterUnused

\* The attempt in the Manager's stop field has a pump that runs.
StopRuns == stop # 0 => pumps[stop] = "running"

IInv == TypeOK /\ Fresh /\ StopRuns /\ NoDoubleClose

USE CallSetAssumption, HandlerAssumption, BoundAssumption, SwitchAssumption

\* The initial state satisfies the invariant.
LEMMA InitIInv == Init => IInv
<1> SUFFICES ASSUME Init PROVE IInv
  OBVIOUS
<1> USE DEF Init, Handlers, Attempts, OrNil, CallOrNone, Nothing, Stages
<1>1. ManagerOK /\ MadeOK /\ JobsOK
  BY DEF ManagerOK, MadeOK, JobsOK
<1>2. PhoneOK
  <2>1. <<>> \in Seq([key : Keys, call : Calls]) /\ <<>> \in Seq(CallOrNone)
    OBVIOUS
  <2> QED
    BY <2>1 DEF PhoneOK
<1>3. Fresh /\ StopRuns /\ NoDoubleClose
  BY DEF Fresh, AtFresh, AtApart, LaterUnused, StopRuns, NoDoubleClose, Answering
<1> QED
  BY <1>1, <1>2, <1>3 DEF IInv, TypeOK

-----------------------------------------------------------------------------
\* The Manager's fields.
LEMMA ManagerStep == TypeOK /\ [Next]_vars => ManagerOK'
<1> SUFFICES ASSUME TypeOK, [Next]_vars PROVE ManagerOK'
  OBVIOUS
<1> USE DEF TypeOK, ManagerOK, JobsOK, Handlers, Attempts, OrNil, CallOrNone,
       manager, made, jobs, screens, Becomes
<1>1. ASSUME NEW c \in Calls, NotifyIncoming(c) PROVE ManagerOK'
  BY <1>1 DEF NotifyIncoming, Rings
<1>2. ASSUME NEW c \in Calls, StartTestCall(c) PROVE ManagerOK'
  BY <1>2 DEF StartTestCall, Rings
<1>3. ASSUME NEW c \in Calls, FarEndHangsUp(c) PROVE ManagerOK'
  BY <1>3 DEF FarEndHangsUp
<1>4. CASE CheckEnded
  BY <1>4 DEF CheckEnded
<1>5. CASE ReportEnded
  BY <1>5 DEF ReportEnded, Pushes
<1>6. ASSUME NEW p \in Phones, PressAnswer(p) PROVE ManagerOK'
  BY <1>6 DEF PressAnswer
<1>7. ASSUME NEW p \in Phones, PressEnd(p) PROVE ManagerOK'
  BY <1>7 DEF PressEnd
<1>8. ASSUME NEW p \in Phones, HearPush(p) PROVE ManagerOK'
  BY <1>8 DEF HearPush
<1>9. ASSUME NEW p \in Phones, TakeAnswer(p) PROVE ManagerOK'
  BY <1>9 DEF TakeAnswer, Takes
<1>10. ASSUME NEW p \in Phones, TakeEnd(p) PROVE ManagerOK'
  BY <1>10 DEF TakeEnd, Takes
<1>11. ASSUME NEW p \in Phones, IgnoreFrame(p) PROVE ManagerOK'
  BY <1>11 DEF IgnoreFrame
<1>12. ASSUME NEW p \in Phones, BackendAnswers(p) PROVE ManagerOK'
  BY <1>12 DEF BackendAnswers
<1>13. ASSUME NEW p \in Phones, BackendRefuses(p) PROVE ManagerOK'
  BY <1>13 DEF BackendRefuses
<1>14. ASSUME NEW p \in Phones, LegCannotBeBuilt(p) PROVE ManagerOK'
  BY <1>14 DEF LegCannotBeBuilt
<1>15. ASSUME NEW p \in Phones, BuildLeg(p) PROVE ManagerOK'
  BY <1>15 DEF BuildLeg
<1>16. ASSUME NEW p \in Phones, StartLeg(p) PROVE ManagerOK'
  BY <1>16 DEF StartLeg
<1>17. ASSUME NEW p \in Phones, LegCannotStart(p) PROVE ManagerOK'
  BY <1>17 DEF LegCannotStart, Closes
<1>18. ASSUME NEW p \in Phones, Join(p) PROVE ManagerOK'
  BY <1>18 DEF Join
<1>19. ASSUME NEW p \in Phones, GivesUp(p) PROVE ManagerOK'
  BY <1>19 DEF GivesUp, Pushes
<1>20. ASSUME NEW p \in Phones, BackendDeclines(p) PROVE ManagerOK'
  BY <1>20 DEF BackendDeclines
<1>21. ASSUME NEW h \in Handlers, PushOffer(h) PROVE ManagerOK'
  BY <1>21 DEF PushOffer, Pushes
<1>22. ASSUME NEW h \in Handlers, EndSwap(h) PROVE ManagerOK'
  BY <1>22 DEF EndSwap
<1>23. ASSUME NEW h \in Handlers, EndClose(h) PROVE ManagerOK'
  BY <1>23 DEF EndClose, Closed, Closes
<1>24. ASSUME NEW a \in Attempts, LegFails(a) PROVE ManagerOK'
  BY <1>24 DEF LegFails, Pushes
<1>25. ASSUME NEW a \in Attempts, ReportClosed(a) PROVE ManagerOK'
  BY <1>25 DEF ReportClosed, Pushes
<1>26. CASE UNCHANGED vars
  BY <1>26 DEF vars
<1> QED
  BY <1>1, <1>2, <1>3, <1>4, <1>5, <1>6, <1>7, <1>8, <1>9, <1>10, <1>11, <1>12, <1>13, <1>14,
     <1>15, <1>16, <1>17, <1>18, <1>19, <1>20, <1>21, <1>22, <1>23, <1>24, <1>25, <1>26
  DEF Next, AnswerStep, TakeFrame, EndStep

\* The attempt of an answer under way.
LEMMA FreshNow ==
  ASSUME IInv, NEW p \in Phones, Answering(p)
  PROVE  at[p] \in Attempts /\ pumps[at[p]] = "none"
  BY DEF IInv, TypeOK, MadeOK, Fresh, AtFresh, Attempts, OrNil

\* What the attempts made.
LEMMA MadeStep == IInv /\ TypeOK /\ [Next]_vars => MadeOK'
<1> SUFFICES ASSUME IInv, TypeOK, [Next]_vars PROVE MadeOK'
  OBVIOUS
<1> USE DEF TypeOK, ManagerOK, MadeOK, JobsOK, Attempts, OrNil, manager, made, jobs, screens, Becomes
<1>1. ASSUME NEW c \in Calls, NotifyIncoming(c) PROVE MadeOK'
  BY <1>1 DEF NotifyIncoming, Rings
<1>2. ASSUME NEW c \in Calls, StartTestCall(c) PROVE MadeOK'
  BY <1>2 DEF StartTestCall, Rings
<1>3. ASSUME NEW c \in Calls, FarEndHangsUp(c) PROVE MadeOK'
  BY <1>3 DEF FarEndHangsUp
<1>4. CASE CheckEnded
  BY <1>4 DEF CheckEnded
<1>5. CASE ReportEnded
  BY <1>5 DEF ReportEnded, Pushes
<1>6. ASSUME NEW p \in Phones, PressAnswer(p) PROVE MadeOK'
  BY <1>6 DEF PressAnswer
<1>7. ASSUME NEW p \in Phones, PressEnd(p) PROVE MadeOK'
  BY <1>7 DEF PressEnd
<1>8. ASSUME NEW p \in Phones, HearPush(p) PROVE MadeOK'
  BY <1>8 DEF HearPush
<1>9. ASSUME NEW p \in Phones, TakeAnswer(p) PROVE MadeOK'
  BY <1>9 DEF TakeAnswer, Takes
<1>10. ASSUME NEW p \in Phones, TakeEnd(p) PROVE MadeOK'
  BY <1>10 DEF TakeEnd, Takes
<1>11. ASSUME NEW p \in Phones, IgnoreFrame(p) PROVE MadeOK'
  BY <1>11 DEF IgnoreFrame
<1>12. ASSUME NEW p \in Phones, BackendAnswers(p) PROVE MadeOK'
  BY <1>12 DEF BackendAnswers
<1>13. ASSUME NEW p \in Phones, BackendRefuses(p) PROVE MadeOK'
  BY <1>13 DEF BackendRefuses
<1>14. ASSUME NEW p \in Phones, LegCannotBeBuilt(p) PROVE MadeOK'
  BY <1>14 DEF LegCannotBeBuilt
<1>15. ASSUME NEW p \in Phones, BuildLeg(p) PROVE MadeOK'
  BY <1>15 DEF BuildLeg
<1>16. ASSUME NEW p \in Phones, StartLeg(p) PROVE MadeOK'
  BY <1>16 DEF StartLeg
<1>17. ASSUME NEW p \in Phones, LegCannotStart(p) PROVE MadeOK'
  <2>1. at[p] \in Attempts /\ Closes(at[p]) /\ UNCHANGED <<attempts, callOf, pumps, srcs>>
    BY <1>17, FreshNow DEF LegCannotStart, Answering
  <2> QED
    BY <2>1 DEF Closes
<1>18. ASSUME NEW p \in Phones, Join(p) PROVE MadeOK'
  BY <1>18 DEF Join
<1>19. ASSUME NEW p \in Phones, GivesUp(p) PROVE MadeOK'
  BY <1>19 DEF GivesUp, Pushes
<1>20. ASSUME NEW p \in Phones, BackendDeclines(p) PROVE MadeOK'
  BY <1>20 DEF BackendDeclines
<1>21. ASSUME NEW h \in Handlers, PushOffer(h) PROVE MadeOK'
  BY <1>21 DEF PushOffer, Pushes
<1>22. ASSUME NEW h \in Handlers, EndSwap(h) PROVE MadeOK'
  BY <1>22 DEF EndSwap
<1>23. ASSUME NEW h \in Handlers, EndClose(h) PROVE MadeOK'
  <2>1. held[h] \in [leg : OrNil, stop : OrNil, source : OrNil]
    BY DEF Handlers
  <2>2. /\ pumps' = Closed(pumps, held[h].stop, "stopped")
        /\ srcs' = Closed(srcs, held[h].source, "closed")
        /\ UNCHANGED <<attempts, callOf>>
    BY <1>23 DEF EndClose
  <2>3. legs' \in [Attempts -> {"none", "open", "failed", "closed"}] /\ closing' \subseteq Attempts
    <3>1. CASE held[h].leg = 0
      BY <1>23, <3>1 DEF EndClose
    <3>2. CASE held[h].leg # 0
      <4>1. held[h].leg \in Attempts /\ Closes(held[h].leg)
        BY <1>23, <2>1, <3>2 DEF EndClose
      <4> QED
        BY <4>1 DEF Closes
    <3> QED
      BY <3>1, <3>2
  <2> QED
    BY <2>1, <2>2, <2>3 DEF Closed
<1>24. ASSUME NEW a \in Attempts, LegFails(a) PROVE MadeOK'
  BY <1>24 DEF LegFails, Pushes
<1>25. ASSUME NEW a \in Attempts, ReportClosed(a) PROVE MadeOK'
  BY <1>25 DEF ReportClosed, Pushes
<1>26. CASE UNCHANGED vars
  BY <1>26 DEF vars
<1> QED
  BY <1>1, <1>2, <1>3, <1>4, <1>5, <1>6, <1>7, <1>8, <1>9, <1>10, <1>11, <1>12, <1>13, <1>14,
     <1>15, <1>16, <1>17, <1>18, <1>19, <1>20, <1>21, <1>22, <1>23, <1>24, <1>25, <1>26
  DEF Next, AnswerStep, TakeFrame, EndStep

\* The handlers.
LEMMA JobsStep == TypeOK /\ [Next]_vars => JobsOK'
<1> SUFFICES ASSUME TypeOK, [Next]_vars PROVE JobsOK'
  OBVIOUS
<1> USE DEF TypeOK, ManagerOK, MadeOK, JobsOK, Handlers, Attempts, OrNil, CallOrNone,
       Nothing, Stages, manager, made, jobs, screens, Becomes
<1>1. ASSUME NEW c \in Calls, NotifyIncoming(c) PROVE JobsOK'
  BY <1>1 DEF NotifyIncoming, Rings
<1>2. ASSUME NEW c \in Calls, StartTestCall(c) PROVE JobsOK'
  BY <1>2 DEF StartTestCall, Rings
<1>3. ASSUME NEW c \in Calls, FarEndHangsUp(c) PROVE JobsOK'
  BY <1>3 DEF FarEndHangsUp
<1>4. CASE CheckEnded
  BY <1>4 DEF CheckEnded
<1>5. CASE ReportEnded
  BY <1>5 DEF ReportEnded, Pushes
<1>6. ASSUME NEW p \in Phones, PressAnswer(p) PROVE JobsOK'
  BY <1>6 DEF PressAnswer
<1>7. ASSUME NEW p \in Phones, PressEnd(p) PROVE JobsOK'
  BY <1>7 DEF PressEnd
<1>8. ASSUME NEW p \in Phones, HearPush(p) PROVE JobsOK'
  BY <1>8 DEF HearPush
<1>9. ASSUME NEW p \in Phones, TakeAnswer(p) PROVE JobsOK'
  <2>1. /\ attempts + 1 \in OrNil /\ active \in CallOrNone /\ p \in Handlers
        /\ on' = [on EXCEPT ![p] = active] /\ at' = [at EXCEPT ![p] = attempts + 1]
        /\ pc' = [pc EXCEPT ![p] = IF active \in TestCalls THEN "build" ELSE "backend"]
        /\ held' = held
    BY <1>9 DEF TakeAnswer
  <2> QED
    BY <2>1
<1>10. ASSUME NEW p \in Phones, TakeEnd(p) PROVE JobsOK'
  BY <1>10 DEF TakeEnd, Takes
<1>11. ASSUME NEW p \in Phones, IgnoreFrame(p) PROVE JobsOK'
  BY <1>11 DEF IgnoreFrame
<1>12. ASSUME NEW p \in Phones, BackendAnswers(p) PROVE JobsOK'
  BY <1>12 DEF BackendAnswers
<1>13. ASSUME NEW p \in Phones, BackendRefuses(p) PROVE JobsOK'
  BY <1>13 DEF BackendRefuses
<1>14. ASSUME NEW p \in Phones, LegCannotBeBuilt(p) PROVE JobsOK'
  BY <1>14 DEF LegCannotBeBuilt
<1>15. ASSUME NEW p \in Phones, BuildLeg(p) PROVE JobsOK'
  BY <1>15 DEF BuildLeg
<1>16. ASSUME NEW p \in Phones, StartLeg(p) PROVE JobsOK'
  BY <1>16 DEF StartLeg
<1>17. ASSUME NEW p \in Phones, LegCannotStart(p) PROVE JobsOK'
  BY <1>17 DEF LegCannotStart, Closes
<1>18. ASSUME NEW p \in Phones, Join(p) PROVE JobsOK'
  BY <1>18 DEF Join
<1>19. ASSUME NEW p \in Phones, GivesUp(p) PROVE JobsOK'
  BY <1>19 DEF GivesUp, Pushes
<1>20. ASSUME NEW p \in Phones, BackendDeclines(p) PROVE JobsOK'
  BY <1>20 DEF BackendDeclines
<1>21. ASSUME NEW h \in Handlers, PushOffer(h) PROVE JobsOK'
  BY <1>21 DEF PushOffer, Pushes
<1>22. ASSUME NEW h \in Handlers, EndSwap(h) PROVE JobsOK'
  BY <1>22 DEF EndSwap
<1>23. ASSUME NEW h \in Handlers, EndClose(h) PROVE JobsOK'
  BY <1>23 DEF EndClose, Closed, Closes
<1>24. ASSUME NEW a \in Attempts, LegFails(a) PROVE JobsOK'
  BY <1>24 DEF LegFails, Pushes
<1>25. ASSUME NEW a \in Attempts, ReportClosed(a) PROVE JobsOK'
  BY <1>25 DEF ReportClosed, Pushes
<1>26. CASE UNCHANGED vars
  BY <1>26 DEF vars
<1> QED
  BY <1>1, <1>2, <1>3, <1>4, <1>5, <1>6, <1>7, <1>8, <1>9, <1>10, <1>11, <1>12, <1>13, <1>14,
     <1>15, <1>16, <1>17, <1>18, <1>19, <1>20, <1>21, <1>22, <1>23, <1>24, <1>25, <1>26
  DEF Next, AnswerStep, TakeFrame, EndStep

\* A queue per phone stays one when something is put at its end or taken.
LEMMA FramesKept ==
  ASSUME NEW S, NEW f \in [Phones -> Seq(S)], NEW p \in Phones
  PROVE  /\ \A x \in S : [f EXCEPT ![p] = Append(@, x)] \in [Phones -> Seq(S)]
         /\ f[p] # <<>> => [f EXCEPT ![p] = Tail(@)] \in [Phones -> Seq(S)]
         /\ f[p] # <<>> => Head(f[p]) \in S
<1>1. f[p] \in Seq(S)
  OBVIOUS
<1>2. \A x \in S : Append(f[p], x) \in Seq(S)
  BY <1>1
<1>3. f[p] # <<>> => Tail(f[p]) \in Seq(S) /\ Head(f[p]) \in S
  BY <1>1
<1> QED
  BY <1>2, <1>3

LEMMA PushesKept ==
  ASSUME NEW S, NEW f \in [Phones -> Seq(S)], NEW x \in S
  PROVE  [p \in Phones |-> Append(f[p], x)] \in [Phones -> Seq(S)]
<1>1. ASSUME NEW p \in Phones PROVE Append(f[p], x) \in Seq(S)
  <2>1. f[p] \in Seq(S)
    OBVIOUS
  <2> QED
    BY <2>1
<1> QED
  BY <1>1

\* The screens and the frames under way.
LEMMA PhoneStep == TypeOK /\ [Next]_vars => PhoneOK'
<1> SUFFICES ASSUME TypeOK, [Next]_vars PROVE PhoneOK'
  OBVIOUS
<1> USE DEF TypeOK, JobsOK, PhoneOK, Handlers, CallOrNone, Keys, manager, made, jobs, screens, Becomes
<1>1. ASSUME NEW c \in Calls, NotifyIncoming(c) PROVE PhoneOK'
  BY <1>1 DEF NotifyIncoming, Rings
<1>2. ASSUME NEW c \in Calls, StartTestCall(c) PROVE PhoneOK'
  BY <1>2 DEF StartTestCall, Rings
<1>3. ASSUME NEW c \in Calls, FarEndHangsUp(c) PROVE PhoneOK'
  BY <1>3 DEF FarEndHangsUp
<1>4. CASE CheckEnded
  BY <1>4 DEF CheckEnded
<1>5. CASE ReportEnded
  <2>1. down' \in [Phones -> Seq(CallOrNone)]
    BY <1>5, PushesKept DEF ReportEnded, Pushes
  <2> QED
    BY <1>5, <2>1 DEF ReportEnded
<1>6. ASSUME NEW p \in Phones, PressAnswer(p) PROVE PhoneOK'
  <2>1. [key |-> "answer", call |-> view[p]] \in [key : Keys, call : Calls]
    BY <1>6 DEF PressAnswer, MaySend, Sends
  <2>2. wire' \in [Phones -> Seq([key : Keys, call : Calls])]
    BY <1>6, <2>1, FramesKept DEF PressAnswer, Sends
  <2> QED
    BY <1>6, <2>2 DEF PressAnswer
<1>7. ASSUME NEW p \in Phones, PressEnd(p) PROVE PhoneOK'
  <2>1. [key |-> IF inCall[p] THEN "hangup" ELSE "reject", call |-> view[p]] \in [key : Keys, call : Calls]
    BY <1>7 DEF PressEnd, MaySend, Sends
  <2>2. wire' \in [Phones -> Seq([key : Keys, call : Calls])]
    BY <1>7, <2>1, FramesKept DEF PressEnd, Sends
  <2> QED
    BY <1>7, <2>2 DEF PressEnd
<1>8. ASSUME NEW p \in Phones, HearPush(p) PROVE PhoneOK'
  <2>1. down' \in [Phones -> Seq(CallOrNone)] /\ Head(down[p]) \in CallOrNone
    BY <1>8, FramesKept DEF HearPush
  <2> QED
    BY <1>8, <2>1 DEF HearPush
<1>9. ASSUME NEW p \in Phones, TakeAnswer(p) PROVE PhoneOK'
  <2>1. wire' \in [Phones -> Seq([key : Keys, call : Calls])]
    BY <1>9, FramesKept DEF TakeAnswer, Takes
  <2> QED
    BY <1>9, <2>1 DEF TakeAnswer
<1>10. ASSUME NEW p \in Phones, TakeEnd(p) PROVE PhoneOK'
  <2>1. wire' \in [Phones -> Seq([key : Keys, call : Calls])]
    BY <1>10, FramesKept DEF TakeEnd, Takes
  <2> QED
    BY <1>10, <2>1 DEF TakeEnd
<1>11. ASSUME NEW p \in Phones, IgnoreFrame(p) PROVE PhoneOK'
  <2>1. wire' \in [Phones -> Seq([key : Keys, call : Calls])]
    BY <1>11, FramesKept DEF IgnoreFrame, Takes
  <2> QED
    BY <1>11, <2>1 DEF IgnoreFrame
<1>12. ASSUME NEW p \in Phones, BackendAnswers(p) PROVE PhoneOK'
  BY <1>12 DEF BackendAnswers
<1>13. ASSUME NEW p \in Phones, BackendRefuses(p) PROVE PhoneOK'
  BY <1>13 DEF BackendRefuses
<1>14. ASSUME NEW p \in Phones, LegCannotBeBuilt(p) PROVE PhoneOK'
  BY <1>14 DEF LegCannotBeBuilt
<1>15. ASSUME NEW p \in Phones, BuildLeg(p) PROVE PhoneOK'
  BY <1>15 DEF BuildLeg
<1>16. ASSUME NEW p \in Phones, StartLeg(p) PROVE PhoneOK'
  BY <1>16 DEF StartLeg
<1>17. ASSUME NEW p \in Phones, LegCannotStart(p) PROVE PhoneOK'
  BY <1>17 DEF LegCannotStart, Closes
<1>18. ASSUME NEW p \in Phones, Join(p) PROVE PhoneOK'
  BY <1>18 DEF Join
<1>19. ASSUME NEW p \in Phones, GivesUp(p) PROVE PhoneOK'
  <2>1. down' \in [Phones -> Seq(CallOrNone)]
    BY <1>19, PushesKept DEF GivesUp, Pushes
  <2> QED
    BY <1>19, <2>1 DEF GivesUp
<1>20. ASSUME NEW p \in Phones, BackendDeclines(p) PROVE PhoneOK'
  BY <1>20 DEF BackendDeclines
<1>21. ASSUME NEW h \in Handlers, PushOffer(h) PROVE PhoneOK'
  <2>1. on[h] \in CallOrNone
    OBVIOUS
  <2>2. down' \in [Phones -> Seq(CallOrNone)]
    BY <1>21, <2>1, PushesKept DEF PushOffer, Pushes
  <2> QED
    BY <1>21, <2>2 DEF PushOffer
<1>22. ASSUME NEW h \in Handlers, EndSwap(h) PROVE PhoneOK'
  BY <1>22 DEF EndSwap
<1>23. ASSUME NEW h \in Handlers, EndClose(h) PROVE PhoneOK'
  BY <1>23 DEF EndClose, Closed, Closes
<1>24. ASSUME NEW a \in Attempts, LegFails(a) PROVE PhoneOK'
  <2>1. down' \in [Phones -> Seq(CallOrNone)]
    BY <1>24, PushesKept DEF LegFails, Pushes
  <2> QED
    BY <1>24, <2>1 DEF LegFails
<1>25. ASSUME NEW a \in Attempts, ReportClosed(a) PROVE PhoneOK'
  <2>1. down' \in [Phones -> Seq(CallOrNone)]
    BY <1>25, PushesKept DEF ReportClosed, Pushes
  <2> QED
    BY <1>25, <2>1 DEF ReportClosed
<1>26. CASE UNCHANGED vars
  BY <1>26 DEF vars
<1> QED
  BY <1>1, <1>2, <1>3, <1>4, <1>5, <1>6, <1>7, <1>8, <1>9, <1>10, <1>11, <1>12, <1>13, <1>14,
     <1>15, <1>16, <1>17, <1>18, <1>19, <1>20, <1>21, <1>22, <1>23, <1>24, <1>25, <1>26
  DEF Next, AnswerStep, TakeFrame, EndStep

-----------------------------------------------------------------------------
\* What a handler is about to close did run.
StopsRun == \A h \in Handlers : held[h].stop # 0 => pumps[held[h].stop] = "running"

\* An attempt begins with the next number, and only its own handler uses it
\* up; a pump that is closed is one that ran.
LEMMA FreshStep == IInv /\ [Next]_vars => Fresh'
<1> SUFFICES ASSUME IInv, [Next]_vars PROVE Fresh'
  OBVIOUS
<1>a. /\ pc \in [Handlers -> Stages] /\ at \in [Handlers -> OrNil]
      /\ pumps \in [Attempts -> {"none", "running", "stopped"}] /\ attempts \in OrNil
      /\ \A p \in Phones : Answering(p) => at[p] \in 1..attempts /\ pumps[at[p]] = "none"
      /\ \A p, q \in Phones : Answering(p) /\ Answering(q) /\ p # q => at[p] # at[q]
      /\ \A a \in Attempts : a > attempts => pumps[a] = "none"
      /\ StopsRun
  BY DEF IInv, TypeOK, ManagerOK, MadeOK, JobsOK, Fresh, AtFresh, AtApart,
         LaterUnused, NoDoubleClose, StopsRun
<1> USE DEF Handlers, Attempts, OrNil, manager, made, jobs, screens, Becomes, Fresh,
       AtFresh, AtApart, LaterUnused, Answering, StopsRun
<1>1. ASSUME NEW c \in Calls, NotifyIncoming(c) PROVE Fresh'
  BY <1>1, <1>a DEF NotifyIncoming, Rings
<1>2. ASSUME NEW c \in Calls, StartTestCall(c) PROVE Fresh'
  BY <1>2, <1>a DEF StartTestCall, Rings
<1>3. ASSUME NEW c \in Calls, FarEndHangsUp(c) PROVE Fresh'
  BY <1>3, <1>a DEF FarEndHangsUp
<1>4. CASE CheckEnded
  BY <1>4, <1>a DEF CheckEnded
<1>5. CASE ReportEnded
  BY <1>5, <1>a DEF ReportEnded, Pushes
<1>6. ASSUME NEW p \in Phones, PressAnswer(p) PROVE Fresh'
  BY <1>6, <1>a DEF PressAnswer
<1>7. ASSUME NEW p \in Phones, PressEnd(p) PROVE Fresh'
  BY <1>7, <1>a DEF PressEnd
<1>8. ASSUME NEW p \in Phones, HearPush(p) PROVE Fresh'
  BY <1>8, <1>a DEF HearPush
<1>9. ASSUME NEW p \in Phones, TakeAnswer(p) PROVE Fresh'
  <2>1. /\ attempts' = attempts + 1 /\ at'[p] = attempts + 1 /\ attempts + 1 \in Attempts
        /\ \A q \in Phones \ {p} : pc'[q] = pc[q] /\ at'[q] = at[q]
        /\ pumps' = pumps
    BY <1>9, <1>a DEF TakeAnswer
  <2>2. AtFresh'
    BY <1>a, <2>1
  <2>3. AtApart'
    BY <1>a, <2>1
  <2>4. LaterUnused'
    BY <1>a, <2>1
  <2> QED
    BY <2>2, <2>3, <2>4
<1>10. ASSUME NEW p \in Phones, TakeEnd(p) PROVE Fresh'
  BY <1>10, <1>a DEF TakeEnd, Takes
<1>11. ASSUME NEW p \in Phones, IgnoreFrame(p) PROVE Fresh'
  BY <1>11, <1>a DEF IgnoreFrame
<1>12. ASSUME NEW p \in Phones, BackendAnswers(p) PROVE Fresh'
  BY <1>12, <1>a DEF BackendAnswers
<1>13. ASSUME NEW p \in Phones, BackendRefuses(p) PROVE Fresh'
  BY <1>13, <1>a DEF BackendRefuses
<1>14. ASSUME NEW p \in Phones, LegCannotBeBuilt(p) PROVE Fresh'
  BY <1>14, <1>a DEF LegCannotBeBuilt
<1>15. ASSUME NEW p \in Phones, BuildLeg(p) PROVE Fresh'
  BY <1>15, <1>a DEF BuildLeg
<1>16. ASSUME NEW p \in Phones, StartLeg(p) PROVE Fresh'
  BY <1>16, <1>a DEF StartLeg
<1>17. ASSUME NEW p \in Phones, LegCannotStart(p) PROVE Fresh'
  BY <1>17, <1>a DEF LegCannotStart, Closes
<1>18. ASSUME NEW p \in Phones, Join(p) PROVE Fresh'
  <2>1. /\ Answering(p) /\ ~Answering(p)'
        /\ \A q \in Phones \ {p} : pc'[q] = pc[q]
        /\ pumps' = [pumps EXCEPT ![at[p]] = "running"]
        /\ UNCHANGED <<at, attempts>>
    BY <1>18, <1>a DEF Join
  <2>2. at[p] \in Attempts /\ at[p] <= attempts
    BY <1>a, <2>1
  <2>3. AtFresh'
    BY <1>a, <2>1, <2>2
  <2>4. AtApart'
    BY <1>a, <2>1
  <2>5. LaterUnused'
    BY <1>a, <2>1, <2>2
  <2> QED
    BY <2>3, <2>4, <2>5
<1>19. ASSUME NEW p \in Phones, GivesUp(p) PROVE Fresh'
  BY <1>19, <1>a DEF GivesUp, Pushes
<1>20. ASSUME NEW p \in Phones, BackendDeclines(p) PROVE Fresh'
  BY <1>20, <1>a DEF BackendDeclines
<1>21. ASSUME NEW h \in Handlers, PushOffer(h) PROVE Fresh'
  BY <1>21, <1>a DEF PushOffer, Pushes
<1>22. ASSUME NEW h \in Handlers, EndSwap(h) PROVE Fresh'
  BY <1>22, <1>a DEF EndSwap
<1>23. ASSUME NEW h \in Handlers, EndClose(h) PROVE Fresh'
  <2>1. /\ \A q \in Phones : Answering(q)' => Answering(q)
        /\ UNCHANGED <<at, attempts>>
    BY <1>23, <1>a DEF EndClose
  <2>2. \A a \in Attempts : pumps[a] = "none" => pumps'[a] = "none"
    BY <1>23, <1>a DEF EndClose, Closed
  <2> QED
    BY <1>a, <2>1, <2>2
<1>24. ASSUME NEW a \in Attempts, LegFails(a) PROVE Fresh'
  BY <1>24, <1>a DEF LegFails, Pushes
<1>25. ASSUME NEW a \in Attempts, ReportClosed(a) PROVE Fresh'
  BY <1>25, <1>a DEF ReportClosed, Pushes
<1>26. CASE UNCHANGED vars
  BY <1>26, <1>a DEF vars
<1> QED
  BY <1>1, <1>2, <1>3, <1>4, <1>5, <1>6, <1>7, <1>8, <1>9, <1>10, <1>11, <1>12, <1>13, <1>14,
     <1>15, <1>16, <1>17, <1>18, <1>19, <1>20, <1>21, <1>22, <1>23, <1>24, <1>25, <1>26
  DEF Next, AnswerStep, TakeFrame, EndStep

\* The channel in the Manager and those the handlers hold are open and are
\* different channels.
LEMMA StopStep == IInv /\ [Next]_vars => (StopRuns /\ NoDoubleClose)'
<1> SUFFICES ASSUME IInv, [Next]_vars PROVE (StopRuns /\ NoDoubleClose)'
  OBVIOUS
<1>a. /\ pc \in [Handlers -> Stages]
      /\ held \in [Handlers -> [leg : OrNil, stop : OrNil, source : OrNil]]
      /\ pumps \in [Attempts -> {"none", "running", "stopped"}] /\ stop \in OrNil
      /\ StopRuns /\ NoDoubleClose
  BY DEF IInv, TypeOK, ManagerOK, MadeOK, JobsOK
<1> USE DEF Handlers, Attempts, OrNil, manager, made, jobs, screens, Becomes, StopRuns,
       NoDoubleClose
<1>1. ASSUME NEW c \in Calls, NotifyIncoming(c) PROVE (StopRuns /\ NoDoubleClose)'
  BY <1>1, <1>a DEF NotifyIncoming, Rings
<1>2. ASSUME NEW c \in Calls, StartTestCall(c) PROVE (StopRuns /\ NoDoubleClose)'
  BY <1>2, <1>a DEF StartTestCall, Rings
<1>3. ASSUME NEW c \in Calls, FarEndHangsUp(c) PROVE (StopRuns /\ NoDoubleClose)'
  BY <1>3, <1>a DEF FarEndHangsUp
<1>4. CASE CheckEnded
  BY <1>4, <1>a DEF CheckEnded
<1>5. CASE ReportEnded
  BY <1>5, <1>a DEF ReportEnded, Pushes
<1>6. ASSUME NEW p \in Phones, PressAnswer(p) PROVE (StopRuns /\ NoDoubleClose)'
  BY <1>6, <1>a DEF PressAnswer
<1>7. ASSUME NEW p \in Phones, PressEnd(p) PROVE (StopRuns /\ NoDoubleClose)'
  BY <1>7, <1>a DEF PressEnd
<1>8. ASSUME NEW p \in Phones, HearPush(p) PROVE (StopRuns /\ NoDoubleClose)'
  BY <1>8, <1>a DEF HearPush
<1>9. ASSUME NEW p \in Phones, TakeAnswer(p) PROVE (StopRuns /\ NoDoubleClose)'
  BY <1>9, <1>a DEF TakeAnswer, Takes
<1>10. ASSUME NEW p \in Phones, TakeEnd(p) PROVE (StopRuns /\ NoDoubleClose)'
  BY <1>10, <1>a DEF TakeEnd, Takes
<1>11. ASSUME NEW p \in Phones, IgnoreFrame(p) PROVE (StopRuns /\ NoDoubleClose)'
  BY <1>11, <1>a DEF IgnoreFrame
<1>12. ASSUME NEW p \in Phones, BackendAnswers(p) PROVE (StopRuns /\ NoDoubleClose)'
  BY <1>12, <1>a DEF BackendAnswers
<1>13. ASSUME NEW p \in Phones, BackendRefuses(p) PROVE (StopRuns /\ NoDoubleClose)'
  BY <1>13, <1>a DEF BackendRefuses
<1>14. ASSUME NEW p \in Phones, LegCannotBeBuilt(p) PROVE (StopRuns /\ NoDoubleClose)'
  BY <1>14, <1>a DEF LegCannotBeBuilt
<1>15. ASSUME NEW p \in Phones, BuildLeg(p) PROVE (StopRuns /\ NoDoubleClose)'
  BY <1>15, <1>a DEF BuildLeg
<1>16. ASSUME NEW p \in Phones, StartLeg(p) PROVE (StopRuns /\ NoDoubleClose)'
  BY <1>16, <1>a DEF StartLeg
<1>17. ASSUME NEW p \in Phones, LegCannotStart(p) PROVE (StopRuns /\ NoDoubleClose)'
  BY <1>17, <1>a DEF LegCannotStart, Closes
<1>18. ASSUME NEW p \in Phones, Join(p) PROVE (StopRuns /\ NoDoubleClose)'
  <2>1. /\ Answering(p) /\ stop' = at[p] /\ held' = held
        /\ pumps' = [pumps EXCEPT ![at[p]] = "running"]
    BY <1>18 DEF Join, Answering
  <2>2. at[p] \in Attempts /\ pumps[at[p]] = "none"
    BY <2>1, FreshNow
  <2> QED
    BY <1>a, <2>1, <2>2
<1>19. ASSUME NEW p \in Phones, GivesUp(p) PROVE (StopRuns /\ NoDoubleClose)'
  BY <1>19, <1>a DEF GivesUp, Pushes
<1>20. ASSUME NEW p \in Phones, BackendDeclines(p) PROVE (StopRuns /\ NoDoubleClose)'
  BY <1>20, <1>a DEF BackendDeclines
<1>21. ASSUME NEW h \in Handlers, PushOffer(h) PROVE (StopRuns /\ NoDoubleClose)'
  BY <1>21, <1>a DEF PushOffer, Pushes
<1>22. ASSUME NEW h \in Handlers, EndSwap(h) PROVE (StopRuns /\ NoDoubleClose)'
  <2>1. /\ stop' = 0 /\ pumps' = pumps
        /\ held'[h].stop = stop
        /\ \A g \in Handlers \ {h} : held'[g] = held[g]
    BY <1>22, <1>a DEF EndSwap
  <2>2. ASSUME NEW g \in Handlers, held'[g].stop # 0
        PROVE  /\ pumps'[held'[g].stop] = "running"
               /\ held'[g].stop # stop'
               /\ \A f \in Handlers \ {g} : held'[f].stop # held'[g].stop
    <3>1. CASE g = h
      BY <1>a, <2>1, <2>2, <3>1
    <3>2. CASE g # h
      <4>1. held'[g] = held[g] /\ held[g].stop # 0
        BY <2>1, <2>2, <3>2
      <4>2. /\ pumps[held[g].stop] = "running" /\ held[g].stop # stop
            /\ \A f \in Handlers \ {g} : held[f].stop # held[g].stop
        BY <1>a, <4>1
      <4>3. ASSUME NEW f \in Handlers \ {g} PROVE held'[f].stop # held'[g].stop
        <5>1. CASE f = h
          BY <2>1, <4>1, <4>2, <5>1
        <5>2. CASE f # h
          BY <2>1, <4>1, <4>2, <5>2
        <5> QED
          BY <5>1, <5>2
      <4> QED
        BY <2>1, <4>1, <4>2, <4>3
    <3> QED
      BY <3>1, <3>2
  <2> QED
    BY <2>1, <2>2
<1>23. ASSUME NEW h \in Handlers, EndClose(h) PROVE (StopRuns /\ NoDoubleClose)'
  <2>1. /\ stop' = stop /\ held'[h].stop = 0
        /\ \A g \in Handlers \ {h} : held'[g] = held[g]
    BY <1>23, <1>a DEF EndClose, Nothing
  <2>2. \A a \in Attempts : a # held[h].stop => pumps'[a] = pumps[a]
    BY <1>23, <1>a DEF EndClose, Closed
  <2>3. StopRuns'
    <3>1. stop # 0 => stop # held[h].stop /\ stop \in Attempts
      BY <1>a
    <3> QED
      BY <1>a, <2>1, <2>2, <3>1
  <2>4. ASSUME NEW g \in Handlers, held'[g].stop # 0
        PROVE  /\ pumps'[held'[g].stop] = "running"
               /\ held'[g].stop # stop'
               /\ \A f \in Handlers \ {g} : held'[f].stop # held'[g].stop
    <3>1. g # h /\ held'[g] = held[g] /\ held[g].stop \in Attempts
      BY <1>a, <2>1, <2>4
    <3>2. held[g].stop # held[h].stop
      BY <1>a, <3>1, <2>4
    <3>3. pumps'[held'[g].stop] = "running"
      <4>1. held[g].stop # 0 /\ pumps[held[g].stop] = "running"
        BY <1>a, <3>1, <2>4
      <4> QED
        BY <2>2, <3>1, <3>2, <4>1
    <3>4. held'[g].stop # stop'
      BY <1>a, <2>1, <2>4, <3>1
    <3>5. ASSUME NEW f \in Handlers \ {g} PROVE held'[f].stop # held'[g].stop
      <4>1. CASE f = h
        BY <2>1, <2>4, <4>1
      <4>2. CASE f # h
        <5>1. held'[f] = held[f]
          BY <2>1, <4>2
        <5> QED
          BY <1>a, <2>4, <3>1, <5>1
      <4> QED
        BY <4>1, <4>2
    <3> QED
      BY <3>3, <3>4, <3>5
  <2> QED
    BY <2>3, <2>4
<1>24. ASSUME NEW a \in Attempts, LegFails(a) PROVE (StopRuns /\ NoDoubleClose)'
  BY <1>24, <1>a DEF LegFails, Pushes
<1>25. ASSUME NEW a \in Attempts, ReportClosed(a) PROVE (StopRuns /\ NoDoubleClose)'
  BY <1>25, <1>a DEF ReportClosed, Pushes
<1>26. CASE UNCHANGED vars
  BY <1>26, <1>a DEF vars
<1> QED
  BY <1>1, <1>2, <1>3, <1>4, <1>5, <1>6, <1>7, <1>8, <1>9, <1>10, <1>11, <1>12, <1>13, <1>14,
     <1>15, <1>16, <1>17, <1>18, <1>19, <1>20, <1>21, <1>22, <1>23, <1>24, <1>25, <1>26
  DEF Next, AnswerStep, TakeFrame, EndStep

-----------------------------------------------------------------------------
LEMMA StepIInv == IInv /\ [Next]_vars => IInv'
  BY ManagerStep, MadeStep, JobsStep, PhoneStep,
     FreshStep, StopStep DEF IInv, TypeOK

\* The inductive invariant holds of every reachable state.
THEOREM Invariance == Spec => []IInv
  BY InitIInv, StepIInv, PTL DEF Spec

\* Whatever races, the Manager, the handlers and the phones keep states of the
\* kinds the code has (TypeOK of the runs).
THEOREM CallTypeCorrect == Spec => []TypeOK
  BY Invariance, PTL DEF IInv

\* endCall closes only channels that are open, and no two handlers hold the
\* same one: the daemon does not panic on a second close (calls.go:345-357).
THEOREM NoDoubleCloseInvariant == Spec => []NoDoubleClose
  BY Invariance, PTL DEF IInv

-----------------------------------------------------------------------------
(* Nothing is leaked but by a second answer                                *)

\* A handler holds what it took from the Manager until it has closed it.
HeldToClose == \A h \in Handlers : pc[h] # "close" => held[h] = Nothing

\* Nothing of an attempt that has not begun.
LaterUnmade ==
  /\ \A a \in Attempts : a > attempts => legs[a] = "none" /\ srcs[a] = "none"
  /\ leg <= attempts /\ source <= attempts
  /\ \A h \in Handlers : held[h].leg <= attempts /\ held[h].source <= attempts

\* As long as every answer found the line without a session, one is made at a
\* time, and the Manager holds nothing but the leg of that one: what the answer
\* is going to overwrite is empty, or its own.
OneAnswer ==
  ~replaced =>
    /\ \A p, q \in Phones : Answering(p) /\ Answering(q) => p = q
    /\ \A p \in Phones : Answering(p) =>
         /\ stop = 0 /\ source = 0
         /\ leg \in IF pc[p] \in {"start", "join"} THEN {0, at[p]} ELSE {0}
         /\ on[p] \in TestCalls \/ pc[p] = "backend" => srcs[at[p]] # "open"
         /\ pc[p] \in {"backend", "build", "giveup"} => legs[at[p]] \in {"none", "closed"}
         /\ pc[p] = "backend" => on[p] \notin TestCalls

\* endCall, second half, lets go of everything.
LEMMA HeldToCloseStep == TypeOK /\ HeldToClose /\ [Next]_vars => HeldToClose'
<1> SUFFICES ASSUME TypeOK, HeldToClose, [Next]_vars PROVE HeldToClose'
  OBVIOUS
<1>a. pc \in [Handlers -> Stages] /\ held \in [Handlers -> [leg : OrNil, stop : OrNil, source : OrNil]]
      /\ HeldToClose
  BY DEF TypeOK, JobsOK
<1> USE DEF Handlers, Attempts, OrNil, manager, made, jobs, screens, Becomes, HeldToClose, Nothing
<1>1. ASSUME NEW c \in Calls, NotifyIncoming(c) PROVE HeldToClose'
  BY <1>1, <1>a DEF NotifyIncoming, Rings
<1>2. ASSUME NEW c \in Calls, StartTestCall(c) PROVE HeldToClose'
  BY <1>2, <1>a DEF StartTestCall, Rings
<1>3. ASSUME NEW c \in Calls, FarEndHangsUp(c) PROVE HeldToClose'
  BY <1>3, <1>a DEF FarEndHangsUp
<1>4. CASE CheckEnded
  BY <1>4, <1>a DEF CheckEnded
<1>5. CASE ReportEnded
  BY <1>5, <1>a DEF ReportEnded, Pushes
<1>6. ASSUME NEW p \in Phones, PressAnswer(p) PROVE HeldToClose'
  BY <1>6, <1>a DEF PressAnswer
<1>7. ASSUME NEW p \in Phones, PressEnd(p) PROVE HeldToClose'
  BY <1>7, <1>a DEF PressEnd
<1>8. ASSUME NEW p \in Phones, HearPush(p) PROVE HeldToClose'
  BY <1>8, <1>a DEF HearPush
<1>9. ASSUME NEW p \in Phones, TakeAnswer(p) PROVE HeldToClose'
  BY <1>9, <1>a DEF TakeAnswer, Takes
<1>10. ASSUME NEW p \in Phones, TakeEnd(p) PROVE HeldToClose'
  BY <1>10, <1>a DEF TakeEnd, Takes
<1>11. ASSUME NEW p \in Phones, IgnoreFrame(p) PROVE HeldToClose'
  BY <1>11, <1>a DEF IgnoreFrame
<1>12. ASSUME NEW p \in Phones, BackendAnswers(p) PROVE HeldToClose'
  BY <1>12, <1>a DEF BackendAnswers
<1>13. ASSUME NEW p \in Phones, BackendRefuses(p) PROVE HeldToClose'
  BY <1>13, <1>a DEF BackendRefuses
<1>14. ASSUME NEW p \in Phones, LegCannotBeBuilt(p) PROVE HeldToClose'
  BY <1>14, <1>a DEF LegCannotBeBuilt
<1>15. ASSUME NEW p \in Phones, BuildLeg(p) PROVE HeldToClose'
  BY <1>15, <1>a DEF BuildLeg
<1>16. ASSUME NEW p \in Phones, StartLeg(p) PROVE HeldToClose'
  BY <1>16, <1>a DEF StartLeg
<1>17. ASSUME NEW p \in Phones, LegCannotStart(p) PROVE HeldToClose'
  BY <1>17, <1>a DEF LegCannotStart, Closes
<1>18. ASSUME NEW p \in Phones, Join(p) PROVE HeldToClose'
  BY <1>18, <1>a DEF Join
<1>19. ASSUME NEW p \in Phones, GivesUp(p) PROVE HeldToClose'
  BY <1>19, <1>a DEF GivesUp, Pushes
<1>20. ASSUME NEW p \in Phones, BackendDeclines(p) PROVE HeldToClose'
  BY <1>20, <1>a DEF BackendDeclines
<1>21. ASSUME NEW h \in Handlers, PushOffer(h) PROVE HeldToClose'
  BY <1>21, <1>a DEF PushOffer, Pushes
<1>22. ASSUME NEW h \in Handlers, EndSwap(h) PROVE HeldToClose'
  BY <1>22, <1>a DEF EndSwap
<1>23. ASSUME NEW h \in Handlers, EndClose(h) PROVE HeldToClose'
  BY <1>23, <1>a DEF EndClose, Closed, Closes
<1>24. ASSUME NEW a \in Attempts, LegFails(a) PROVE HeldToClose'
  BY <1>24, <1>a DEF LegFails, Pushes
<1>25. ASSUME NEW a \in Attempts, ReportClosed(a) PROVE HeldToClose'
  BY <1>25, <1>a DEF ReportClosed, Pushes
<1>26. CASE UNCHANGED vars
  BY <1>26, <1>a DEF vars
<1> QED
  BY <1>1, <1>2, <1>3, <1>4, <1>5, <1>6, <1>7, <1>8, <1>9, <1>10, <1>11, <1>12, <1>13, <1>14,
     <1>15, <1>16, <1>17, <1>18, <1>19, <1>20, <1>21, <1>22, <1>23, <1>24, <1>25, <1>26
  DEF Next, AnswerStep, TakeFrame, EndStep

\* An attempt makes nothing before its number has been given out.
LEMMA LaterUnmadeStep == IInv /\ LaterUnmade /\ [Next]_vars => LaterUnmade'
<1> SUFFICES ASSUME IInv, LaterUnmade, [Next]_vars PROVE LaterUnmade'
  OBVIOUS
<1>a. /\ legs \in [Attempts -> {"none", "open", "failed", "closed"}]
      /\ srcs \in [Attempts -> {"none", "open", "closed"}]
      /\ attempts \in OrNil /\ leg \in OrNil /\ source \in OrNil
      /\ held \in [Handlers -> [leg : OrNil, stop : OrNil, source : OrNil]]
      /\ pc \in [Handlers -> Stages] /\ LaterUnmade /\ AtFresh
  BY DEF IInv, TypeOK, MadeOK, ManagerOK, JobsOK, Fresh
<1> USE DEF Handlers, Attempts, OrNil, manager, made, jobs, screens, Becomes, LaterUnmade,
       AtFresh, Answering, Nothing
<1>1. ASSUME NEW c \in Calls, NotifyIncoming(c) PROVE LaterUnmade'
  BY <1>1, <1>a DEF NotifyIncoming, Rings
<1>2. ASSUME NEW c \in Calls, StartTestCall(c) PROVE LaterUnmade'
  BY <1>2, <1>a DEF StartTestCall, Rings
<1>3. ASSUME NEW c \in Calls, FarEndHangsUp(c) PROVE LaterUnmade'
  BY <1>3, <1>a DEF FarEndHangsUp
<1>4. CASE CheckEnded
  BY <1>4, <1>a DEF CheckEnded
<1>5. CASE ReportEnded
  BY <1>5, <1>a DEF ReportEnded, Pushes
<1>6. ASSUME NEW p \in Phones, PressAnswer(p) PROVE LaterUnmade'
  BY <1>6, <1>a DEF PressAnswer
<1>7. ASSUME NEW p \in Phones, PressEnd(p) PROVE LaterUnmade'
  BY <1>7, <1>a DEF PressEnd
<1>8. ASSUME NEW p \in Phones, HearPush(p) PROVE LaterUnmade'
  BY <1>8, <1>a DEF HearPush
<1>9. ASSUME NEW p \in Phones, TakeAnswer(p) PROVE LaterUnmade'
  BY <1>9, <1>a DEF TakeAnswer, Takes
<1>10. ASSUME NEW p \in Phones, TakeEnd(p) PROVE LaterUnmade'
  BY <1>10, <1>a DEF TakeEnd, Takes
<1>11. ASSUME NEW p \in Phones, IgnoreFrame(p) PROVE LaterUnmade'
  BY <1>11, <1>a DEF IgnoreFrame
<1>12. ASSUME NEW p \in Phones, BackendAnswers(p) PROVE LaterUnmade'
  BY <1>12, <1>a DEF BackendAnswers
<1>13. ASSUME NEW p \in Phones, BackendRefuses(p) PROVE LaterUnmade'
  BY <1>13, <1>a DEF BackendRefuses
<1>14. ASSUME NEW p \in Phones, LegCannotBeBuilt(p) PROVE LaterUnmade'
  BY <1>14, <1>a DEF LegCannotBeBuilt
<1>15. ASSUME NEW p \in Phones, BuildLeg(p) PROVE LaterUnmade'
  BY <1>15, <1>a DEF BuildLeg
<1>16. ASSUME NEW p \in Phones, StartLeg(p) PROVE LaterUnmade'
  BY <1>16, <1>a DEF StartLeg
<1>17. ASSUME NEW p \in Phones, LegCannotStart(p) PROVE LaterUnmade'
  BY <1>17, <1>a DEF LegCannotStart, Closes
<1>18. ASSUME NEW p \in Phones, Join(p) PROVE LaterUnmade'
  BY <1>18, <1>a DEF Join
<1>19. ASSUME NEW p \in Phones, GivesUp(p) PROVE LaterUnmade'
  BY <1>19, <1>a DEF GivesUp, Pushes
<1>20. ASSUME NEW p \in Phones, BackendDeclines(p) PROVE LaterUnmade'
  BY <1>20, <1>a DEF BackendDeclines
<1>21. ASSUME NEW h \in Handlers, PushOffer(h) PROVE LaterUnmade'
  BY <1>21, <1>a DEF PushOffer, Pushes
<1>22. ASSUME NEW h \in Handlers, EndSwap(h) PROVE LaterUnmade'
  BY <1>22, <1>a DEF EndSwap
<1>23. ASSUME NEW h \in Handlers, EndClose(h) PROVE LaterUnmade'
  BY <1>23, <1>a DEF EndClose, Closed, Closes
<1>24. ASSUME NEW a \in Attempts, LegFails(a) PROVE LaterUnmade'
  BY <1>24, <1>a DEF LegFails, Pushes
<1>25. ASSUME NEW a \in Attempts, ReportClosed(a) PROVE LaterUnmade'
  BY <1>25, <1>a DEF ReportClosed, Pushes
<1>26. CASE UNCHANGED vars
  BY <1>26, <1>a DEF vars
<1> QED
  BY <1>1, <1>2, <1>3, <1>4, <1>5, <1>6, <1>7, <1>8, <1>9, <1>10, <1>11, <1>12, <1>13, <1>14,
     <1>15, <1>16, <1>17, <1>18, <1>19, <1>20, <1>21, <1>22, <1>23, <1>24, <1>25, <1>26
  DEF Next, AnswerStep, TakeFrame, EndStep

\* What the other parts of the invariant rest on.
Around == HeldToClose /\ LaterUnmade /\ OneAnswer

\* The second half of endCall closes the leg it took, if it took one.
LEMMA LegTaken ==
  ASSUME NEW h \in Handlers, EndClose(h)
  PROVE  legs' = Closed(legs, held[h].leg, "closed")
  BY DEF EndClose, Closes, Closed

\* A step that begins no answer, makes nothing and puts nothing into the Manager.
LEMMA OneAnswerKept ==
  ASSUME IInv, OneAnswer,
         \A q \in Phones : Answering(q)' =>
           Answering(q) /\ pc'[q] = pc[q] /\ at'[q] = at[q] /\ on'[q] = on[q],
         stop' \in {stop, 0}, source' \in {source, 0}, leg' \in {leg, 0}, replaced' = replaced,
         \A a \in Attempts :
           /\ (srcs[a] # "open" => srcs'[a] # "open")
           /\ (legs[a] \in {"none", "closed"} => legs'[a] \in {"none", "closed"})
  PROVE  OneAnswer'
<1> SUFFICES ASSUME ~replaced, NEW q \in Phones, Answering(q)'
             PROVE  /\ \A p \in Phones : Answering(p)' => p = q
                    /\ stop' = 0 /\ source' = 0
                    /\ leg' \in IF pc'[q] \in {"start", "join"} THEN {0, at'[q]} ELSE {0}
                    /\ on'[q] \in TestCalls \/ pc'[q] = "backend" => srcs'[at'[q]] # "open"
                    /\ pc'[q] \in {"backend", "build", "giveup"} => legs'[at'[q]] \in {"none", "closed"}
                    /\ pc'[q] = "backend" => on'[q] \notin TestCalls
  BY DEF OneAnswer
<1>1. Answering(q) /\ pc'[q] = pc[q] /\ at'[q] = at[q] /\ on'[q] = on[q] /\ at[q] \in Attempts
  BY FreshNow
<1> QED
  BY <1>1 DEF OneAnswer

\* An answer under way.
LEMMA OneAnswerStep == IInv /\ Around /\ [Next]_vars => OneAnswer'
<1> SUFFICES ASSUME IInv, Around, [Next]_vars PROVE OneAnswer'
  OBVIOUS
<1>a. /\ pc \in [Handlers -> Stages] /\ on \in [Handlers -> CallOrNone] /\ at \in [Handlers -> OrNil]
      /\ held \in [Handlers -> [leg : OrNil, stop : OrNil, source : OrNil]]
      /\ active \in CallOrNone /\ leg \in OrNil /\ stop \in OrNil /\ source \in OrNil
      /\ legs \in [Attempts -> {"none", "open", "failed", "closed"}]
      /\ pumps \in [Attempts -> {"none", "running", "stopped"}]
      /\ srcs \in [Attempts -> {"none", "open", "closed"}]
      /\ attempts \in OrNil /\ replaced \in BOOLEAN /\ AtFresh
      /\ HeldToClose /\ LaterUnmade /\ OneAnswer
  BY DEF IInv, TypeOK, JobsOK, MadeOK, PhoneOK, ManagerOK, Fresh, Around
<1> USE DEF Handlers, Attempts, OrNil, CallOrNone, manager, made, jobs, screens, Becomes,
       OneAnswer, AtFresh, Answering
<1>1. ASSUME NEW c \in Calls, NotifyIncoming(c) PROVE OneAnswer'
  <2>1. /\ \A q \in Phones : Answering(q)' => Answering(q) /\ pc'[q] = pc[q] /\ at'[q] = at[q] /\ on'[q] = on[q]
        /\ stop' \in {stop, 0} /\ source' \in {source, 0} /\ leg' \in {leg, 0} /\ replaced' = replaced
    BY <1>1, <1>a DEF NotifyIncoming, Rings
  <2>2. \A a \in Attempts :
          /\ (srcs[a] # "open" => srcs'[a] # "open")
          /\ (legs[a] \in {"none", "closed"} => legs'[a] \in {"none", "closed"})
    BY <1>1, <1>a DEF NotifyIncoming, Rings
  <2>3. OneAnswer
    BY <1>a
  <2> HIDE DEF OneAnswer, Attempts
  <2> QED
    BY <2>1, <2>2, <2>3, OneAnswerKept
<1>2. ASSUME NEW c \in Calls, StartTestCall(c) PROVE OneAnswer'
  <2>1. /\ \A q \in Phones : Answering(q)' => Answering(q) /\ pc'[q] = pc[q] /\ at'[q] = at[q] /\ on'[q] = on[q]
        /\ stop' \in {stop, 0} /\ source' \in {source, 0} /\ leg' \in {leg, 0} /\ replaced' = replaced
    BY <1>2, <1>a DEF StartTestCall, Rings
  <2>2. \A a \in Attempts :
          /\ (srcs[a] # "open" => srcs'[a] # "open")
          /\ (legs[a] \in {"none", "closed"} => legs'[a] \in {"none", "closed"})
    BY <1>2, <1>a DEF StartTestCall, Rings
  <2>3. OneAnswer
    BY <1>a
  <2> HIDE DEF OneAnswer, Attempts
  <2> QED
    BY <2>1, <2>2, <2>3, OneAnswerKept
<1>3. ASSUME NEW c \in Calls, FarEndHangsUp(c) PROVE OneAnswer'
  <2>1. /\ \A q \in Phones : Answering(q)' => Answering(q) /\ pc'[q] = pc[q] /\ at'[q] = at[q] /\ on'[q] = on[q]
        /\ stop' \in {stop, 0} /\ source' \in {source, 0} /\ leg' \in {leg, 0} /\ replaced' = replaced
    BY <1>3, <1>a DEF FarEndHangsUp
  <2>2. \A a \in Attempts :
          /\ (srcs[a] # "open" => srcs'[a] # "open")
          /\ (legs[a] \in {"none", "closed"} => legs'[a] \in {"none", "closed"})
    BY <1>3, <1>a DEF FarEndHangsUp
  <2>3. OneAnswer
    BY <1>a
  <2> HIDE DEF OneAnswer, Attempts
  <2> QED
    BY <2>1, <2>2, <2>3, OneAnswerKept
<1>4. CASE CheckEnded
  <2>1. /\ \A q \in Phones : Answering(q)' => Answering(q) /\ pc'[q] = pc[q] /\ at'[q] = at[q] /\ on'[q] = on[q]
        /\ stop' \in {stop, 0} /\ source' \in {source, 0} /\ leg' \in {leg, 0} /\ replaced' = replaced
    BY <1>4, <1>a DEF CheckEnded
  <2>2. \A a \in Attempts :
          /\ (srcs[a] # "open" => srcs'[a] # "open")
          /\ (legs[a] \in {"none", "closed"} => legs'[a] \in {"none", "closed"})
    BY <1>4, <1>a DEF CheckEnded
  <2>3. OneAnswer
    BY <1>a
  <2> HIDE DEF OneAnswer, Attempts
  <2> QED
    BY <2>1, <2>2, <2>3, OneAnswerKept
<1>5. CASE ReportEnded
  <2>1. /\ \A q \in Phones : Answering(q)' => Answering(q) /\ pc'[q] = pc[q] /\ at'[q] = at[q] /\ on'[q] = on[q]
        /\ stop' \in {stop, 0} /\ source' \in {source, 0} /\ leg' \in {leg, 0} /\ replaced' = replaced
    BY <1>5, <1>a DEF ReportEnded, Pushes
  <2>2. \A a \in Attempts :
          /\ (srcs[a] # "open" => srcs'[a] # "open")
          /\ (legs[a] \in {"none", "closed"} => legs'[a] \in {"none", "closed"})
    BY <1>5, <1>a DEF ReportEnded, Pushes
  <2>3. OneAnswer
    BY <1>a
  <2> HIDE DEF OneAnswer, Attempts
  <2> QED
    BY <2>1, <2>2, <2>3, OneAnswerKept
<1>6. ASSUME NEW p \in Phones, PressAnswer(p) PROVE OneAnswer'
  <2>1. /\ \A q \in Phones : Answering(q)' => Answering(q) /\ pc'[q] = pc[q] /\ at'[q] = at[q] /\ on'[q] = on[q]
        /\ stop' \in {stop, 0} /\ source' \in {source, 0} /\ leg' \in {leg, 0} /\ replaced' = replaced
    BY <1>6, <1>a DEF PressAnswer
  <2>2. \A a \in Attempts :
          /\ (srcs[a] # "open" => srcs'[a] # "open")
          /\ (legs[a] \in {"none", "closed"} => legs'[a] \in {"none", "closed"})
    BY <1>6, <1>a DEF PressAnswer
  <2>3. OneAnswer
    BY <1>a
  <2> HIDE DEF OneAnswer, Attempts
  <2> QED
    BY <2>1, <2>2, <2>3, OneAnswerKept
<1>7. ASSUME NEW p \in Phones, PressEnd(p) PROVE OneAnswer'
  <2>1. /\ \A q \in Phones : Answering(q)' => Answering(q) /\ pc'[q] = pc[q] /\ at'[q] = at[q] /\ on'[q] = on[q]
        /\ stop' \in {stop, 0} /\ source' \in {source, 0} /\ leg' \in {leg, 0} /\ replaced' = replaced
    BY <1>7, <1>a DEF PressEnd
  <2>2. \A a \in Attempts :
          /\ (srcs[a] # "open" => srcs'[a] # "open")
          /\ (legs[a] \in {"none", "closed"} => legs'[a] \in {"none", "closed"})
    BY <1>7, <1>a DEF PressEnd
  <2>3. OneAnswer
    BY <1>a
  <2> HIDE DEF OneAnswer, Attempts
  <2> QED
    BY <2>1, <2>2, <2>3, OneAnswerKept
<1>8. ASSUME NEW p \in Phones, HearPush(p) PROVE OneAnswer'
  <2>1. /\ \A q \in Phones : Answering(q)' => Answering(q) /\ pc'[q] = pc[q] /\ at'[q] = at[q] /\ on'[q] = on[q]
        /\ stop' \in {stop, 0} /\ source' \in {source, 0} /\ leg' \in {leg, 0} /\ replaced' = replaced
    BY <1>8, <1>a DEF HearPush
  <2>2. \A a \in Attempts :
          /\ (srcs[a] # "open" => srcs'[a] # "open")
          /\ (legs[a] \in {"none", "closed"} => legs'[a] \in {"none", "closed"})
    BY <1>8, <1>a DEF HearPush
  <2>3. OneAnswer
    BY <1>a
  <2> HIDE DEF OneAnswer, Attempts
  <2> QED
    BY <2>1, <2>2, <2>3, OneAnswerKept
<1>9. ASSUME NEW p \in Phones, TakeAnswer(p) PROVE OneAnswer'
  <2>1. /\ attempts + 1 \in Attempts /\ attempts' = attempts + 1 /\ at'[p] = attempts + 1
        /\ on'[p] = active /\ active # None /\ p \in Handlers
        /\ pc'[p] = IF active \in TestCalls THEN "build" ELSE "backend"
        /\ \A q \in Phones \ {p} : pc'[q] = pc[q]
        /\ replaced' = (replaced \/ SessionStands)
        /\ UNCHANGED <<leg, stop, source, legs, srcs>>
    BY <1>9, <1>a DEF TakeAnswer
  <2>2. legs[attempts + 1] = "none" /\ srcs[attempts + 1] = "none"
    <3>1. LaterUnmade /\ attempts \in Nat /\ attempts + 1 \in Attempts
      BY <1>a, <2>1
    <3>2. attempts + 1 > attempts
      BY <3>1
    <3> QED
      BY <3>1, <3>2 DEF LaterUnmade
  <2>3. CASE replaced'
    BY <2>3
  <2>4. CASE ~replaced'
    <3>1. leg = 0 /\ stop = 0 /\ source = 0 /\ \A q \in Phones : ~Answering(q)
      BY <2>1, <2>4 DEF SessionStands
    <3>2. \A q \in Phones : Answering(q)' => q = p
      BY <2>1, <3>1
    <3>3. ASSUME NEW q \in Phones, Answering(q)'
          PROVE  /\ leg' \in IF pc'[q] \in {"start", "join"} THEN {0, at'[q]} ELSE {0}
                 /\ srcs'[at'[q]] = "none" /\ legs'[at'[q]] = "none"
                 /\ stop' = 0 /\ source' = 0
                 /\ pc'[q] # "giveup"
                 /\ pc'[q] = "backend" => on'[q] \notin TestCalls
      BY <2>1, <2>2, <3>1, <3>2, <3>3
    <3> QED
      BY <3>2, <3>3
  <2> QED
    BY <2>3, <2>4
<1>10. ASSUME NEW p \in Phones, TakeEnd(p) PROVE OneAnswer'
  <2>1. /\ \A q \in Phones : Answering(q)' => Answering(q) /\ pc'[q] = pc[q] /\ at'[q] = at[q] /\ on'[q] = on[q]
        /\ stop' \in {stop, 0} /\ source' \in {source, 0} /\ leg' \in {leg, 0} /\ replaced' = replaced
    BY <1>10, <1>a DEF TakeEnd, Takes
  <2>2. \A a \in Attempts :
          /\ (srcs[a] # "open" => srcs'[a] # "open")
          /\ (legs[a] \in {"none", "closed"} => legs'[a] \in {"none", "closed"})
    BY <1>10, <1>a DEF TakeEnd, Takes
  <2>3. OneAnswer
    BY <1>a
  <2> HIDE DEF OneAnswer, Attempts
  <2> QED
    BY <2>1, <2>2, <2>3, OneAnswerKept
<1>11. ASSUME NEW p \in Phones, IgnoreFrame(p) PROVE OneAnswer'
  <2>1. /\ \A q \in Phones : Answering(q)' => Answering(q) /\ pc'[q] = pc[q] /\ at'[q] = at[q] /\ on'[q] = on[q]
        /\ stop' \in {stop, 0} /\ source' \in {source, 0} /\ leg' \in {leg, 0} /\ replaced' = replaced
    BY <1>11, <1>a DEF IgnoreFrame
  <2>2. \A a \in Attempts :
          /\ (srcs[a] # "open" => srcs'[a] # "open")
          /\ (legs[a] \in {"none", "closed"} => legs'[a] \in {"none", "closed"})
    BY <1>11, <1>a DEF IgnoreFrame
  <2>3. OneAnswer
    BY <1>a
  <2> HIDE DEF OneAnswer, Attempts
  <2> QED
    BY <2>1, <2>2, <2>3, OneAnswerKept
<1>12. ASSUME NEW p \in Phones, BackendAnswers(p) PROVE OneAnswer'
  <2>1. /\ p \in Handlers /\ Answering(p) /\ at[p] \in Attempts /\ UNCHANGED <<at, on, replaced>>
        /\ \A q \in Phones \ {p} : pc'[q] = pc[q]
    BY <1>12, <1>a DEF BackendAnswers
  <2>2. CASE replaced
    BY <2>1, <2>2
  <2>3. CASE ~replaced
    <3>1. \A q \in Phones : Answering(q)' => q = p
      BY <1>a, <2>1, <2>3
    <3>2. Answering(p)' =>
            /\ stop' = 0 /\ source' = 0
            /\ leg' \in IF pc'[p] \in {"start", "join"} THEN {0, at[p]} ELSE {0}
            /\ on[p] \in TestCalls \/ pc'[p] = "backend" => srcs'[at[p]] # "open"
            /\ pc'[p] \in {"backend", "build", "giveup"} => legs'[at[p]] \in {"none", "closed"}
            /\ pc'[p] = "backend" => on[p] \notin TestCalls
      BY <1>12, <1>a, <2>1, <2>3 DEF BackendAnswers
    <3> QED
      BY <2>1, <3>1, <3>2
  <2> QED
    BY <2>2, <2>3
<1>13. ASSUME NEW p \in Phones, BackendRefuses(p) PROVE OneAnswer'
  <2>1. /\ p \in Handlers /\ Answering(p) /\ at[p] \in Attempts /\ UNCHANGED <<at, on, replaced>>
        /\ \A q \in Phones \ {p} : pc'[q] = pc[q]
    BY <1>13, <1>a DEF BackendRefuses
  <2>2. CASE replaced
    BY <2>1, <2>2
  <2>3. CASE ~replaced
    <3>1. \A q \in Phones : Answering(q)' => q = p
      BY <1>a, <2>1, <2>3
    <3>2. Answering(p)' =>
            /\ stop' = 0 /\ source' = 0
            /\ leg' \in IF pc'[p] \in {"start", "join"} THEN {0, at[p]} ELSE {0}
            /\ on[p] \in TestCalls \/ pc'[p] = "backend" => srcs'[at[p]] # "open"
            /\ pc'[p] \in {"backend", "build", "giveup"} => legs'[at[p]] \in {"none", "closed"}
            /\ pc'[p] = "backend" => on[p] \notin TestCalls
      BY <1>13, <1>a, <2>1, <2>3 DEF BackendRefuses
    <3> QED
      BY <2>1, <3>1, <3>2
  <2> QED
    BY <2>2, <2>3
<1>14. ASSUME NEW p \in Phones, LegCannotBeBuilt(p) PROVE OneAnswer'
  <2>1. /\ p \in Handlers /\ Answering(p) /\ at[p] \in Attempts /\ UNCHANGED <<at, on, replaced>>
        /\ \A q \in Phones \ {p} : pc'[q] = pc[q]
    BY <1>14, <1>a DEF LegCannotBeBuilt
  <2>2. CASE replaced
    BY <2>1, <2>2
  <2>3. CASE ~replaced
    <3>1. \A q \in Phones : Answering(q)' => q = p
      BY <1>a, <2>1, <2>3
    <3>2. Answering(p)' =>
            /\ stop' = 0 /\ source' = 0
            /\ leg' \in IF pc'[p] \in {"start", "join"} THEN {0, at[p]} ELSE {0}
            /\ on[p] \in TestCalls \/ pc'[p] = "backend" => srcs'[at[p]] # "open"
            /\ pc'[p] \in {"backend", "build", "giveup"} => legs'[at[p]] \in {"none", "closed"}
            /\ pc'[p] = "backend" => on[p] \notin TestCalls
      BY <1>14, <1>a, <2>1, <2>3 DEF LegCannotBeBuilt
    <3> QED
      BY <2>1, <3>1, <3>2
  <2> QED
    BY <2>2, <2>3
<1>15. ASSUME NEW p \in Phones, BuildLeg(p) PROVE OneAnswer'
  <2>1. /\ p \in Handlers /\ Answering(p) /\ at[p] \in Attempts /\ UNCHANGED <<at, on, replaced>>
        /\ \A q \in Phones \ {p} : pc'[q] = pc[q]
    BY <1>15, <1>a DEF BuildLeg
  <2>2. CASE replaced
    BY <2>1, <2>2
  <2>3. CASE ~replaced
    <3>1. \A q \in Phones : Answering(q)' => q = p
      BY <1>a, <2>1, <2>3
    <3>2. Answering(p)' =>
            /\ stop' = 0 /\ source' = 0
            /\ leg' \in IF pc'[p] \in {"start", "join"} THEN {0, at[p]} ELSE {0}
            /\ on[p] \in TestCalls \/ pc'[p] = "backend" => srcs'[at[p]] # "open"
            /\ pc'[p] \in {"backend", "build", "giveup"} => legs'[at[p]] \in {"none", "closed"}
            /\ pc'[p] = "backend" => on[p] \notin TestCalls
      BY <1>15, <1>a, <2>1, <2>3 DEF BuildLeg
    <3> QED
      BY <2>1, <3>1, <3>2
  <2> QED
    BY <2>2, <2>3
<1>16. ASSUME NEW p \in Phones, StartLeg(p) PROVE OneAnswer'
  <2>1. /\ p \in Handlers /\ Answering(p) /\ at[p] \in Attempts /\ UNCHANGED <<at, on, replaced>>
        /\ \A q \in Phones \ {p} : pc'[q] = pc[q]
    BY <1>16, <1>a DEF StartLeg
  <2>2. CASE replaced
    BY <2>1, <2>2
  <2>3. CASE ~replaced
    <3>1. \A q \in Phones : Answering(q)' => q = p
      BY <1>a, <2>1, <2>3
    <3>2. Answering(p)' =>
            /\ stop' = 0 /\ source' = 0
            /\ leg' \in IF pc'[p] \in {"start", "join"} THEN {0, at[p]} ELSE {0}
            /\ on[p] \in TestCalls \/ pc'[p] = "backend" => srcs'[at[p]] # "open"
            /\ pc'[p] \in {"backend", "build", "giveup"} => legs'[at[p]] \in {"none", "closed"}
            /\ pc'[p] = "backend" => on[p] \notin TestCalls
      BY <1>16, <1>a, <2>1, <2>3 DEF StartLeg
    <3> QED
      BY <2>1, <3>1, <3>2
  <2> QED
    BY <2>2, <2>3
<1>17. ASSUME NEW p \in Phones, LegCannotStart(p) PROVE OneAnswer'
  <2>1. /\ p \in Handlers /\ Answering(p) /\ at[p] \in Attempts /\ UNCHANGED <<at, on, replaced>>
        /\ \A q \in Phones \ {p} : pc'[q] = pc[q]
    BY <1>17, <1>a DEF LegCannotStart, Closes
  <2>2. CASE replaced
    BY <2>1, <2>2
  <2>3. CASE ~replaced
    <3>1. \A q \in Phones : Answering(q)' => q = p
      BY <1>a, <2>1, <2>3
    <3>2. Answering(p)' =>
            /\ stop' = 0 /\ source' = 0
            /\ leg' \in IF pc'[p] \in {"start", "join"} THEN {0, at[p]} ELSE {0}
            /\ on[p] \in TestCalls \/ pc'[p] = "backend" => srcs'[at[p]] # "open"
            /\ pc'[p] \in {"backend", "build", "giveup"} => legs'[at[p]] \in {"none", "closed"}
            /\ pc'[p] = "backend" => on[p] \notin TestCalls
      BY <1>17, <1>a, <2>1, <2>3 DEF LegCannotStart, Closes
    <3> QED
      BY <2>1, <3>1, <3>2
  <2> QED
    BY <2>2, <2>3
<1>18. ASSUME NEW p \in Phones, Join(p) PROVE OneAnswer'
  <2>1. /\ p \in Handlers /\ Answering(p) /\ at[p] \in Attempts /\ UNCHANGED <<at, on, replaced>>
        /\ \A q \in Phones \ {p} : pc'[q] = pc[q]
    BY <1>18, <1>a DEF Join
  <2>2. CASE replaced
    BY <2>1, <2>2
  <2>3. CASE ~replaced
    <3>1. \A q \in Phones : Answering(q)' => q = p
      BY <1>a, <2>1, <2>3
    <3>2. Answering(p)' =>
            /\ stop' = 0 /\ source' = 0
            /\ leg' \in IF pc'[p] \in {"start", "join"} THEN {0, at[p]} ELSE {0}
            /\ on[p] \in TestCalls \/ pc'[p] = "backend" => srcs'[at[p]] # "open"
            /\ pc'[p] \in {"backend", "build", "giveup"} => legs'[at[p]] \in {"none", "closed"}
            /\ pc'[p] = "backend" => on[p] \notin TestCalls
      BY <1>18, <1>a, <2>1, <2>3 DEF Join
    <3> QED
      BY <2>1, <3>1, <3>2
  <2> QED
    BY <2>2, <2>3
<1>19. ASSUME NEW p \in Phones, GivesUp(p) PROVE OneAnswer'
  <2>1. /\ p \in Handlers /\ Answering(p) /\ at[p] \in Attempts /\ UNCHANGED <<at, on, replaced>>
        /\ \A q \in Phones \ {p} : pc'[q] = pc[q]
    BY <1>19, <1>a DEF GivesUp, Pushes
  <2>2. CASE replaced
    BY <2>1, <2>2
  <2>3. CASE ~replaced
    <3>1. \A q \in Phones : Answering(q)' => q = p
      BY <1>a, <2>1, <2>3
    <3>2. Answering(p)' =>
            /\ stop' = 0 /\ source' = 0
            /\ leg' \in IF pc'[p] \in {"start", "join"} THEN {0, at[p]} ELSE {0}
            /\ on[p] \in TestCalls \/ pc'[p] = "backend" => srcs'[at[p]] # "open"
            /\ pc'[p] \in {"backend", "build", "giveup"} => legs'[at[p]] \in {"none", "closed"}
            /\ pc'[p] = "backend" => on[p] \notin TestCalls
      BY <1>19, <1>a, <2>1, <2>3 DEF GivesUp, Pushes
    <3> QED
      BY <2>1, <3>1, <3>2
  <2> QED
    BY <2>2, <2>3
<1>20. ASSUME NEW p \in Phones, BackendDeclines(p) PROVE OneAnswer'
  <2>1. /\ \A q \in Phones : Answering(q)' => Answering(q) /\ pc'[q] = pc[q] /\ at'[q] = at[q] /\ on'[q] = on[q]
        /\ stop' \in {stop, 0} /\ source' \in {source, 0} /\ leg' \in {leg, 0} /\ replaced' = replaced
    BY <1>20, <1>a DEF BackendDeclines
  <2>2. \A a \in Attempts :
          /\ (srcs[a] # "open" => srcs'[a] # "open")
          /\ (legs[a] \in {"none", "closed"} => legs'[a] \in {"none", "closed"})
    BY <1>20, <1>a DEF BackendDeclines
  <2>3. OneAnswer
    BY <1>a
  <2> HIDE DEF OneAnswer, Attempts
  <2> QED
    BY <2>1, <2>2, <2>3, OneAnswerKept
<1>21. ASSUME NEW h \in Handlers, PushOffer(h) PROVE OneAnswer'
  <2>1. /\ \A q \in Phones : Answering(q)' => Answering(q) /\ pc'[q] = pc[q] /\ at'[q] = at[q] /\ on'[q] = on[q]
        /\ stop' \in {stop, 0} /\ source' \in {source, 0} /\ leg' \in {leg, 0} /\ replaced' = replaced
    BY <1>21, <1>a DEF PushOffer, Pushes
  <2>2. \A a \in Attempts :
          /\ (srcs[a] # "open" => srcs'[a] # "open")
          /\ (legs[a] \in {"none", "closed"} => legs'[a] \in {"none", "closed"})
    BY <1>21, <1>a DEF PushOffer, Pushes
  <2>3. OneAnswer
    BY <1>a
  <2> HIDE DEF OneAnswer, Attempts
  <2> QED
    BY <2>1, <2>2, <2>3, OneAnswerKept
<1>22. ASSUME NEW h \in Handlers, EndSwap(h) PROVE OneAnswer'
  <2>1. /\ \A q \in Phones : Answering(q)' => Answering(q) /\ pc'[q] = pc[q] /\ at'[q] = at[q] /\ on'[q] = on[q]
        /\ stop' \in {stop, 0} /\ source' \in {source, 0} /\ leg' \in {leg, 0} /\ replaced' = replaced
    BY <1>22, <1>a DEF EndSwap
  <2>2. \A a \in Attempts :
          /\ (srcs[a] # "open" => srcs'[a] # "open")
          /\ (legs[a] \in {"none", "closed"} => legs'[a] \in {"none", "closed"})
    BY <1>22, <1>a DEF EndSwap
  <2>3. OneAnswer
    BY <1>a
  <2> HIDE DEF OneAnswer, Attempts
  <2> QED
    BY <2>1, <2>2, <2>3, OneAnswerKept
<1>23. ASSUME NEW h \in Handlers, EndClose(h) PROVE OneAnswer'
  <2>1. /\ \A q \in Phones : Answering(q)' => Answering(q) /\ pc'[q] = pc[q] /\ at'[q] = at[q] /\ on'[q] = on[q]
        /\ stop' \in {stop, 0} /\ source' \in {source, 0} /\ leg' \in {leg, 0} /\ replaced' = replaced
    BY <1>23, <1>a DEF EndClose, Closed, Closes
  <2>2. \A a \in Attempts :
          /\ (srcs[a] # "open" => srcs'[a] # "open")
          /\ (legs[a] \in {"none", "closed"} => legs'[a] \in {"none", "closed"})
    BY <1>23, <1>a, LegTaken DEF EndClose, Closed
  <2>3. OneAnswer
    BY <1>a
  <2> HIDE DEF OneAnswer, Attempts
  <2> QED
    BY <2>1, <2>2, <2>3, OneAnswerKept
<1>24. ASSUME NEW a \in Attempts, LegFails(a) PROVE OneAnswer'
  <2>1. /\ \A q \in Phones : Answering(q)' => Answering(q) /\ pc'[q] = pc[q] /\ at'[q] = at[q] /\ on'[q] = on[q]
        /\ stop' \in {stop, 0} /\ source' \in {source, 0} /\ leg' \in {leg, 0} /\ replaced' = replaced
    BY <1>24, <1>a DEF LegFails, Pushes
  <2>2. \A b \in Attempts :
          /\ (srcs[b] # "open" => srcs'[b] # "open")
          /\ (legs[b] \in {"none", "closed"} => legs'[b] \in {"none", "closed"})
    BY <1>24, <1>a DEF LegFails, Pushes
  <2>3. OneAnswer
    BY <1>a
  <2> HIDE DEF OneAnswer, Attempts
  <2> QED
    BY <2>1, <2>2, <2>3, OneAnswerKept
<1>25. ASSUME NEW a \in Attempts, ReportClosed(a) PROVE OneAnswer'
  <2>1. /\ \A q \in Phones : Answering(q)' => Answering(q) /\ pc'[q] = pc[q] /\ at'[q] = at[q] /\ on'[q] = on[q]
        /\ stop' \in {stop, 0} /\ source' \in {source, 0} /\ leg' \in {leg, 0} /\ replaced' = replaced
    BY <1>25, <1>a DEF ReportClosed, Pushes
  <2>2. \A b \in Attempts :
          /\ (srcs[b] # "open" => srcs'[b] # "open")
          /\ (legs[b] \in {"none", "closed"} => legs'[b] \in {"none", "closed"})
    BY <1>25, <1>a DEF ReportClosed, Pushes
  <2>3. OneAnswer
    BY <1>a
  <2> HIDE DEF OneAnswer, Attempts
  <2> QED
    BY <2>1, <2>2, <2>3, OneAnswerKept
<1>26. CASE UNCHANGED vars
  <2>1. /\ \A q \in Phones : Answering(q)' => Answering(q) /\ pc'[q] = pc[q] /\ at'[q] = at[q] /\ on'[q] = on[q]
        /\ stop' \in {stop, 0} /\ source' \in {source, 0} /\ leg' \in {leg, 0} /\ replaced' = replaced
    BY <1>26, <1>a DEF vars
  <2>2. \A a \in Attempts :
          /\ (srcs[a] # "open" => srcs'[a] # "open")
          /\ (legs[a] \in {"none", "closed"} => legs'[a] \in {"none", "closed"})
    BY <1>26, <1>a DEF vars
  <2>3. OneAnswer
    BY <1>a
  <2> HIDE DEF OneAnswer, Attempts
  <2> QED
    BY <2>1, <2>2, <2>3, OneAnswerKept
<1> QED
  BY <1>1, <1>2, <1>3, <1>4, <1>5, <1>6, <1>7, <1>8, <1>9, <1>10, <1>11, <1>12, <1>13, <1>14,
     <1>15, <1>16, <1>17, <1>18, <1>19, <1>20, <1>21, <1>22, <1>23, <1>24, <1>25, <1>26
  DEF Next, AnswerStep, TakeFrame, EndStep

\* A leg is in the Manager, or taken from it, from the moment it is open.
Reached(a) ==
  /\ legs[a] \in {"open", "failed"} => leg = a \/ \E h \in Handlers : held[h].leg = a
  /\ pumps[a] = "running" => stop = a \/ \E h \in Handlers : held[h].stop = a
  /\ srcs[a] = "open" => source = a \/ Making(a) \/ \E h \in Handlers : held[h].source = a

AllReached == replaced \/ \A a \in Attempts : Reached(a)

LEMMA ReachIs == AllReached => NothingUnreachable
  BY DEF NothingUnreachable, NothingLeaked, Reached, AllReached

ReachSame(a) ==
  /\ legs'[a] \in {"open", "failed"} => legs[a] \in {"open", "failed"}
  /\ srcs'[a] = "open" => srcs[a] = "open"

\* A step after which nothing is open that was not, and which takes nothing from
\* the Manager or from a handler.
LEMMA ReachKept ==
  ASSUME \A a \in Attempts : Reached(a),
         \A q \in Phones : Answering(q) => Answering(q)' /\ at'[q] = at[q],
         UNCHANGED <<leg, stop, source, held, pumps>>,
         \A a \in Attempts : ReachSame(a)
  PROVE  \A a \in Attempts : Reached(a)'
<1> SUFFICES ASSUME NEW a \in Attempts PROVE Reached(a)'
  OBVIOUS
<1>1. Making(a) => Making(a)'
  BY DEF Making
<1> QED
  BY <1>1 DEF Reached, ReachSame

\* What an attempt made stays within reach.
LEMMA UnreachableStep == IInv /\ Around /\ AllReached /\ [Next]_vars => AllReached'
<1> SUFFICES ASSUME IInv, Around, AllReached, [Next]_vars PROVE AllReached'
  OBVIOUS
<1>a. /\ pc \in [Handlers -> Stages] /\ on \in [Handlers -> CallOrNone] /\ at \in [Handlers -> OrNil]
      /\ held \in [Handlers -> [leg : OrNil, stop : OrNil, source : OrNil]]
      /\ active \in CallOrNone /\ leg \in OrNil /\ stop \in OrNil /\ source \in OrNil
      /\ legs \in [Attempts -> {"none", "open", "failed", "closed"}]
      /\ pumps \in [Attempts -> {"none", "running", "stopped"}]
      /\ srcs \in [Attempts -> {"none", "open", "closed"}]
      /\ attempts \in OrNil /\ replaced \in BOOLEAN /\ AtFresh
      /\ HeldToClose /\ LaterUnmade /\ OneAnswer
      /\ AllReached
  BY DEF IInv, TypeOK, JobsOK, MadeOK, PhoneOK, ManagerOK, Fresh, Around
<1> USE DEF Handlers, Attempts, OrNil, CallOrNone, manager, made, jobs, screens, Becomes,
       AtFresh, Answering, HeldToClose
<1>1. ASSUME NEW c \in Calls, NotifyIncoming(c) PROVE AllReached'
  <2>1. \A q \in Phones : Answering(q) => Answering(q)' /\ at'[q] = at[q]
    BY <1>1, <1>a DEF NotifyIncoming, Rings
  <2>2. UNCHANGED <<leg, stop, source, held, pumps>>
    BY <1>1 DEF NotifyIncoming, Rings
  <2>3. \A b \in Attempts : ReachSame(b)
    BY <1>1, <1>a DEF NotifyIncoming, Rings, ReachSame
  <2>4. replaced => replaced'
    BY <1>1 DEF NotifyIncoming, Rings
  <2> QED
    BY <1>a, <2>1, <2>2, <2>3, <2>4, ReachKept DEF AllReached
<1>2. ASSUME NEW c \in Calls, StartTestCall(c) PROVE AllReached'
  <2>1. \A q \in Phones : Answering(q) => Answering(q)' /\ at'[q] = at[q]
    BY <1>2, <1>a DEF StartTestCall, Rings
  <2>2. UNCHANGED <<leg, stop, source, held, pumps>>
    BY <1>2 DEF StartTestCall, Rings
  <2>3. \A b \in Attempts : ReachSame(b)
    BY <1>2, <1>a DEF StartTestCall, Rings, ReachSame
  <2>4. replaced => replaced'
    BY <1>2 DEF StartTestCall, Rings
  <2> QED
    BY <1>a, <2>1, <2>2, <2>3, <2>4, ReachKept DEF AllReached
<1>3. ASSUME NEW c \in Calls, FarEndHangsUp(c) PROVE AllReached'
  <2>1. \A q \in Phones : Answering(q) => Answering(q)' /\ at'[q] = at[q]
    BY <1>3, <1>a DEF FarEndHangsUp
  <2>2. UNCHANGED <<leg, stop, source, held, pumps>>
    BY <1>3 DEF FarEndHangsUp
  <2>3. \A b \in Attempts : ReachSame(b)
    BY <1>3, <1>a DEF FarEndHangsUp, ReachSame
  <2>4. replaced => replaced'
    BY <1>3 DEF FarEndHangsUp
  <2> QED
    BY <1>a, <2>1, <2>2, <2>3, <2>4, ReachKept DEF AllReached
<1>4. CASE CheckEnded
  <2>1. \A q \in Phones : Answering(q) => Answering(q)' /\ at'[q] = at[q]
    BY <1>4, <1>a DEF CheckEnded
  <2>2. UNCHANGED <<leg, stop, source, held, pumps>>
    BY <1>4 DEF CheckEnded
  <2>3. \A b \in Attempts : ReachSame(b)
    BY <1>4, <1>a DEF CheckEnded, ReachSame
  <2>4. replaced => replaced'
    BY <1>4 DEF CheckEnded
  <2> QED
    BY <1>a, <2>1, <2>2, <2>3, <2>4, ReachKept DEF AllReached
<1>5. CASE ReportEnded
  <2>1. \A q \in Phones : Answering(q) => Answering(q)' /\ at'[q] = at[q]
    BY <1>5, <1>a DEF ReportEnded, Pushes
  <2>2. UNCHANGED <<leg, stop, source, held, pumps>>
    BY <1>5 DEF ReportEnded, Pushes
  <2>3. \A b \in Attempts : ReachSame(b)
    BY <1>5, <1>a DEF ReportEnded, Pushes, ReachSame
  <2>4. replaced => replaced'
    BY <1>5 DEF ReportEnded, Pushes
  <2> QED
    BY <1>a, <2>1, <2>2, <2>3, <2>4, ReachKept DEF AllReached
<1>6. ASSUME NEW p \in Phones, PressAnswer(p) PROVE AllReached'
  <2>1. \A q \in Phones : Answering(q) => Answering(q)' /\ at'[q] = at[q]
    BY <1>6, <1>a DEF PressAnswer
  <2>2. UNCHANGED <<leg, stop, source, held, pumps>>
    BY <1>6 DEF PressAnswer
  <2>3. \A b \in Attempts : ReachSame(b)
    BY <1>6, <1>a DEF PressAnswer, ReachSame
  <2>4. replaced => replaced'
    BY <1>6 DEF PressAnswer
  <2> QED
    BY <1>a, <2>1, <2>2, <2>3, <2>4, ReachKept DEF AllReached
<1>7. ASSUME NEW p \in Phones, PressEnd(p) PROVE AllReached'
  <2>1. \A q \in Phones : Answering(q) => Answering(q)' /\ at'[q] = at[q]
    BY <1>7, <1>a DEF PressEnd
  <2>2. UNCHANGED <<leg, stop, source, held, pumps>>
    BY <1>7 DEF PressEnd
  <2>3. \A b \in Attempts : ReachSame(b)
    BY <1>7, <1>a DEF PressEnd, ReachSame
  <2>4. replaced => replaced'
    BY <1>7 DEF PressEnd
  <2> QED
    BY <1>a, <2>1, <2>2, <2>3, <2>4, ReachKept DEF AllReached
<1>8. ASSUME NEW p \in Phones, HearPush(p) PROVE AllReached'
  <2>1. \A q \in Phones : Answering(q) => Answering(q)' /\ at'[q] = at[q]
    BY <1>8, <1>a DEF HearPush
  <2>2. UNCHANGED <<leg, stop, source, held, pumps>>
    BY <1>8 DEF HearPush
  <2>3. \A b \in Attempts : ReachSame(b)
    BY <1>8, <1>a DEF HearPush, ReachSame
  <2>4. replaced => replaced'
    BY <1>8 DEF HearPush
  <2> QED
    BY <1>a, <2>1, <2>2, <2>3, <2>4, ReachKept DEF AllReached
<1>9. ASSUME NEW p \in Phones, TakeAnswer(p) PROVE AllReached'
  <2>1. \A q \in Phones : Answering(q) => Answering(q)' /\ at'[q] = at[q]
    BY <1>9, <1>a DEF TakeAnswer, Takes
  <2>2. UNCHANGED <<leg, stop, source, held, pumps>>
    BY <1>9 DEF TakeAnswer, Takes
  <2>3. \A b \in Attempts : ReachSame(b)
    BY <1>9, <1>a DEF TakeAnswer, Takes, ReachSame
  <2>4. replaced => replaced'
    BY <1>9 DEF TakeAnswer, Takes
  <2> QED
    BY <1>a, <2>1, <2>2, <2>3, <2>4, ReachKept DEF AllReached
<1>10. ASSUME NEW p \in Phones, TakeEnd(p) PROVE AllReached'
  <2>1. \A q \in Phones : Answering(q) => Answering(q)' /\ at'[q] = at[q]
    BY <1>10, <1>a DEF TakeEnd, Takes
  <2>2. UNCHANGED <<leg, stop, source, held, pumps>>
    BY <1>10 DEF TakeEnd, Takes
  <2>3. \A b \in Attempts : ReachSame(b)
    BY <1>10, <1>a DEF TakeEnd, Takes, ReachSame
  <2>4. replaced => replaced'
    BY <1>10 DEF TakeEnd, Takes
  <2> QED
    BY <1>a, <2>1, <2>2, <2>3, <2>4, ReachKept DEF AllReached
<1>11. ASSUME NEW p \in Phones, IgnoreFrame(p) PROVE AllReached'
  <2>1. \A q \in Phones : Answering(q) => Answering(q)' /\ at'[q] = at[q]
    BY <1>11, <1>a DEF IgnoreFrame
  <2>2. UNCHANGED <<leg, stop, source, held, pumps>>
    BY <1>11 DEF IgnoreFrame
  <2>3. \A b \in Attempts : ReachSame(b)
    BY <1>11, <1>a DEF IgnoreFrame, ReachSame
  <2>4. replaced => replaced'
    BY <1>11 DEF IgnoreFrame
  <2> QED
    BY <1>a, <2>1, <2>2, <2>3, <2>4, ReachKept DEF AllReached
<1>12. ASSUME NEW p \in Phones, BackendAnswers(p) PROVE AllReached'
  <2>1. /\ p \in Handlers /\ Answering(p) /\ at[p] \in Attempts /\ replaced' = replaced
        /\ \A q \in Phones \ {p} : pc'[q] = pc[q]
        /\ UNCHANGED <<held, at>>
    BY <1>12, <1>a DEF BackendAnswers
  <2>2. CASE replaced
    BY <2>1, <2>2 DEF AllReached
  <2>3. CASE ~replaced
    <3>1. /\ stop = 0 /\ source = 0 /\ leg \in IF pc[p] \in {"start", "join"} THEN {0, at[p]} ELSE {0}
          /\ on[p] \in TestCalls \/ pc[p] = "backend" => srcs[at[p]] # "open"
          /\ pc[p] \in {"backend", "build", "giveup"} => legs[at[p]] \in {"none", "closed"}
      BY <1>a, <2>1, <2>3 DEF OneAnswer
    <3>2. ASSUME NEW a \in Attempts PROVE Reached(a)'
      <4>0. Reached(a)
        BY <1>a, <2>3 DEF AllReached
      <4>1. CASE a = at[p]
        <5>1. Making(a) /\ pumps[a] = "none"
          BY <2>1, <4>1, FreshNow DEF Making
        <5> QED
          BY <1>12, <1>a, <2>1, <3>1, <4>0, <4>1, <5>1 DEF Reached, Making, BackendAnswers
      <4>2. CASE a # at[p]
        <5>1. legs'[a] = legs[a] /\ pumps'[a] = pumps[a] /\ srcs'[a] = srcs[a]
          BY <1>12, <1>a, <2>1, <4>2 DEF BackendAnswers
        <5>2. (leg = a => leg' = a) /\ (stop = a => stop' = a) /\ (source = a => source' = a)
          BY <1>12, <1>a, <2>1, <3>1, <4>2 DEF BackendAnswers
        <5>3. Making(a) => Making(a)'
          BY <2>1, <4>2 DEF Making
        <5> QED
          BY <2>1, <4>0, <5>1, <5>2, <5>3 DEF Reached
      <4> QED
        BY <4>1, <4>2
    <3> QED
      BY <3>2 DEF AllReached
  <2> QED
    BY <2>2, <2>3
<1>13. ASSUME NEW p \in Phones, BackendRefuses(p) PROVE AllReached'
  <2>1. /\ p \in Handlers /\ Answering(p) /\ at[p] \in Attempts /\ replaced' = replaced
        /\ \A q \in Phones \ {p} : pc'[q] = pc[q]
        /\ UNCHANGED <<held, at>>
    BY <1>13, <1>a DEF BackendRefuses
  <2>2. CASE replaced
    BY <2>1, <2>2 DEF AllReached
  <2>3. CASE ~replaced
    <3>1. /\ stop = 0 /\ source = 0 /\ leg \in IF pc[p] \in {"start", "join"} THEN {0, at[p]} ELSE {0}
          /\ on[p] \in TestCalls \/ pc[p] = "backend" => srcs[at[p]] # "open"
          /\ pc[p] \in {"backend", "build", "giveup"} => legs[at[p]] \in {"none", "closed"}
      BY <1>a, <2>1, <2>3 DEF OneAnswer
    <3>2. ASSUME NEW a \in Attempts PROVE Reached(a)'
      <4>0. Reached(a)
        BY <1>a, <2>3 DEF AllReached
      <4>1. CASE a = at[p]
        <5>1. Making(a) /\ pumps[a] = "none"
          BY <2>1, <4>1, FreshNow DEF Making
        <5> QED
          BY <1>13, <1>a, <2>1, <3>1, <4>0, <4>1, <5>1 DEF Reached, Making, BackendRefuses
      <4>2. CASE a # at[p]
        <5>1. legs'[a] = legs[a] /\ pumps'[a] = pumps[a] /\ srcs'[a] = srcs[a]
          BY <1>13, <1>a, <2>1, <4>2 DEF BackendRefuses
        <5>2. (leg = a => leg' = a) /\ (stop = a => stop' = a) /\ (source = a => source' = a)
          BY <1>13, <1>a, <2>1, <3>1, <4>2 DEF BackendRefuses
        <5>3. Making(a) => Making(a)'
          BY <2>1, <4>2 DEF Making
        <5> QED
          BY <2>1, <4>0, <5>1, <5>2, <5>3 DEF Reached
      <4> QED
        BY <4>1, <4>2
    <3> QED
      BY <3>2 DEF AllReached
  <2> QED
    BY <2>2, <2>3
<1>14. ASSUME NEW p \in Phones, LegCannotBeBuilt(p) PROVE AllReached'
  <2>1. /\ p \in Handlers /\ Answering(p) /\ at[p] \in Attempts /\ replaced' = replaced
        /\ \A q \in Phones \ {p} : pc'[q] = pc[q]
        /\ UNCHANGED <<held, at>>
    BY <1>14, <1>a DEF LegCannotBeBuilt
  <2>2. CASE replaced
    BY <2>1, <2>2 DEF AllReached
  <2>3. CASE ~replaced
    <3>1. /\ stop = 0 /\ source = 0 /\ leg \in IF pc[p] \in {"start", "join"} THEN {0, at[p]} ELSE {0}
          /\ on[p] \in TestCalls \/ pc[p] = "backend" => srcs[at[p]] # "open"
          /\ pc[p] \in {"backend", "build", "giveup"} => legs[at[p]] \in {"none", "closed"}
      BY <1>a, <2>1, <2>3 DEF OneAnswer
    <3>2. ASSUME NEW a \in Attempts PROVE Reached(a)'
      <4>0. Reached(a)
        BY <1>a, <2>3 DEF AllReached
      <4>1. CASE a = at[p]
        <5>1. Making(a) /\ pumps[a] = "none"
          BY <2>1, <4>1, FreshNow DEF Making
        <5> QED
          BY <1>14, <1>a, <2>1, <3>1, <4>0, <4>1, <5>1 DEF Reached, Making, LegCannotBeBuilt
      <4>2. CASE a # at[p]
        <5>1. legs'[a] = legs[a] /\ pumps'[a] = pumps[a] /\ srcs'[a] = srcs[a]
          BY <1>14, <1>a, <2>1, <4>2 DEF LegCannotBeBuilt
        <5>2. (leg = a => leg' = a) /\ (stop = a => stop' = a) /\ (source = a => source' = a)
          BY <1>14, <1>a, <2>1, <3>1, <4>2 DEF LegCannotBeBuilt
        <5>3. Making(a) => Making(a)'
          BY <2>1, <4>2 DEF Making
        <5> QED
          BY <2>1, <4>0, <5>1, <5>2, <5>3 DEF Reached
      <4> QED
        BY <4>1, <4>2
    <3> QED
      BY <3>2 DEF AllReached
  <2> QED
    BY <2>2, <2>3
<1>15. ASSUME NEW p \in Phones, BuildLeg(p) PROVE AllReached'
  <2>1. /\ p \in Handlers /\ Answering(p) /\ at[p] \in Attempts /\ replaced' = replaced
        /\ \A q \in Phones \ {p} : pc'[q] = pc[q]
        /\ UNCHANGED <<held, at>>
    BY <1>15, <1>a DEF BuildLeg
  <2>2. CASE replaced
    BY <2>1, <2>2 DEF AllReached
  <2>3. CASE ~replaced
    <3>1. /\ stop = 0 /\ source = 0 /\ leg \in IF pc[p] \in {"start", "join"} THEN {0, at[p]} ELSE {0}
          /\ on[p] \in TestCalls \/ pc[p] = "backend" => srcs[at[p]] # "open"
          /\ pc[p] \in {"backend", "build", "giveup"} => legs[at[p]] \in {"none", "closed"}
      BY <1>a, <2>1, <2>3 DEF OneAnswer
    <3>2. ASSUME NEW a \in Attempts PROVE Reached(a)'
      <4>0. Reached(a)
        BY <1>a, <2>3 DEF AllReached
      <4>1. CASE a = at[p]
        <5>1. Making(a) /\ pumps[a] = "none"
          BY <2>1, <4>1, FreshNow DEF Making
        <5> QED
          BY <1>15, <1>a, <2>1, <3>1, <4>0, <4>1, <5>1 DEF Reached, Making, BuildLeg
      <4>2. CASE a # at[p]
        <5>1. legs'[a] = legs[a] /\ pumps'[a] = pumps[a] /\ srcs'[a] = srcs[a]
          BY <1>15, <1>a, <2>1, <4>2 DEF BuildLeg
        <5>2. (leg = a => leg' = a) /\ (stop = a => stop' = a) /\ (source = a => source' = a)
          BY <1>15, <1>a, <2>1, <3>1, <4>2 DEF BuildLeg
        <5>3. Making(a) => Making(a)'
          BY <2>1, <4>2 DEF Making
        <5> QED
          BY <2>1, <4>0, <5>1, <5>2, <5>3 DEF Reached
      <4> QED
        BY <4>1, <4>2
    <3> QED
      BY <3>2 DEF AllReached
  <2> QED
    BY <2>2, <2>3
<1>16. ASSUME NEW p \in Phones, StartLeg(p) PROVE AllReached'
  <2>1. \A q \in Phones : Answering(q) => Answering(q)' /\ at'[q] = at[q]
    BY <1>16, <1>a DEF StartLeg
  <2>2. UNCHANGED <<leg, stop, source, held, pumps>>
    BY <1>16 DEF StartLeg
  <2>3. \A b \in Attempts : ReachSame(b)
    BY <1>16, <1>a DEF StartLeg, ReachSame
  <2>4. replaced => replaced'
    BY <1>16 DEF StartLeg
  <2> QED
    BY <1>a, <2>1, <2>2, <2>3, <2>4, ReachKept DEF AllReached
<1>17. ASSUME NEW p \in Phones, LegCannotStart(p) PROVE AllReached'
  <2>1. /\ p \in Handlers /\ Answering(p) /\ at[p] \in Attempts /\ replaced' = replaced
        /\ \A q \in Phones \ {p} : pc'[q] = pc[q]
        /\ UNCHANGED <<held, at>>
    BY <1>17, <1>a DEF LegCannotStart, Closes
  <2>2. CASE replaced
    BY <2>1, <2>2 DEF AllReached
  <2>3. CASE ~replaced
    <3>1. /\ stop = 0 /\ source = 0 /\ leg \in IF pc[p] \in {"start", "join"} THEN {0, at[p]} ELSE {0}
          /\ on[p] \in TestCalls \/ pc[p] = "backend" => srcs[at[p]] # "open"
          /\ pc[p] \in {"backend", "build", "giveup"} => legs[at[p]] \in {"none", "closed"}
      BY <1>a, <2>1, <2>3 DEF OneAnswer
    <3>2. ASSUME NEW a \in Attempts PROVE Reached(a)'
      <4>0. Reached(a)
        BY <1>a, <2>3 DEF AllReached
      <4>1. CASE a = at[p]
        <5>1. Making(a) /\ pumps[a] = "none"
          BY <2>1, <4>1, FreshNow DEF Making
        <5> QED
          BY <1>17, <1>a, <2>1, <3>1, <4>0, <4>1, <5>1 DEF Reached, Making, LegCannotStart, Closes
      <4>2. CASE a # at[p]
        <5>1. legs'[a] = legs[a] /\ pumps'[a] = pumps[a] /\ srcs'[a] = srcs[a]
          BY <1>17, <1>a, <2>1, <4>2 DEF LegCannotStart, Closes
        <5>2. (leg = a => leg' = a) /\ (stop = a => stop' = a) /\ (source = a => source' = a)
          BY <1>17, <1>a, <2>1, <3>1, <4>2 DEF LegCannotStart, Closes
        <5>3. Making(a) => Making(a)'
          BY <2>1, <4>2 DEF Making
        <5> QED
          BY <2>1, <4>0, <5>1, <5>2, <5>3 DEF Reached
      <4> QED
        BY <4>1, <4>2
    <3> QED
      BY <3>2 DEF AllReached
  <2> QED
    BY <2>2, <2>3
<1>18. ASSUME NEW p \in Phones, Join(p) PROVE AllReached'
  <2>1. /\ p \in Handlers /\ Answering(p) /\ at[p] \in Attempts /\ replaced' = replaced
        /\ \A q \in Phones \ {p} : pc'[q] = pc[q]
        /\ UNCHANGED <<held, at>>
    BY <1>18, <1>a DEF Join
  <2>2. CASE replaced
    BY <2>1, <2>2 DEF AllReached
  <2>3. CASE ~replaced
    <3>1. /\ stop = 0 /\ source = 0 /\ leg \in IF pc[p] \in {"start", "join"} THEN {0, at[p]} ELSE {0}
          /\ on[p] \in TestCalls \/ pc[p] = "backend" => srcs[at[p]] # "open"
          /\ pc[p] \in {"backend", "build", "giveup"} => legs[at[p]] \in {"none", "closed"}
      BY <1>a, <2>1, <2>3 DEF OneAnswer
    <3>2. ASSUME NEW a \in Attempts PROVE Reached(a)'
      <4>0. Reached(a)
        BY <1>a, <2>3 DEF AllReached
      <4>1. CASE a = at[p]
        <5>1. Making(a) /\ pumps[a] = "none"
          BY <2>1, <4>1, FreshNow DEF Making
        <5> QED
          BY <1>18, <1>a, <2>1, <3>1, <4>0, <4>1, <5>1 DEF Reached, Making, Join
      <4>2. CASE a # at[p]
        <5>1. legs'[a] = legs[a] /\ pumps'[a] = pumps[a] /\ srcs'[a] = srcs[a]
          BY <1>18, <1>a, <2>1, <4>2 DEF Join
        <5>2. (leg = a => leg' = a) /\ (stop = a => stop' = a) /\ (source = a => source' = a)
          BY <1>18, <1>a, <2>1, <3>1, <4>2 DEF Join
        <5>3. Making(a) => Making(a)'
          BY <2>1, <4>2 DEF Making
        <5> QED
          BY <2>1, <4>0, <5>1, <5>2, <5>3 DEF Reached
      <4> QED
        BY <4>1, <4>2
    <3> QED
      BY <3>2 DEF AllReached
  <2> QED
    BY <2>2, <2>3
<1>19. ASSUME NEW p \in Phones, GivesUp(p) PROVE AllReached'
  <2>1. /\ p \in Handlers /\ Answering(p) /\ at[p] \in Attempts /\ replaced' = replaced
        /\ \A q \in Phones \ {p} : pc'[q] = pc[q]
        /\ UNCHANGED <<held, at>>
    BY <1>19, <1>a DEF GivesUp, Pushes
  <2>2. CASE replaced
    BY <2>1, <2>2 DEF AllReached
  <2>3. CASE ~replaced
    <3>1. /\ stop = 0 /\ source = 0 /\ leg \in IF pc[p] \in {"start", "join"} THEN {0, at[p]} ELSE {0}
          /\ on[p] \in TestCalls \/ pc[p] = "backend" => srcs[at[p]] # "open"
          /\ pc[p] \in {"backend", "build", "giveup"} => legs[at[p]] \in {"none", "closed"}
      BY <1>a, <2>1, <2>3 DEF OneAnswer
    <3>2. ASSUME NEW a \in Attempts PROVE Reached(a)'
      <4>0. Reached(a)
        BY <1>a, <2>3 DEF AllReached
      <4>1. CASE a = at[p]
        <5>1. Making(a) /\ pumps[a] = "none"
          BY <2>1, <4>1, FreshNow DEF Making
        <5> QED
          BY <1>19, <1>a, <2>1, <3>1, <4>0, <4>1, <5>1 DEF Reached, Making, GivesUp, Pushes
      <4>2. CASE a # at[p]
        <5>1. legs'[a] = legs[a] /\ pumps'[a] = pumps[a] /\ srcs'[a] = srcs[a]
          BY <1>19, <1>a, <2>1, <4>2 DEF GivesUp, Pushes
        <5>2. (leg = a => leg' = a) /\ (stop = a => stop' = a) /\ (source = a => source' = a)
          BY <1>19, <1>a, <2>1, <3>1, <4>2 DEF GivesUp, Pushes
        <5>3. Making(a) => Making(a)'
          BY <2>1, <4>2 DEF Making
        <5> QED
          BY <2>1, <4>0, <5>1, <5>2, <5>3 DEF Reached
      <4> QED
        BY <4>1, <4>2
    <3> QED
      BY <3>2 DEF AllReached
  <2> QED
    BY <2>2, <2>3
<1>20. ASSUME NEW p \in Phones, BackendDeclines(p) PROVE AllReached'
  <2>1. \A q \in Phones : Answering(q) => Answering(q)' /\ at'[q] = at[q]
    BY <1>20, <1>a DEF BackendDeclines
  <2>2. UNCHANGED <<leg, stop, source, held, pumps>>
    BY <1>20 DEF BackendDeclines
  <2>3. \A b \in Attempts : ReachSame(b)
    BY <1>20, <1>a DEF BackendDeclines, ReachSame
  <2>4. replaced => replaced'
    BY <1>20 DEF BackendDeclines
  <2> QED
    BY <1>a, <2>1, <2>2, <2>3, <2>4, ReachKept DEF AllReached
<1>21. ASSUME NEW h \in Handlers, PushOffer(h) PROVE AllReached'
  <2>1. \A q \in Phones : Answering(q) => Answering(q)' /\ at'[q] = at[q]
    BY <1>21, <1>a DEF PushOffer, Pushes
  <2>2. UNCHANGED <<leg, stop, source, held, pumps>>
    BY <1>21 DEF PushOffer, Pushes
  <2>3. \A b \in Attempts : ReachSame(b)
    BY <1>21, <1>a DEF PushOffer, Pushes, ReachSame
  <2>4. replaced => replaced'
    BY <1>21 DEF PushOffer, Pushes
  <2> QED
    BY <1>a, <2>1, <2>2, <2>3, <2>4, ReachKept DEF AllReached
<1>22. ASSUME NEW h \in Handlers, EndSwap(h) PROVE AllReached'
  <2>1. /\ held[h] = Nothing
        /\ held'[h] = [leg |-> leg, stop |-> stop, source |-> source]
        /\ \A g \in Handlers \ {h} : held'[g] = held[g]
        /\ \A q \in Phones : Answering(q) => Answering(q)'
        /\ UNCHANGED <<replaced, at, legs, pumps, srcs>>
    BY <1>22, <1>a DEF EndSwap
  <2>2. ASSUME NEW a \in Attempts, ~replaced PROVE Reached(a)'
    <3>1. a # 0
      OBVIOUS
    <3>2. Making(a) => Making(a)'
      BY <2>1 DEF Making
    <3>3. /\ leg = a => held'[h].leg = a
          /\ stop = a => held'[h].stop = a
          /\ source = a => held'[h].source = a
      BY <2>1
    <3>4. \A g \in Handlers : /\ held[g].leg = a => held'[g].leg = a
                              /\ held[g].stop = a => held'[g].stop = a
                              /\ held[g].source = a => held'[g].source = a
      BY <2>1, <3>1 DEF Nothing
    <3>5. Reached(a) /\ UNCHANGED <<legs, pumps, srcs>>
      BY <1>a, <2>1, <2>2 DEF Reached, AllReached
    <3>6. legs[a] \in {"open", "failed"} => \E g \in Handlers : held'[g].leg = a
      BY <3>2, <3>3, <3>4, <3>5 DEF Reached
    <3>7. pumps[a] = "running" => \E g \in Handlers : held'[g].stop = a
      BY <3>3, <3>4, <3>5 DEF Reached
    <3>8. srcs[a] = "open" => Making(a)' \/ \E g \in Handlers : held'[g].source = a
      BY <3>2, <3>3, <3>4, <3>5 DEF Reached
    <3> QED
      BY <3>5, <3>6, <3>7, <3>8 DEF Reached
  <2> QED
    BY <2>1, <2>2 DEF AllReached
<1>23. ASSUME NEW h \in Handlers, EndClose(h) PROVE AllReached'
  <2>1. /\ pumps' = Closed(pumps, held[h].stop, "stopped")
        /\ legs' = Closed(legs, held[h].leg, "closed")
        /\ srcs' = Closed(srcs, held[h].source, "closed")
        /\ \A g \in Handlers \ {h} : held'[g] = held[g]
        /\ \A q \in Phones : Answering(q) => Answering(q)'
        /\ UNCHANGED <<replaced, leg, stop, source, at>>
    BY <1>23, <1>a, LegTaken DEF EndClose
  <2>2. ASSUME NEW a \in Attempts, ~replaced PROVE Reached(a)'
    <3>1. Making(a) => Making(a)'
      BY <2>1 DEF Making
    <3>2. legs'[a] \in {"open", "failed"} => legs[a] = legs'[a] /\ held[h].leg # a
      BY <1>a, <2>1 DEF Closed
    <3>3. pumps'[a] = "running" => pumps[a] = "running" /\ held[h].stop # a
      BY <1>a, <2>1 DEF Closed
    <3>4. srcs'[a] = "open" => srcs[a] = "open" /\ held[h].source # a
      BY <1>a, <2>1 DEF Closed
    <3>5. Reached(a)
      BY <1>a, <2>2 DEF Reached, AllReached
    <3>6. legs'[a] \in {"open", "failed"} => leg' = a \/ \E g \in Handlers : held'[g].leg = a
      BY <2>1, <3>1, <3>2, <3>5 DEF Reached
    <3>7. pumps'[a] = "running" => stop' = a \/ \E g \in Handlers : held'[g].stop = a
      BY <2>1, <3>3, <3>5 DEF Reached
    <3>8. srcs'[a] = "open" => source' = a \/ Making(a)' \/ \E g \in Handlers : held'[g].source = a
      BY <2>1, <3>1, <3>4, <3>5 DEF Reached
    <3> QED
      BY <3>6, <3>7, <3>8 DEF Reached
  <2> QED
    BY <2>1, <2>2 DEF AllReached
<1>24. ASSUME NEW a \in Attempts, LegFails(a) PROVE AllReached'
  <2>1. \A q \in Phones : Answering(q) => Answering(q)' /\ at'[q] = at[q]
    BY <1>24, <1>a DEF LegFails, Pushes
  <2>2. UNCHANGED <<leg, stop, source, held, pumps>>
    BY <1>24 DEF LegFails, Pushes
  <2>3. \A b \in Attempts : ReachSame(b)
    BY <1>24, <1>a DEF LegFails, Pushes, ReachSame
  <2>4. replaced => replaced'
    BY <1>24 DEF LegFails, Pushes
  <2> QED
    BY <1>a, <2>1, <2>2, <2>3, <2>4, ReachKept DEF AllReached
<1>25. ASSUME NEW a \in Attempts, ReportClosed(a) PROVE AllReached'
  <2>1. \A q \in Phones : Answering(q) => Answering(q)' /\ at'[q] = at[q]
    BY <1>25, <1>a DEF ReportClosed, Pushes
  <2>2. UNCHANGED <<leg, stop, source, held, pumps>>
    BY <1>25 DEF ReportClosed, Pushes
  <2>3. \A b \in Attempts : ReachSame(b)
    BY <1>25, <1>a DEF ReportClosed, Pushes, ReachSame
  <2>4. replaced => replaced'
    BY <1>25 DEF ReportClosed, Pushes
  <2> QED
    BY <1>a, <2>1, <2>2, <2>3, <2>4, ReachKept DEF AllReached
<1>26. CASE UNCHANGED vars
  <2>1. \A q \in Phones : Answering(q) => Answering(q)' /\ at'[q] = at[q]
    BY <1>26, <1>a DEF vars
  <2>2. UNCHANGED <<leg, stop, source, held, pumps>>
    BY <1>26 DEF vars
  <2>3. \A b \in Attempts : ReachSame(b)
    BY <1>26, <1>a DEF vars, ReachSame
  <2>4. replaced => replaced'
    BY <1>26 DEF vars
  <2> QED
    BY <1>a, <2>1, <2>2, <2>3, <2>4, ReachKept DEF AllReached
<1> QED
  BY <1>1, <1>2, <1>3, <1>4, <1>5, <1>6, <1>7, <1>8, <1>9, <1>10, <1>11, <1>12, <1>13, <1>14,
     <1>15, <1>16, <1>17, <1>18, <1>19, <1>20, <1>21, <1>22, <1>23, <1>24, <1>25, <1>26
  DEF Next, AnswerStep, TakeFrame, EndStep

-----------------------------------------------------------------------------
Leakless == IInv /\ HeldToClose /\ LaterUnmade /\ OneAnswer /\ AllReached

LEMMA InitLeakless == Init => Leakless
<1> SUFFICES ASSUME Init PROVE Leakless
  OBVIOUS
<1> USE DEF Init, Handlers, Attempts, OrNil, Nothing
<1>1. IInv
  BY InitIInv
<1>2. HeldToClose /\ LaterUnmade /\ OneAnswer
  BY DEF HeldToClose, LaterUnmade, OneAnswer, Answering
<1>3. AllReached
  BY DEF AllReached, Reached
<1> QED
  BY <1>1, <1>2, <1>3 DEF Leakless

\* For any number of phones and calls, waiting calls and hangups at any time: no
\* leg, pump or source is ever out of reach of endCall and of the handler that
\* works on it, unless an answer has been taken while another session stood
\* (NothingUnreachable of the run).
THEOREM NothingUnreachableInvariant == Spec => []NothingUnreachable
<1>1. Leakless /\ [Next]_vars => Leakless'
  <2> SUFFICES ASSUME Leakless, [Next]_vars PROVE Leakless'
    OBVIOUS
  <2>1. IInv /\ TypeOK /\ Around
    BY DEF Leakless, IInv, Around
  <2>2. IInv'
    BY <2>1, StepIInv
  <2>3. HeldToClose' /\ LaterUnmade'
    BY <2>1, HeldToCloseStep, LaterUnmadeStep DEF Around
  <2>4. OneAnswer' /\ AllReached'
    BY <2>1, OneAnswerStep, UnreachableStep DEF Leakless
  <2> QED
    BY <2>2, <2>3, <2>4 DEF Leakless
<1>2. Leakless => NothingUnreachable
  BY ReachIs DEF Leakless
<1> QED
  BY InitLeakless, <1>1, <1>2, PTL DEF Spec

-----------------------------------------------------------------------------
(* The line                                                                *)

\* What the active call is has rung.
HasRung == active # None => remote[active] # "new"

\* A call is the active one from the moment it rings, and rings once.
LEMMA HasRungStep == TypeOK /\ HasRung /\ [Next]_vars => HasRung'
<1> SUFFICES ASSUME TypeOK, HasRung, [Next]_vars PROVE HasRung'
  OBVIOUS
<1>a. remote \in [Calls -> {"new", "up", "over"}] /\ active \in CallOrNone /\ HasRung
        /\ on \in [Handlers -> CallOrNone]
  BY DEF TypeOK, PhoneOK, ManagerOK, JobsOK
<1> USE DEF Handlers, Attempts, OrNil, CallOrNone, manager, made, jobs, screens, Becomes, HasRung
<1>1. ASSUME NEW c \in Calls, NotifyIncoming(c) PROVE HasRung'
  BY <1>1, <1>a DEF NotifyIncoming, Rings
<1>2. ASSUME NEW c \in Calls, StartTestCall(c) PROVE HasRung'
  BY <1>2, <1>a DEF StartTestCall, Rings
<1>3. ASSUME NEW c \in Calls, FarEndHangsUp(c) PROVE HasRung'
  BY <1>3, <1>a DEF FarEndHangsUp
<1>4. CASE CheckEnded
  BY <1>4, <1>a DEF CheckEnded
<1>5. CASE ReportEnded
  BY <1>5, <1>a DEF ReportEnded, Pushes
<1>6. ASSUME NEW p \in Phones, PressAnswer(p) PROVE HasRung'
  BY <1>6, <1>a DEF PressAnswer
<1>7. ASSUME NEW p \in Phones, PressEnd(p) PROVE HasRung'
  BY <1>7, <1>a DEF PressEnd
<1>8. ASSUME NEW p \in Phones, HearPush(p) PROVE HasRung'
  BY <1>8, <1>a DEF HearPush
<1>9. ASSUME NEW p \in Phones, TakeAnswer(p) PROVE HasRung'
  BY <1>9, <1>a DEF TakeAnswer, Takes
<1>10. ASSUME NEW p \in Phones, TakeEnd(p) PROVE HasRung'
  BY <1>10, <1>a DEF TakeEnd, Takes
<1>11. ASSUME NEW p \in Phones, IgnoreFrame(p) PROVE HasRung'
  BY <1>11, <1>a DEF IgnoreFrame
<1>12. ASSUME NEW p \in Phones, BackendAnswers(p) PROVE HasRung'
  BY <1>12, <1>a DEF BackendAnswers
<1>13. ASSUME NEW p \in Phones, BackendRefuses(p) PROVE HasRung'
  BY <1>13, <1>a DEF BackendRefuses
<1>14. ASSUME NEW p \in Phones, LegCannotBeBuilt(p) PROVE HasRung'
  BY <1>14, <1>a DEF LegCannotBeBuilt
<1>15. ASSUME NEW p \in Phones, BuildLeg(p) PROVE HasRung'
  BY <1>15, <1>a DEF BuildLeg
<1>16. ASSUME NEW p \in Phones, StartLeg(p) PROVE HasRung'
  BY <1>16, <1>a DEF StartLeg
<1>17. ASSUME NEW p \in Phones, LegCannotStart(p) PROVE HasRung'
  BY <1>17, <1>a DEF LegCannotStart, Closes
<1>18. ASSUME NEW p \in Phones, Join(p) PROVE HasRung'
  BY <1>18, <1>a DEF Join
<1>19. ASSUME NEW p \in Phones, GivesUp(p) PROVE HasRung'
  BY <1>19, <1>a DEF GivesUp, Pushes
<1>20. ASSUME NEW p \in Phones, BackendDeclines(p) PROVE HasRung'
  BY <1>20, <1>a DEF BackendDeclines
<1>21. ASSUME NEW h \in Handlers, PushOffer(h) PROVE HasRung'
  BY <1>21, <1>a DEF PushOffer, Pushes
<1>22. ASSUME NEW h \in Handlers, EndSwap(h) PROVE HasRung'
  BY <1>22, <1>a DEF EndSwap
<1>23. ASSUME NEW h \in Handlers, EndClose(h) PROVE HasRung'
  BY <1>23, <1>a DEF EndClose, Closed, Closes
<1>24. ASSUME NEW a \in Attempts, LegFails(a) PROVE HasRung'
  BY <1>24, <1>a DEF LegFails, Pushes
<1>25. ASSUME NEW a \in Attempts, ReportClosed(a) PROVE HasRung'
  BY <1>25, <1>a DEF ReportClosed, Pushes
<1>26. CASE UNCHANGED vars
  BY <1>26, <1>a DEF vars
<1> QED
  BY <1>1, <1>2, <1>3, <1>4, <1>5, <1>6, <1>7, <1>8, <1>9, <1>10, <1>11, <1>12, <1>13, <1>14,
     <1>15, <1>16, <1>17, <1>18, <1>19, <1>20, <1>21, <1>22, <1>23, <1>24, <1>25, <1>26
  DEF Next, AnswerStep, TakeFrame, EndStep

\* A step of the handlers is a step of the line, or none.
LEMMA LineStep ==
  ASSUME ~CallWaiting, IInv, HasRung, [Next]_vars
  PROVE  [Line!Next]_<<lineState, active>>
<1>1. ASSUME NEW c \in Calls, NEW h \in Handlers, Rings(h, c) PROVE [Line!Next]_<<lineState, active>>
  <2>1. stop = 0 /\ active' = c /\ remote[c] = "new"
    BY <1>1 DEF Rings, MayRing
  <2>2. stop' = 0
    BY <1>1, <2>1 DEF Rings
  <2>3. c # active /\ c # None
    BY <2>1 DEF HasRung
  <2>4. lineState # "busy" /\ lineState' = "ringing"
    BY <2>1, <2>2, <2>3 DEF lineState
  <2>5. Line!Ring(c)
    BY <2>1, <2>3, <2>4 DEF Line!Ring
  <2> QED
    BY <2>5 DEF Line!Next
<1>2. ASSUME NEW p \in Phones, Join(p) PROVE [Line!Next]_<<lineState, active>>
  <2>1. active' = active /\ stop' = at[p] /\ pc[p] = "join"
    BY <1>2 DEF Join
  <2>2. at[p] # 0
    BY <2>1 DEF IInv, Fresh, AtFresh, Answering
  <2>3. lineState' = lineState \/ (lineState = "ringing" /\ lineState' = "busy")
    BY <2>1, <2>2 DEF lineState
  <2> QED
    BY <2>1, <2>3 DEF Line!Next, Line!Answer
<1>3. ASSUME NEW h \in Handlers, EndSwap(h) PROVE [Line!Next]_<<lineState, active>>
  <2>1. active' = None /\ stop' = 0
    BY <1>3 DEF EndSwap
  <2>2. CASE active = None
    BY <2>1, <2>2 DEF lineState
  <2>3. CASE active # None
    BY <2>1, <2>3 DEF lineState, Line!Next, Line!Release
  <2> QED
    BY <2>2, <2>3
<1>4. ASSUME UNCHANGED <<active, stop>> PROVE [Line!Next]_<<lineState, active>>
  BY <1>4 DEF lineState
<1>5. ASSUME NEW c \in Calls, NotifyIncoming(c) \/ StartTestCall(c) \/ FarEndHangsUp(c)
      PROVE  [Line!Next]_<<lineState, active>>
  <2>1. Rings(WA, c) \/ Rings(Debug, c) \/ UNCHANGED <<active, stop>>
    BY <1>5 DEF NotifyIncoming, StartTestCall, FarEndHangsUp, manager
  <2> QED
    BY <1>1, <1>4, <2>1 DEF Handlers
<1>6. ASSUME CheckEnded \/ ReportEnded PROVE [Line!Next]_<<lineState, active>>
  <2>1. UNCHANGED <<active, stop>>
    BY <1>6 DEF CheckEnded, ReportEnded, manager
  <2> QED
    BY <1>4, <2>1
<1>7. ASSUME NEW p \in Phones,
             \/ PressAnswer(p) \/ PressEnd(p) \/ HearPush(p)
             \/ TakeFrame(p) \/ AnswerStep(p) \/ BackendDeclines(p)
      PROVE  [Line!Next]_<<lineState, active>>
  <2>1. Join(p) \/ UNCHANGED <<active, stop>>
    BY <1>7 DEF PressAnswer, PressEnd, HearPush, TakeFrame, TakeAnswer, TakeEnd, IgnoreFrame, AnswerStep,
       BackendAnswers, BackendRefuses, BuildLeg, LegCannotBeBuilt, StartLeg, LegCannotStart,
       GivesUp, BackendDeclines, manager
  <2> QED
    BY <1>2, <1>4, <2>1
<1>8. ASSUME NEW h \in Handlers, PushOffer(h) \/ EndStep(h) PROVE [Line!Next]_<<lineState, active>>
  <2>1. EndSwap(h) \/ UNCHANGED <<active, stop>>
    BY <1>8 DEF PushOffer, EndStep, EndClose, manager
  <2> QED
    BY <1>3, <1>4, <2>1
<1>9. ASSUME NEW a \in Attempts, LegFails(a) \/ ReportClosed(a) PROVE [Line!Next]_<<lineState, active>>
  <2>1. UNCHANGED <<active, stop>>
    BY <1>9 DEF LegFails, ReportClosed, manager
  <2> QED
    BY <1>4, <2>1
<1>10. ASSUME UNCHANGED vars PROVE [Line!Next]_<<lineState, active>>
  <2>1. UNCHANGED <<active, stop>>
    BY <1>10 DEF vars, manager
  <2> QED
    BY <1>4, <2>1
<1> QED
  BY <1>5, <1>6, <1>7, <1>8, <1>9, <1>10 DEF Next

\* Without a second call the call manager is one line (LineSpec of the run): for
\* any number of phones, whatever races, a call rings only on a line that is not
\* busy, is answered while it rings, and never comes back to the line it left.
THEOREM LineRefinement ==
  ASSUME ~CallWaiting
  PROVE  Spec => LineSpec
<1>1. Init => Line!Init
  BY DEF Init, lineState, Line!Init
<1>2. Init => IInv /\ HasRung
  BY InitIInv DEF Init, HasRung
<1>3. IInv /\ HasRung /\ [Next]_vars => (IInv /\ HasRung)'
  BY StepIInv, HasRungStep DEF IInv
<1>4. IInv /\ HasRung /\ [Next]_vars => [Line!Next]_<<lineState, active>>
  BY LineStep
<1> QED
  BY <1>1, <1>2, <1>3, <1>4, PTL DEF Spec, LineSpec, Line!Spec
=============================================================================
