--------------------------- MODULE SignallingProofs ---------------------------
(***************************************************************************)
(* Theorems about Signalling, for any number of calls and of candidates:   *)
(* while nothing goes out of order the sessions of two calls never mix,    *)
(* and no candidate of the call the user is in is lost.                    *)
(*                                                                         *)
(* What belongs to a call travels in a circle: its ring to the phone, the  *)
(* answer key to the daemon, the offer to the phone, the answer to the     *)
(* daemon's leg.  On each stretch the calls come in the order in which     *)
(* they rang (RingsSorted, KeysSorted), and none overtakes on the way: a   *)
(* key is ahead of every ring behind it, and offers, the phone's           *)
(* connection and the answers are those of the call that is being answered *)
(* (KeysApart, ScreenIsLast, LegsApart).                                   *)
(***************************************************************************)
EXTENDS Signalling, TLAPS

Ups == [kind : {"callanswer", "reject", "hangup", "answer"}, call : OrNone, of : OrNone]
Downs == [kind : {"ring", "offer", "ice", "connected", "ended"}, call : Calls, n : 0..MaxIce]
Reportable == [kind : {"connected", "ended"}, call : Calls]

\* Candidates count from one.
Numbered ==
  /\ \A c \in emitting : gathered[c] # 0
  /\ \A i \in 1..Len(down) : down[i].kind = "ice" => down[i].n # 0

TypeInv ==
  /\ far \in [Calls -> {"new", "up", "over"}]
  /\ active \in OrNone /\ leg \in OrNone /\ screen \in OrNone /\ callID \in OrNone
  /\ pc \in OrNone /\ localStream \in OrNone /\ on \in OrNone
  /\ legs \in [Calls -> {"none", "open", "failed", "closed"}]
  /\ pcs \in [Calls -> {"none", "open", "closed"}]
  /\ answered \in [Calls -> OrNone] /\ described \in [Calls -> OrNone] /\ target \in [Calls -> OrNone]
  /\ step \in {"idle", "backend", "start", "offer"}
  /\ gathered \in [Calls -> 0..MaxIce]
  /\ emitting \in SUBSET Calls /\ linked \in SUBSET Calls
  /\ mics \in SUBSET Calls /\ denied \in SUBSET Calls
  /\ reports \in SUBSET Reportable
  /\ up \in Seq(Ups) /\ down \in Seq(Downs)
  /\ inCall \in BOOLEAN /\ status \in BOOLEAN /\ haveRemote \in BOOLEAN /\ calm \in BOOLEAN
  /\ pending \in SUBSET Candidates /\ cands \in [Calls -> SUBSET Candidates]
  /\ chain \in [Calls -> {"none", "mic", "remote", "answer", "done", "over"}]
  /\ Numbered

-----------------------------------------------------------------------------
(* The calls, in the order in which they ring                              *)

Rung(c) == far[c] # "new"

\* One call is up at a time, the last that rang.
OneCall ==
  /\ \A c \in Calls : far[c] = "up" <=> c = active
  /\ \A c, d \in Calls : c < d /\ Rung(d) => far[c] = "over"

\* The daemon is at work on a call, or idle.
AtWork == step = "idle" <=> on = None

\* The leg and the answer under way are the active call's.
Working == leg \in {None, active} /\ on \in {None, active}

-----------------------------------------------------------------------------
(* The phone's half                                                        *)

InCall == inCall => screen # None /\ callID = screen

\* There is one connection, of the session's call, and the chain works on it.
Session ==
  /\ pc \in {None, callID}
  /\ \A c \in Calls : pcs[c] = "open" => c = pc
  /\ \A k \in pending : k.call = callID
  /\ \A c \in Calls : chain[c] = "mic" => c = pc
  /\ \A c \in Calls : target[c] \in {None, c}
  /\ \A c \in Calls : chain[c] = "answer" => described[c] = c

Matched ==
  /\ \A c \in Calls : described[c] \in {None, c}
  /\ \A c \in Calls : answered[c] \in {None, c}
  /\ \A c \in Calls : \A k \in cands[c] : k.call = c

-----------------------------------------------------------------------------
(* What is under way                                                       *)

\* A frame that is on its way, and one that is ahead of another.
In(m, s) == \E i \in 1..Len(s) : s[i] = m
Ahead(m, n, s) == \E i, j \in 1..Len(s) : i < j /\ s[i] = m /\ s[j] = n

Ring(m) == m.kind = "ring"
Offer(m) == m.kind = "offer"
Key(m) == m.kind = "callanswer"
Answer(m) == m.kind = "answer"

\* Rings come in order, and an offer is never behind one.
RingsSorted ==
  \A m, n \in Downs : Ahead(m, n, down) /\ Ring(m) => ~Offer(n) /\ (Ring(n) => m.call < n.call)

\* A ring on the way is of a call after the one on the screen, and nothing is
\* being answered.
RingsNew ==
  \A m \in Downs : In(m, down) /\ Ring(m) =>
    Rung(m.call) /\ screen < m.call /\ on = None /\ leg = None

\* The answer keys on the way come in order, and an answer behind one is of the
\* same call.
KeysSorted ==
  \A m, n \in Ups : Ahead(m, n, up) /\ Key(m) =>
    (Key(n) => m.call <= n.call) /\ (Answer(n) => n.of = m.call)

KeysRung ==
  \A m \in Ups : In(m, up) /\ Key(m) =>
    m.call \in Calls /\ Rung(m.call) /\ (screen # None => m.call <= screen)

\* A call whose answer key is on its way rang before the rings that are.
KeysBefore ==
  \A m \in Ups, n \in Downs : In(m, up) /\ Key(m) /\ In(n, down) /\ Ring(n) => m.call < n.call

\* No call but this one has a connection or an offer on the way.
Holds(c) == pc \in {None, c} /\ \A m \in Downs : In(m, down) /\ Offer(m) => m.call = c
\* The daemon works on no call but this one.
Answers(c) == leg \in {None, c} /\ on \in {None, c}
\* An answer key on its way is of the only call there is.
KeysApart == \A m \in Ups : In(m, up) /\ Key(m) => Holds(m.call) /\ Answers(m.call)

\* The call on the screen is the last the daemon can be answering.
ScreenIsLast ==
  screen # None =>
    /\ Rung(screen) /\ Answers(screen)
    /\ \A m \in Downs : In(m, down) /\ Offer(m) => m.call = screen

\* While a call is answered, or has a leg, offers, connection and answers are of
\* that call.
LegsApart ==
  \A c \in {on, leg} \ {None} : Holds(c) /\ \A m \in Ups : In(m, up) /\ Answer(m) => m.of = c

-----------------------------------------------------------------------------
(* Candidates                                                              *)

\* A call without a leg has no candidates and no media.
Unused ==
  /\ \A c \in Calls : legs[c] = "none" => gathered[c] = 0 /\ c \notin linked
  /\ leg # None => legs[leg] # "none"

\* A call that can still be answered has no leg.
Fresh ==
  /\ \A c \in Calls : ~Rung(c) => legs[c] = "none"
  /\ \A m \in Downs : In(m, down) /\ Ring(m) => legs[m.call] = "none"
  /\ screen # None /\ ~inCall =>
       /\ legs[screen] = "none" /\ on = None
       /\ \A m \in Ups : In(m, up) /\ Key(m) => m.call < screen

Ice(c, n) == [kind |-> "ice", call |-> c, n |-> n]
Underway(c, n) == (c \in emitting /\ gathered[c] = n) \/ In(Ice(c, n), down)
NoneLost ==
  inCall => \A n \in 1..gathered[screen] :
    Underway(screen, n) \/ [call |-> screen, n |-> n] \in cands[screen] \cup pending

Order ==
  /\ RingsSorted /\ RingsNew /\ KeysSorted /\ KeysRung /\ KeysBefore
  /\ KeysApart /\ ScreenIsLast /\ LegsApart
Calm == Working /\ Session /\ Matched /\ Order /\ Fresh /\ NoneLost

IInv == TypeInv /\ OneCall /\ AtWork /\ InCall /\ Unused /\ (calm => Calm)

-----------------------------------------------------------------------------
(* Sequences                                                               *)

\* A sequence without its first element.
LEMMA TailFacts ==
  ASSUME NEW T, NEW s \in Seq(T), s # <<>>
  PROVE  /\ Head(s) \in T /\ Tail(s) \in Seq(T)
         /\ Len(s) \in Nat /\ 1 \in 1..Len(s) /\ Head(s) = s[1] /\ Len(Tail(s)) = Len(s) - 1
         /\ \A i \in 1..Len(Tail(s)) : i + 1 \in 1..Len(s) /\ Tail(s)[i] = s[i + 1]
         /\ \A i \in 1..Len(s) : i # 1 => i - 1 \in 1..Len(Tail(s)) /\ s[i] = Tail(s)[i - 1]
OBVIOUS

\* A sequence with an element more.
LEMMA AppendFacts ==
  ASSUME NEW T, NEW s \in Seq(T), NEW m \in T
  PROVE  /\ Append(s, m) \in Seq(T)
         /\ Len(s) \in Nat /\ Len(Append(s, m)) = Len(s) + 1 /\ Append(s, m)[Len(s) + 1] = m
         /\ \A i \in 1..Len(s) : i \in 1..Len(Append(s, m)) /\ Append(s, m)[i] = s[i]
         /\ \A i \in 1..Len(Append(s, m)) : i = Len(s) + 1 \/ (i \in 1..Len(s) /\ Append(s, m)[i] = s[i])
OBVIOUS


\* What is in a sequence without its first element.
LEMMA TailIn ==
  ASSUME NEW T, NEW s \in Seq(T), s # <<>>
  PROVE  /\ Head(s) \in T /\ In(Head(s), s)
         /\ \A m : In(m, s) <=> m = Head(s) \/ In(m, Tail(s))
         /\ \A m : In(m, Tail(s)) => Ahead(Head(s), m, s)
         /\ \A m, n : Ahead(m, n, Tail(s)) => Ahead(m, n, s)
<1>0. /\ Head(s) \in T /\ Tail(s) \in Seq(T)
      /\ Len(s) \in Nat /\ 1 \in 1..Len(s) /\ Head(s) = s[1] /\ Len(Tail(s)) = Len(s) - 1
      /\ \A i \in 1..Len(Tail(s)) : i + 1 \in 1..Len(s) /\ Tail(s)[i] = s[i + 1]
      /\ \A i \in 1..Len(s) : i # 1 => i - 1 \in 1..Len(Tail(s)) /\ s[i] = Tail(s)[i - 1]
  BY TailFacts
<1> DEFINE t == Tail(s)
<1> HIDE DEF t
<1>1. \A m : In(m, s) => m = Head(s) \/ In(m, t)
  BY <1>0 DEF In, t
<1>2. In(Head(s), s) /\ \A m : In(m, t) => In(m, s)
  BY <1>0 DEF In, t
<1>3. \A m : In(m, t) => Ahead(Head(s), m, s)
  <2>1. SUFFICES ASSUME NEW i \in 1..Len(t)
                 PROVE  Ahead(Head(s), t[i], s)
    BY DEF In
  <2>2. i + 1 \in 1..Len(s) /\ 1 < i + 1 /\ s[i + 1] = t[i]
    BY <1>0 DEF t
  <2> QED BY <1>0, <2>2 DEF Ahead
<1>4. \A m, n : Ahead(m, n, t) => Ahead(m, n, s)
  <2>1. SUFFICES ASSUME NEW m, NEW n, Ahead(m, n, t)
                 PROVE  Ahead(m, n, s)
    OBVIOUS
  <2>2. PICK i \in 1..Len(t), j \in 1..Len(t) : i < j /\ t[i] = m /\ t[j] = n
    BY <2>1 DEF Ahead
  <2>3. /\ i + 1 \in 1..Len(s) /\ s[i + 1] = m
        /\ j + 1 \in 1..Len(s) /\ s[j + 1] = n /\ i + 1 < j + 1
    BY <1>0, <2>2 DEF t
  <2> QED BY <2>3 DEF Ahead
<1> QED BY <1>0, <1>1, <1>2, <1>3, <1>4 DEF t

\* What is in a sequence with an element more.
LEMMA AppendIn ==
  ASSUME NEW T, NEW s \in Seq(T), NEW x \in T
  PROVE  /\ \A m : In(m, Append(s, x)) <=> In(m, s) \/ m = x
         /\ \A m, n : Ahead(m, n, Append(s, x)) => Ahead(m, n, s) \/ (In(m, s) /\ n = x)
<1> DEFINE t == Append(s, x)
<1>0. /\ Len(s) \in Nat /\ Len(t) = Len(s) + 1 /\ t[Len(s) + 1] = x
      /\ \A i \in 1..Len(s) : i \in 1..Len(t) /\ t[i] = s[i]
      /\ \A i \in 1..Len(t) : i = Len(s) + 1 \/ (i \in 1..Len(s) /\ t[i] = s[i])
  BY AppendFacts
<1> HIDE DEF t
<1>1. \A m : In(m, t) <=> In(m, s) \/ m = x
  <2>1. Len(s) + 1 \in 1..Len(t)
    BY <1>0
  <2> QED BY <1>0, <2>1 DEF In
<1>2. \A m, n : Ahead(m, n, t) => Ahead(m, n, s) \/ (In(m, s) /\ n = x)
  <2>1. SUFFICES ASSUME NEW i \in 1..Len(t), NEW j \in 1..Len(t), i < j
                 PROVE  Ahead(t[i], t[j], s) \/ (In(t[i], s) /\ t[j] = x)
    BY DEF Ahead
  <2>2. i \in 1..Len(s) /\ t[i] = s[i]
    BY <1>0, <2>1
  <2>3. CASE j = Len(s) + 1
    BY <1>0, <2>2, <2>3 DEF In
  <2>4. CASE j # Len(s) + 1
    BY <1>0, <2>1, <2>2, <2>4 DEF Ahead
  <2> QED BY <2>3, <2>4
<1> QED BY <1>1, <1>2 DEF t
-----------------------------------------------------------------------------
(* What the actions do to what they share                                  *)

DaemonSide ==
  \/ DaemonStep
  \/ \E c \in Calls : Rings(c) \/ FarEndHangsUp(c) \/ Drops(c) \/ Gather(c) \/ EmitCandidate(c) \/ Connects(c)
  \/ \E r \in reports : Reports(r)
PhoneSide == Hear \/ AnswerCall \/ EndKey \/ \E c \in Calls : Chain(c)

\* The daemon leaves the phone's state alone, and the phone the daemon's.
LEMMA Sides ==
  /\ Next <=> DaemonSide \/ PhoneSide
  /\ DaemonSide => UNCHANGED <<ui, session, engine>>
  /\ PhoneSide => UNCHANGED <<daemon, pion>>
<1>1. Next <=> DaemonSide \/ PhoneSide
  BY Zenon DEF Next, DaemonSide, PhoneSide
<1>2. DaemonStep => UNCHANGED <<ui, session, engine>>
  BY Zenon DEF DaemonStep, TakeAnswer, AnswerFails, StartPhoneLeg, EmitLooks, EmitOffer, HandleSignal, TakeEnd
<1>3. ASSUME NEW c \in Calls,
             Rings(c) \/ FarEndHangsUp(c) \/ Drops(c) \/ Gather(c) \/ EmitCandidate(c) \/ Connects(c)
      PROVE  UNCHANGED <<ui, session, engine>>
  BY <1>3, Zenon DEF Rings, FarEndHangsUp, Drops, Gather, EmitCandidate, Connects
<1>4. \A r \in reports : Reports(r) => UNCHANGED <<ui, session, engine>>
  BY Zenon DEF Reports
<1>5. Hear => UNCHANGED <<daemon, pion>>
  BY Zenon DEF Hear, HearOffer, HearIce, HearRing, HearConnected, HearEnded
<1>6. AnswerCall \/ EndKey => UNCHANGED <<daemon, pion>>
  BY Zenon DEF AnswerCall, EndKey
<1>7. \A c \in Calls : Chain(c) => UNCHANGED <<daemon, pion>>
  BY Zenon DEF Chain, MicGranted, MicRefused, RemoteIsSet, AnswerIsSent
<1>8. DaemonSide => UNCHANGED <<ui, session, engine>>
  BY <1>2, <1>3, <1>4, Zenon DEF DaemonSide
<1>9. PhoneSide => UNCHANGED <<daemon, pion>>
  BY <1>5, <1>6, <1>7, Zenon DEF PhoneSide
<1> QED BY <1>1, <1>8, <1>9

\* Frames to the daemon are taken from the front.
LEMMA UpTaken ==
  TakeAnswer \/ HandleSignal \/ TakeEnd => up # <<>> /\ up' = Tail(up)
BY Zenon DEF TakeAnswer, HandleSignal, TakeEnd, Takes

\* And are sent by the keys and by the chain.
LEMMA UpSent ==
  /\ AnswerCall => up' = Append(up, [kind |-> "callanswer", call |-> screen, of |-> None])
  /\ EndKey => \E kind \in {"hangup", "reject"} : up' = Append(up, [kind |-> kind, call |-> screen, of |-> None])
  /\ \A c : AnswerIsSent(c) =>
       up' = Append(up, [kind |-> "answer", call |-> callID, of |-> described[target[c]]])
<1>1. AnswerCall => up' = Append(up, [kind |-> "callanswer", call |-> screen, of |-> None])
  BY Zenon DEF AnswerCall, Sends
<1>2. EndKey => \E kind \in {"hangup", "reject"} : up' = Append(up, [kind |-> kind, call |-> screen, of |-> None])
  BY DEF EndKey, Sends
<1>3. \A c : AnswerIsSent(c) =>
        up' = Append(up, [kind |-> "answer", call |-> callID, of |-> described[target[c]]])
  BY Zenon DEF AnswerIsSent
<1> QED BY <1>1, <1>2, <1>3

\* Nobody else takes or sends one.
LEMMA UpAlone ==
  ASSUME Next
  PROVE  \/ TakeAnswer \/ HandleSignal \/ TakeEnd \/ AnswerCall \/ EndKey
         \/ \E c \in Calls : AnswerIsSent(c)
         \/ up' = up
<1>1. DaemonStep => TakeAnswer \/ HandleSignal \/ TakeEnd \/ up' = up
  BY Zenon DEF DaemonStep, AnswerFails, StartPhoneLeg, EmitLooks, EmitOffer
<1>2. \A c \in Calls : Rings(c) \/ FarEndHangsUp(c) \/ Drops(c) \/ Gather(c) \/ EmitCandidate(c) \/ Connects(c) => up' = up
  BY Zenon DEF Rings, FarEndHangsUp, Drops, Gather, EmitCandidate, Connects
<1>3. \A r \in reports : Reports(r) => up' = up
  BY Zenon DEF Reports
<1>4. Hear => up' = up
  BY Zenon DEF Hear, HearOffer, HearIce, HearRing, HearConnected, HearEnded
<1>5. \A c \in Calls : Chain(c) => AnswerIsSent(c) \/ up' = up
  BY Zenon DEF Chain, MicGranted, MicRefused, RemoteIsSet
<1> QED BY <1>1, <1>2, <1>3, <1>4, <1>5, Zenon DEF Next

\* Frames to the phone that neither ring, nor offer anything.
Neither(m) == m.kind \in {"connected", "ended"}

\* Who sends to the phone, and who hears.
LEMMA DownSent ==
  ASSUME TypeInv
  PROVE  /\ \A c \in Calls : Rings(c) => down' = Append(down, Frame("ring", c)) /\ Frame("ring", c) \in Downs
         /\ EmitOffer => down' = Append(down, Frame("offer", on))
         /\ \A c \in Calls : FarEndHangsUp(c) => \E m \in Downs : down' = Append(down, m) /\ Neither(m)
         /\ AnswerFails => down' = Append(down, Frame("ended", on))
         /\ \A c \in Calls : EmitCandidate(c) =>
              down' = Append(down, [kind |-> "ice", call |-> c, n |-> gathered[c]])
              /\ [kind |-> "ice", call |-> c, n |-> gathered[c]] \in Downs
         /\ \A r \in reports : Reports(r) => \E m \in Downs : down' = Append(down, m) /\ Neither(m)
         /\ Hear => down # <<>> /\ down' = Tail(down)
<1>0. 0 \in 0..MaxIce
  BY BoundAssumption
<1>a. \A c \in Calls, kind \in {"ring", "offer", "connected", "ended"} : Frame(kind, c) \in Downs
  BY <1>0 DEF Frame, Downs
<1>1. \A c \in Calls : Rings(c) => down' = Append(down, Frame("ring", c)) /\ Frame("ring", c) \in Downs
  BY <1>a DEF Rings, Pushes
<1>2. EmitOffer => down' = Append(down, Frame("offer", on))
  BY Zenon DEF EmitOffer, Pushes
<1>3. \A c \in Calls : FarEndHangsUp(c) => \E m \in Downs : down' = Append(down, m) /\ Neither(m)
  <2>1. SUFFICES ASSUME NEW c \in Calls, FarEndHangsUp(c)
                 PROVE  \E m \in Downs : down' = Append(down, m) /\ Neither(m)
    OBVIOUS
  <2>2. down' = Append(down, Frame("ended", c)) /\ Frame("ended", c) \in Downs /\ Neither(Frame("ended", c))
    BY <1>a, <2>1 DEF FarEndHangsUp, Pushes, Neither, Frame
  <2> QED BY <2>2
<1>4. AnswerFails => down' = Append(down, Frame("ended", on))
  BY Zenon DEF AnswerFails, Pushes
<1>5. \A c \in Calls : EmitCandidate(c) =>
        down' = Append(down, [kind |-> "ice", call |-> c, n |-> gathered[c]])
        /\ [kind |-> "ice", call |-> c, n |-> gathered[c]] \in Downs
  BY DEF EmitCandidate, Downs, TypeInv
<1>6. \A r \in reports : Reports(r) => \E m \in Downs : down' = Append(down, m) /\ Neither(m)
  <2>1. SUFFICES ASSUME NEW r \in reports, Reports(r)
                 PROVE  \E m \in Downs : down' = Append(down, m) /\ Neither(m)
    OBVIOUS
  <2>2. r.kind \in {"connected", "ended"} /\ r.call \in Calls
    BY DEF TypeInv, Reportable
  <2>3. down' = Append(down, Frame(r.kind, r.call)) /\ Frame(r.kind, r.call) \in Downs /\ Neither(Frame(r.kind, r.call))
    BY <1>a, <2>1, <2>2 DEF Reports, Pushes, Neither, Frame
  <2> QED BY <2>3
<1>7. Hear => down # <<>> /\ down' = Tail(down)
  BY Zenon DEF Hear, HearOffer, HearIce, HearRing, HearConnected, HearEnded, Hears
<1> QED BY <1>1, <1>2, <1>3, <1>4, <1>5, <1>6, <1>7

\* Nobody else sends or hears one.
LEMMA DownAlone ==
  ASSUME Next
  PROVE  \/ EmitOffer \/ AnswerFails \/ Hear
         \/ \E c \in Calls : Rings(c) \/ FarEndHangsUp(c) \/ EmitCandidate(c)
         \/ \E r \in reports : Reports(r)
         \/ down' = down
<1>1. DaemonStep => EmitOffer \/ AnswerFails \/ down' = down
  BY Zenon DEF DaemonStep, TakeAnswer, StartPhoneLeg, EmitLooks, HandleSignal, TakeEnd
<1>2. \A c \in Calls : Drops(c) \/ Gather(c) \/ Connects(c) => down' = down
  BY Zenon DEF Drops, Gather, Connects
<1>3. AnswerCall \/ EndKey => down' = down
  BY Zenon DEF AnswerCall, EndKey
<1>4. \A c \in Calls : Chain(c) => down' = down
  BY Zenon DEF Chain, MicGranted, MicRefused, RemoteIsSet, AnswerIsSent
<1> QED BY <1>1, <1>2, <1>3, <1>4, Zenon DEF Next

\* The daemon's state: who changes the calls, the leg and the answer under way.
LEMMA WorkAlone ==
  ASSUME Next
  PROVE  \/ TakeAnswer \/ AnswerFails \/ StartPhoneLeg \/ EmitLooks \/ EmitOffer \/ TakeEnd
         \/ \E c \in Calls : Rings(c) \/ FarEndHangsUp(c)
         \/ UNCHANGED <<far, active, leg, step, on>>
<1>1. HandleSignal => UNCHANGED <<far, active, leg, step, on>>
  BY Zenon DEF HandleSignal
<1>2. \A c \in Calls : Drops(c) \/ Gather(c) \/ EmitCandidate(c) \/ Connects(c) => UNCHANGED <<far, active, leg, step, on>>
  BY Zenon DEF Drops, Gather, EmitCandidate, Connects, daemon
<1>3. \A r \in reports : Reports(r) => UNCHANGED <<far, active, leg, step, on>>
  BY Zenon DEF Reports, daemon
<1>4. PhoneSide => UNCHANGED <<far, active, leg, step, on>>
  BY Sides, Zenon DEF daemon
<1> QED BY <1>1, <1>2, <1>3, <1>4, Sides, Zenon DEF DaemonSide, DaemonStep

\* Who gathers candidates, and who sends them.
LEMMA EmitAlone ==
  ASSUME Next
  PROVE  (\E c \in Calls : Gather(c) \/ EmitCandidate(c)) \/ UNCHANGED <<gathered, emitting>>
<1>1. DaemonStep => UNCHANGED <<gathered, emitting>>
  BY Zenon DEF DaemonStep, TakeAnswer, AnswerFails, StartPhoneLeg, EmitLooks, EmitOffer, HandleSignal, TakeEnd, pion
<1>2. \A c \in Calls : Rings(c) \/ FarEndHangsUp(c) \/ Drops(c) \/ Connects(c) => UNCHANGED <<gathered, emitting>>
  BY Zenon DEF Rings, FarEndHangsUp, Drops, Connects, pion
<1>3. \A r \in reports : Reports(r) => UNCHANGED <<gathered, emitting>>
  BY Zenon DEF Reports
<1>4. PhoneSide => UNCHANGED <<gathered, emitting>>
  BY Sides, Zenon DEF pion
<1> QED BY <1>1, <1>2, <1>3, <1>4, Sides, Zenon DEF DaemonSide

\* It stays calm only if it was.
LEMMA CalmBefore ==
  ASSUME Next, calm'
  PROVE  calm
<1>1. DaemonStep => calm
  BY Zenon DEF DaemonStep, TakeAnswer, AnswerFails, StartPhoneLeg, EmitLooks, EmitOffer, HandleSignal, TakeEnd, NotCalm
<1>2. \A c \in Calls : Rings(c) \/ FarEndHangsUp(c) \/ Drops(c) \/ Gather(c) \/ EmitCandidate(c) \/ Connects(c) => calm
  BY Zenon DEF Rings, FarEndHangsUp, Drops, Gather, EmitCandidate, Connects, NotCalm
<1>3. \A r \in reports : Reports(r) => calm
  BY Zenon DEF Reports
<1>4. Hear => calm
  BY Zenon DEF Hear, HearOffer, HearIce, HearRing, HearConnected, HearEnded, NotCalm
<1>5. AnswerCall \/ EndKey => calm
  BY Zenon DEF AnswerCall, EndKey, NotCalm
<1>6. \A c \in Calls : Chain(c) => calm
  BY Zenon DEF Chain, MicGranted, MicRefused, RemoteIsSet, AnswerIsSent
<1> QED BY <1>1, <1>2, <1>3, <1>4, <1>5, <1>6, Zenon DEF Next

-----------------------------------------------------------------------------
(* Types                                                                   *)

\* What the proofs say of the types is the type invariant.
LEMMA TypeOKIs == TypeInv => TypeOK
BY DEF TypeInv, TypeOK, Ups, Downs, Reportable

\* The frames of both directions.
LEMMA FrameTypes ==
  ASSUME TypeInv, step # "idle" => on \in Calls, Next
  PROVE  up' \in Seq(Ups) /\ down' \in Seq(Downs) /\ Numbered'
<1>0. up \in Seq(Ups) /\ down \in Seq(Downs)
  BY DEF TypeInv
<1>1. up' \in Seq(Ups)
  <2>1. TakeAnswer \/ HandleSignal \/ TakeEnd => up' \in Seq(Ups)
    BY <1>0, UpTaken, TailFacts
  <2>2. \A m \in Ups : up' = Append(up, m) => up' \in Seq(Ups)
    BY <1>0, AppendFacts
  <2>3. AnswerCall => up' \in Seq(Ups)
    <3>1. [kind |-> "callanswer", call |-> screen, of |-> None] \in Ups
      BY DEF TypeInv, Ups, OrNone
    <3> QED BY <2>2, <3>1, UpSent
  <2>4. EndKey => up' \in Seq(Ups)
    <3>1. \A kind \in {"hangup", "reject"} : [kind |-> kind, call |-> screen, of |-> None] \in Ups
      BY DEF TypeInv, Ups, OrNone
    <3> QED BY <2>2, <3>1, UpSent
  <2>5. ASSUME NEW c \in Calls, AnswerIsSent(c)
        PROVE  up' \in Seq(Ups)
    <3>1. target[c] \in Calls
      BY <2>5 DEF AnswerIsSent, Open, TypeInv, OrNone
    <3>2. [kind |-> "answer", call |-> callID, of |-> described[target[c]]] \in Ups
      BY <3>1 DEF TypeInv, Ups
    <3> QED BY <2>2, <2>5, <3>2, UpSent
  <2> QED BY <1>0, <2>1, <2>3, <2>4, <2>5, UpAlone
<1>2. down' \in Seq(Downs)
  <2>1. \A m \in Downs : down' = Append(down, m) => down' \in Seq(Downs)
    BY <1>0, AppendFacts
  <2>2. Hear => down' \in Seq(Downs)
    BY <1>0, DownSent, TailFacts
  <2>3. EmitOffer \/ AnswerFails => down' \in Seq(Downs)
    <3>1. EmitOffer \/ AnswerFails => on \in Calls
      BY DEF EmitOffer, AnswerFails
    <3>2. on \in Calls => Frame("offer", on) \in Downs /\ Frame("ended", on) \in Downs
      BY BoundAssumption DEF Frame, Downs
    <3> QED BY <2>1, <3>1, <3>2, DownSent
  <2>4. ASSUME NEW c \in Calls, Rings(c) \/ FarEndHangsUp(c) \/ EmitCandidate(c)
        PROVE  down' \in Seq(Downs)
    BY <2>1, <2>4, DownSent
  <2>5. \A r \in reports : Reports(r) => down' \in Seq(Downs)
    BY <2>1, DownSent
  <2> QED BY <1>0, <2>2, <2>3, <2>4, <2>5, DownAlone
<1>3. \A i \in 1..Len(down') : down'[i].kind = "ice" => down'[i].n # 0
  <2>1. \A i \in 1..Len(down) : down[i].kind = "ice" => down[i].n # 0
    BY DEF TypeInv, Numbered
  <2>2. \A m \in Downs : down' = Append(down, m) /\ (m.kind = "ice" => m.n # 0) =>
          \A i \in 1..Len(down') : down'[i].kind = "ice" => down'[i].n # 0
    BY <1>0, <2>1, AppendFacts
  <2>3. Hear => \A i \in 1..Len(down') : down'[i].kind = "ice" => down'[i].n # 0
    BY <1>0, <2>1, DownSent, TailFacts
  <2>4. CASE EmitOffer \/ AnswerFails
    <3>1. on \in Calls
      BY <2>4 DEF EmitOffer, AnswerFails
    <3>2. /\ Frame("offer", on) \in Downs /\ Frame("ended", on) \in Downs
          /\ Frame("offer", on).kind # "ice" /\ Frame("ended", on).kind # "ice"
      BY <3>1, BoundAssumption DEF Frame, Downs
    <3> QED BY <2>2, <2>4, <3>2, DownSent
  <2>5. ASSUME NEW c \in Calls, Rings(c)
        PROVE  \A i \in 1..Len(down') : down'[i].kind = "ice" => down'[i].n # 0
    <3>1. Frame("ring", c).kind # "ice"
      BY DEF Frame
    <3> QED BY <2>2, <2>5, <3>1, DownSent
  <2>6. ASSUME NEW c \in Calls, EmitCandidate(c)
        PROVE  \A i \in 1..Len(down') : down'[i].kind = "ice" => down'[i].n # 0
    <3> DEFINE m == [kind |-> "ice", call |-> c, n |-> gathered[c]]
    <3>1. down' = Append(down, m) /\ m \in Downs
      BY <2>6, DownSent
    <3>2. m.n # 0
      BY <2>6 DEF EmitCandidate, TypeInv, Numbered
    <3> HIDE DEF m
    <3> QED BY <2>2, <3>1, <3>2
  <2>7. ASSUME NEW m \in Downs, down' = Append(down, m), Neither(m)
        PROVE  \A i \in 1..Len(down') : down'[i].kind = "ice" => down'[i].n # 0
    BY <2>2, <2>7 DEF Neither
  <2>8. (\E c \in Calls : FarEndHangsUp(c)) \/ (\E r \in reports : Reports(r)) =>
          \A i \in 1..Len(down') : down'[i].kind = "ice" => down'[i].n # 0
    BY <2>7, DownSent
  <2> QED BY <2>1, <2>3, <2>4, <2>5, <2>6, <2>8, DownAlone
<1>4. \A c \in emitting' : gathered'[c] # 0
  <2>1. gathered \in [Calls -> 0..MaxIce] /\ \A c \in emitting : gathered[c] # 0
    BY DEF TypeInv, Numbered
  <2>2. \A c \in Calls : Gather(c) => \A d \in emitting' : gathered'[d] # 0
    BY <2>1, BoundAssumption DEF Gather
  <2>3. \A c \in Calls : EmitCandidate(c) => \A d \in emitting' : gathered'[d] # 0
    BY <2>1 DEF EmitCandidate
  <2>4. (\E c \in Calls : Gather(c) \/ EmitCandidate(c)) \/ UNCHANGED <<gathered, emitting>>
    BY EmitAlone
  <2> QED BY <2>1, <2>2, <2>3, <2>4
<1> QED BY <1>1, <1>2, <1>3, <1>4 DEF Numbered

\* The daemon's half.
LEMMA DaemonTypes ==
  ASSUME TypeInv, step # "idle" => on \in Calls, DaemonSide
  PROVE  TypeInv'
<1>0. up' \in Seq(Ups) /\ down' \in Seq(Downs) /\ Numbered'
  BY FrameTypes, Sides
<1>u. UNCHANGED <<ui, session, engine>>
  BY Sides
<1> DEFINE DaemonTypeInv ==
             /\ far \in [Calls -> {"new", "up", "over"}]
             /\ active \in OrNone /\ leg \in OrNone /\ on \in OrNone
             /\ legs \in [Calls -> {"none", "open", "failed", "closed"}]
             /\ answered \in [Calls -> OrNone]
             /\ step \in {"idle", "backend", "start", "offer"}
             /\ gathered \in [Calls -> 0..MaxIce]
             /\ emitting \in SUBSET Calls /\ linked \in SUBSET Calls
             /\ reports \in SUBSET Reportable
<1>t. DaemonTypeInv /\ calm \in BOOLEAN /\ None \in OrNone
  BY DEF TypeInv, OrNone
<1>e. ASSUME EndCall
      PROVE  /\ active' \in OrNone /\ leg' \in OrNone /\ linked' \in SUBSET Calls /\ reports' \in SUBSET Reportable
             /\ legs' \in [Calls -> {"none", "open", "failed", "closed"}]
  BY <1>e, <1>t DEF EndCall, Reportable
<1> USE DEF daemon, pion
<1>1. CASE \E c \in Calls : Rings(c)
  <2>1. PICK c \in Calls : Rings(c)
    BY <1>1
  <2>2. DaemonTypeInv'
    BY <1>t, <2>1 DEF Rings, OrNone
  <2>3. calm' \in BOOLEAN
    BY <1>t, <2>1 DEF Rings
  <2> QED BY <1>0, <1>u, <2>2, <2>3 DEF TypeInv, ui, session, engine
<1>2. CASE \E c \in Calls : FarEndHangsUp(c)
  <2>1. PICK c \in Calls : FarEndHangsUp(c)
    BY <1>2
  <2>2. EndCall /\ far' = [far EXCEPT ![c] = "over"] /\ UNCHANGED <<answered, step, on, gathered, emitting>>
    BY <2>1 DEF FarEndHangsUp
  <2>3. DaemonTypeInv'
    BY <1>t, <1>e, <2>2
  <2>4. calm' \in BOOLEAN
    BY <1>t, <2>1 DEF FarEndHangsUp, NotCalm
  <2> QED BY <1>0, <1>u, <2>3, <2>4 DEF TypeInv, ui, session, engine
<1>3. CASE TakeAnswer
  <2>1. DaemonTypeInv'
    BY <1>t, <1>3 DEF TakeAnswer
  <2>2. calm' \in BOOLEAN
    BY <1>t, <1>3 DEF TakeAnswer, NotCalm
  <2> QED BY <1>0, <1>u, <2>1, <2>2 DEF TypeInv, ui, session, engine
<1>4. CASE AnswerFails \/ EmitOffer
  <2>1. DaemonTypeInv'
    BY <1>t, <1>4 DEF AnswerFails, EmitOffer
  <2>2. calm' \in BOOLEAN
    BY <1>t, <1>4 DEF AnswerFails, EmitOffer
  <2> QED BY <1>0, <1>u, <2>1, <2>2 DEF TypeInv, ui, session, engine
<1>5. CASE StartPhoneLeg
  <2>1. DaemonTypeInv'
    BY <1>t, <1>5 DEF StartPhoneLeg
  <2>2. calm' \in BOOLEAN
    BY <1>t, <1>5 DEF StartPhoneLeg
  <2> QED BY <1>0, <1>u, <2>1, <2>2 DEF TypeInv, ui, session, engine
<1>6. CASE EmitLooks
  <2>1. DaemonTypeInv'
    BY <1>t, <1>6 DEF EmitLooks
  <2>2. calm' \in BOOLEAN
    BY <1>t, <1>6 DEF EmitLooks
  <2> QED BY <1>0, <1>u, <2>1, <2>2 DEF TypeInv, ui, session, engine
<1>7. CASE HandleSignal
  <2>1. Head(up).of \in OrNone
    <3>1. Head(up) \in Ups
      BY <1>7, UpTaken, TailFacts DEF TypeInv
    <3> QED BY <3>1 DEF Ups
  <2>2. DaemonTypeInv'
    BY <1>t, <1>7, <2>1 DEF HandleSignal
  <2>3. calm' \in BOOLEAN
    BY <1>t, <1>7 DEF HandleSignal
  <2> QED BY <1>0, <1>u, <2>2, <2>3 DEF TypeInv, ui, session, engine
<1>8. CASE TakeEnd
  <2>1. CASE active = None
    <3>1. UNCHANGED <<far, active, leg, legs, linked, reports, answered, step, on, gathered, emitting>>
      BY <1>8, <2>1 DEF TakeEnd
    <3> QED BY <1>0, <1>t, <1>u, <3>1, <1>8 DEF TakeEnd, NotCalm, TypeInv, ui, session, engine
  <2>2. CASE active # None
    <3>1. EndCall /\ far' = [far EXCEPT ![active] = "over"] /\ UNCHANGED <<answered, step, on, gathered, emitting>>
      BY <1>8, <2>2 DEF TakeEnd
    <3>2. DaemonTypeInv'
      BY <1>t, <1>e, <3>1
    <3>3. calm' \in BOOLEAN
      BY <1>t, <1>8 DEF TakeEnd, NotCalm
    <3> QED BY <1>0, <1>u, <3>2, <3>3 DEF TypeInv, ui, session, engine
  <2> QED BY <2>1, <2>2
<1>9. ASSUME NEW c \in Calls, Drops(c) \/ Gather(c) \/ EmitCandidate(c) \/ Connects(c)
      PROVE  TypeInv'
  <2>1. reports' \in SUBSET Reportable
    BY <1>t, <1>9 DEF Drops, Gather, EmitCandidate, Connects, Reportable
  <2>2. gathered' \in [Calls -> 0..MaxIce]
    BY <1>t, <1>9, BoundAssumption DEF Drops, Gather, EmitCandidate, Connects
  <2>3. DaemonTypeInv'
    BY <1>t, <1>9, <2>1, <2>2 DEF Drops, Gather, EmitCandidate, Connects
  <2>4. calm' \in BOOLEAN
    BY <1>t, <1>9 DEF Drops, Gather, EmitCandidate, Connects
  <2> QED BY <1>0, <1>u, <2>3, <2>4 DEF TypeInv, ui, session, engine
<1>10. ASSUME NEW r \in reports, Reports(r)
       PROVE  TypeInv'
  <2>1. DaemonTypeInv'
    BY <1>t, <1>10 DEF Reports
  <2>2. calm' \in BOOLEAN
    BY <1>t, <1>10 DEF Reports
  <2> QED BY <1>0, <1>u, <2>1, <2>2 DEF TypeInv, ui, session, engine
<1> QED BY <1>1, <1>2, <1>3, <1>4, <1>5, <1>6, <1>7, <1>8, <1>9, <1>10 DEF DaemonSide, DaemonStep

\* The phone's half.
LEMMA PhoneTypes ==
  ASSUME TypeInv, step # "idle" => on \in Calls, PhoneSide
  PROVE  TypeInv'
<1>0. up' \in Seq(Ups) /\ down' \in Seq(Downs) /\ Numbered'
  BY FrameTypes, Sides
<1>u. UNCHANGED <<daemon, pion>>
  BY Sides
<1> DEFINE PhoneTypeInv ==
             /\ screen \in OrNone /\ callID \in OrNone /\ pc \in OrNone /\ localStream \in OrNone
             /\ pcs \in [Calls -> {"none", "open", "closed"}]
             /\ described \in [Calls -> OrNone] /\ target \in [Calls -> OrNone]
             /\ mics \in SUBSET Calls /\ denied \in SUBSET Calls
             /\ inCall \in BOOLEAN /\ status \in BOOLEAN /\ haveRemote \in BOOLEAN /\ calm \in BOOLEAN
             /\ pending \in SUBSET Candidates /\ cands \in [Calls -> SUBSET Candidates]
             /\ chain \in [Calls -> {"none", "mic", "remote", "answer", "done", "over"}]
<1>t. PhoneTypeInv /\ None \in OrNone /\ Calls \subseteq OrNone
  BY DEF TypeInv, OrNone
<1>q. SUFFICES PhoneTypeInv'
  BY <1>0, <1>u DEF TypeInv, daemon, pion
<1>h. Hear => Head(down) \in Downs /\ Heard \in Calls
  <2>1. Hear => Head(down) \in Downs
    BY DownSent, TailFacts DEF TypeInv
  <2> QED BY <2>1 DEF Heard, Downs
<1>e. ASSUME EndMedia
      PROVE  /\ callID' \in OrNone /\ pc' \in OrNone /\ localStream' \in OrNone /\ mics' \in SUBSET Calls
             /\ pcs' \in [Calls -> {"none", "open", "closed"}]
             /\ pending' \in SUBSET Candidates /\ haveRemote' \in BOOLEAN
             /\ UNCHANGED <<chain, target, described, cands, denied>>
  BY <1>e, <1>t DEF EndMedia
<1>g. ASSUME NEW p, NEW ks \in SUBSET Candidates, Gives(p, ks)
      PROVE  cands' \in [Calls -> SUBSET Candidates]
  BY <1>g, <1>t DEF Gives
<1> USE DEF ui, session, engine
<1>1. CASE HearOffer
  BY <1>1, <1>h, <1>t DEF Hear, HearOffer, OtherCall, Concerns
<1>2. CASE HearIce
  <2>1. UNCHANGED <<screen, inCall, status, pc, haveRemote, localStream, chain, pcs, target, described, mics, denied, calm>>
    BY <1>2 DEF HearIce, OtherCall
  <2>2. callID' \in OrNone
    BY <1>2, <1>h, <1>t DEF Hear, HearIce, OtherCall, Concerns
  <2>3. pending' \in SUBSET Candidates /\ cands' \in [Calls -> SUBSET Candidates]
    <3>1. CASE OtherCall
      BY <1>t, <3>1 DEF OtherCall
    <3>2. CASE ~OtherCall
      <4> DEFINE k == [call |-> Heard, n |-> Head(down).n]
      <4>1. \/ Gives(pc, {k}) /\ UNCHANGED pending
            \/ pending' = pending \cup {k} /\ UNCHANGED cands
        BY <1>2, <3>2 DEF HearIce
      <4>2. k \in Candidates
        <5>1. down # <<>> /\ Head(down) = down[1] /\ 1 \in 1..Len(down) /\ Head(down).kind = "ice"
          BY <1>2, DownSent, TailFacts DEF HearIce, Hears, Hear, TypeInv
        <5>2. Head(down).n # 0 /\ Head(down).n \in 0..MaxIce /\ Heard \in Calls
          BY <1>2, <1>h, <5>1 DEF TypeInv, Numbered, Downs, Hear
        <5> QED BY <5>2, BoundAssumption DEF Candidates
      <4> QED BY <1>g, <1>t, <4>1, <4>2
    <3> QED BY <3>1, <3>2
  <2> QED BY <1>t, <2>1, <2>2, <2>3
<1>3. CASE HearRing \/ HearConnected
  BY <1>3, <1>h, <1>t DEF Hear, HearRing, HearConnected
<1>4. CASE HearEnded
  <2>1. EndMedia /\ screen' = None /\ UNCHANGED status
    BY <1>4 DEF HearEnded
  <2>2. inCall' \in BOOLEAN /\ calm' \in BOOLEAN
    BY <1>t, <1>4 DEF HearEnded, NotCalm
  <2> QED BY <1>e, <1>t, <2>1, <2>2
<1>5. CASE AnswerCall
  <2>1. callID' = screen /\ pending' = {} /\ UNCHANGED <<screen, pc, localStream, engine>>
    BY <1>5 DEF AnswerCall, Begin
  <2>2. haveRemote' \in BOOLEAN /\ inCall' \in BOOLEAN /\ status' \in BOOLEAN /\ calm' \in BOOLEAN
    BY <1>t, <1>5 DEF AnswerCall, Begin, NotCalm
  <2> QED BY <1>t, <2>1, <2>2
<1>6. CASE EndKey
  <2>1. EndMedia /\ screen' = None /\ UNCHANGED status
    BY <1>6 DEF EndKey
  <2>2. inCall' \in BOOLEAN /\ calm' \in BOOLEAN
    BY <1>t, <1>6 DEF EndKey, NotCalm
  <2> QED BY <1>e, <1>t, <2>1, <2>2
<1>7. ASSUME NEW c \in Calls, MicGranted(c)
      PROVE  PhoneTypeInv'
  BY <1>t, <1>7 DEF MicGranted
<1>8. ASSUME NEW c \in Calls, MicRefused(c)
      PROVE  PhoneTypeInv'
  BY <1>t, <1>8 DEF MicRefused
<1>9. ASSUME NEW c \in Calls, RemoteIsSet(c)
      PROVE  PhoneTypeInv'
  <2>1. cands' \in [Calls -> SUBSET Candidates]
    BY <1>t, <1>g, <1>9 DEF RemoteIsSet
  <2>2. described' \in [Calls -> OrNone] /\ target' \in [Calls -> OrNone]
        /\ chain' \in [Calls -> {"none", "mic", "remote", "answer", "done", "over"}]
    BY <1>t, <1>9 DEF RemoteIsSet
  <2>3. haveRemote' \in BOOLEAN /\ pending' = {} /\ UNCHANGED <<ui, callID, pc, localStream, pcs, mics, denied, calm>>
    BY <1>9 DEF RemoteIsSet
  <2> QED BY <1>t, <2>1, <2>2, <2>3
<1>10. ASSUME NEW c \in Calls, AnswerIsSent(c)
       PROVE  PhoneTypeInv'
  BY <1>t, <1>10 DEF AnswerIsSent
<1> QED BY <1>1, <1>2, <1>3, <1>4, <1>5, <1>6, <1>7, <1>8, <1>9, <1>10 DEF PhoneSide, Hear, Chain

-----------------------------------------------------------------------------
(* The calls and the daemon's work                                         *)

\* Rung calls stay rung.
LEMMA RungStays ==
  ASSUME TypeInv, Next
  PROVE  \A c \in Calls : Rung(c) => Rung(c)'
<1>0. far \in [Calls -> {"new", "up", "over"}]
  BY DEF TypeInv
<1>1. \A c \in Calls : Rings(c) => \A d \in Calls : Rung(d) => Rung(d)'
  BY <1>0 DEF Rings, Rung
<1>2. \A c \in Calls : FarEndHangsUp(c) => \A d \in Calls : Rung(d) => Rung(d)'
  BY <1>0 DEF FarEndHangsUp, Rung
<1>3. TakeEnd => \A d \in Calls : Rung(d) => Rung(d)'
  BY <1>0 DEF TakeEnd, Rung
<1>4. TakeAnswer \/ AnswerFails \/ StartPhoneLeg \/ EmitLooks \/ EmitOffer => far' = far
  BY Zenon DEF TakeAnswer, AnswerFails, StartPhoneLeg, EmitLooks, EmitOffer
<1> QED BY <1>1, <1>2, <1>3, <1>4, WorkAlone DEF Rung

\* The calls follow each other.
LEMMA OneCallStep ==
  ASSUME TypeInv, OneCall, Next
  PROVE  OneCall'
<1>0. far \in [Calls -> {"new", "up", "over"}] /\ active \in OrNone /\ None \notin Calls
  BY DEF TypeInv, Calls, None
<1> USE DEF OneCall, Rung
<1>1. ASSUME NEW c \in Calls, Rings(c)
      PROVE  OneCall'
  <2>1. /\ far' = [far EXCEPT ![c] = "up"] /\ active' = c
        /\ \A d \in Calls : IF d < c THEN far[d] = "over" ELSE far[d] = "new"
    BY <1>1 DEF Rings
  <2>2. \A d \in Calls : d \in Nat /\ c \in Nat
    BY DEF Calls
  <2> QED BY <1>0, <2>1, <2>2
<1>2. ASSUME NEW c \in Calls, FarEndHangsUp(c)
      PROVE  OneCall'
  <2>1. far' = [far EXCEPT ![c] = "over"] /\ active' = None /\ c = active /\ far[c] = "up"
    BY <1>2 DEF FarEndHangsUp, EndCall
  <2> QED BY <1>0, <2>1
<1>3. CASE TakeEnd
  <2>1. CASE active = None
    BY <1>3, <2>1 DEF TakeEnd
  <2>2. CASE active # None
    <3>1. far' = [far EXCEPT ![active] = "over"] /\ active' = None
      BY <1>3, <2>2 DEF TakeEnd, EndCall
    <3>2. active \in Calls /\ far[active] = "up"
      BY <1>0, <2>2 DEF OrNone
    <3> QED BY <1>0, <3>1, <3>2
  <2> QED BY <2>1, <2>2
<1>4. TakeAnswer \/ AnswerFails \/ StartPhoneLeg \/ EmitLooks \/ EmitOffer => UNCHANGED <<far, active>>
  BY Zenon DEF TakeAnswer, AnswerFails, StartPhoneLeg, EmitLooks, EmitOffer
<1>5. UNCHANGED <<far, active>> => OneCall'
  OBVIOUS
<1> QED BY <1>1, <1>2, <1>3, <1>4, <1>5, WorkAlone

\* The daemon answers a call or is idle.
LEMMA AtWorkStep ==
  ASSUME AtWork, Next
  PROVE  AtWork'
<1>1. TakeAnswer => AtWork'
  BY DEF TakeAnswer, Takes, AtWork
<1>2. AnswerFails \/ StartPhoneLeg \/ EmitLooks \/ EmitOffer => AtWork'
  BY DEF AnswerFails, StartPhoneLeg, EmitLooks, EmitOffer, AtWork
<1>3. TakeEnd => UNCHANGED <<step, on>>
  BY Zenon DEF TakeEnd
<1>4. \A c \in Calls : Rings(c) \/ FarEndHangsUp(c) => UNCHANGED <<step, on>>
  BY Zenon DEF Rings, FarEndHangsUp
<1> QED BY <1>1, <1>2, <1>3, <1>4, WorkAlone DEF AtWork

\* The active call is the last that rang.
LEMMA ActiveIsLast ==
  ASSUME TypeInv, OneCall, active # None, NEW c \in Calls, Rung(c)
  PROVE  c <= active /\ active \in Calls /\ Rung(active)
<1>1. active \in Calls /\ far[active] = "up"
  BY DEF TypeInv, OneCall, OrNone
<1>2. ~(active < c)
  BY <1>1 DEF OneCall
<1> QED BY <1>1, <1>2 DEF Calls, Rung

\* What the user is in is a call, the one the session is for.
LEMMA InCallStep ==
  ASSUME TypeInv, InCall, Next
  PROVE  InCall'
<1> USE DEF InCall
<1>1. UNCHANGED <<inCall, screen, callID>> => InCall'
  OBVIOUS
<1>2. DaemonSide => UNCHANGED <<inCall, screen, callID>>
  BY Sides DEF ui, session
<1>3. CASE HearOffer \/ HearIce
  <2>1. UNCHANGED <<inCall, screen>>
    BY <1>3 DEF HearOffer, HearIce, ui
  <2>2. callID # None => callID' = callID
    BY <1>3 DEF HearOffer, HearIce, OtherCall, Concerns
  <2> QED BY <2>1, <2>2
<1>4. HearRing \/ HearEnded \/ EndKey => InCall'
  BY DEF HearRing, HearEnded, EndKey
<1>5. AnswerCall => InCall'
  BY DEF AnswerCall, Begin
<1>6. HearConnected => UNCHANGED <<inCall, screen, callID>>
  BY DEF HearConnected, session
<1>7. \A c \in Calls : Chain(c) => UNCHANGED <<inCall, screen, callID>>
  BY Zenon DEF Chain, MicGranted, MicRefused, RemoteIsSet, AnswerIsSent, ui, session
<1> QED BY <1>1, <1>2, <1>3, <1>4, <1>5, <1>6, <1>7, Sides DEF PhoneSide, Hear

\* Who gives a call its leg, and in which states.
LEMMA LegsMove ==
  ASSUME TypeInv, Next
  PROVE  /\ \A c \in Calls : legs'[c] = "none" => legs[c] = "none"
         /\ \A c \in Calls : legs[c] = "none" /\ legs'[c] # "none" =>
              (StartPhoneLeg /\ c = on) \/ (c = leg /\ leg' = None) \/ Drops(c)
<1>0. legs \in [Calls -> {"none", "open", "failed", "closed"}]
  BY DEF TypeInv
<1> DEFINE Moves == /\ \A c \in Calls : legs'[c] = "none" => legs[c] = "none"
                    /\ \A c \in Calls : legs[c] = "none" /\ legs'[c] # "none" =>
                         (StartPhoneLeg /\ c = on) \/ (c = leg /\ leg' = None) \/ Drops(c)
<1>1. CASE EndCall
  <2>1. legs' = [c \in Calls |-> IF c = leg THEN "closed" ELSE legs[c]] /\ leg' = None
    BY <1>1 DEF EndCall
  <2> QED BY <1>0, <2>1
<1>2. CASE StartPhoneLeg
  <2>1. legs' = [legs EXCEPT ![on] = "open"]
    BY <1>2 DEF StartPhoneLeg
  <2> QED BY <1>0, <1>2, <2>1
<1>3. ASSUME NEW c \in Calls, Drops(c)
      PROVE  Moves
  <2>1. legs' = [legs EXCEPT ![c] = "failed"]
    BY <1>3 DEF Drops
  <2> QED BY <1>0, <1>3, <2>1
<1>4. UNCHANGED legs => Moves
  OBVIOUS
<1>5. EndCall \/ StartPhoneLeg \/ (\E c \in Calls : Drops(c)) \/ UNCHANGED legs
  <2>1. DaemonStep => EndCall \/ StartPhoneLeg \/ UNCHANGED legs
    BY DEF DaemonStep, TakeAnswer, AnswerFails, EmitLooks, EmitOffer, HandleSignal, TakeEnd
  <2>2. \A c \in Calls : Rings(c) \/ FarEndHangsUp(c) \/ Gather(c) \/ EmitCandidate(c) \/ Connects(c) => EndCall \/ UNCHANGED legs
    BY Zenon DEF Rings, FarEndHangsUp, Gather, EmitCandidate, Connects, daemon
  <2>3. \A r \in reports : Reports(r) => UNCHANGED legs
    BY Zenon DEF Reports, daemon
  <2>4. PhoneSide => UNCHANGED legs
    BY Sides, Zenon DEF daemon
  <2> QED BY <2>1, <2>2, <2>3, <2>4, Sides, Zenon DEF DaemonSide
<1> HIDE DEF Moves
<1>6. Moves
  BY <1>1, <1>2, <1>3, <1>4, <1>5 DEF Moves
<1> QED BY <1>6 DEF Moves

\* Media flows over a leg from when it connects.
LEMMA LinkAlone ==
  ASSUME Next
  PROVE  linked' \subseteq linked \/ \E c \in Calls : Connects(c)
<1>1. EndCall => linked' \subseteq linked
  BY DEF EndCall
<1>2. DaemonStep => EndCall \/ UNCHANGED linked
  BY DEF DaemonStep, TakeAnswer, AnswerFails, StartPhoneLeg, EmitLooks, EmitOffer, HandleSignal, TakeEnd
<1>3. \A c \in Calls : Rings(c) \/ FarEndHangsUp(c) \/ Gather(c) \/ EmitCandidate(c) => EndCall \/ UNCHANGED linked
  BY Zenon DEF Rings, FarEndHangsUp, Gather, EmitCandidate, daemon
<1>4. \A c \in Calls : Drops(c) => linked' \subseteq linked
  BY DEF Drops
<1>5. \A r \in reports : Reports(r) => UNCHANGED linked
  BY Zenon DEF Reports, daemon
<1>6. PhoneSide => UNCHANGED linked
  BY Sides, Zenon DEF daemon
<1>7. UNCHANGED linked => linked' \subseteq linked
  OBVIOUS
<1> QED BY <1>1, <1>2, <1>3, <1>4, <1>5, <1>6, <1>7, Sides, Zenon DEF DaemonSide

\* Media flows only over a leg, and the Manager's leg is one.
LEMMA UnusedStep ==
  ASSUME TypeInv, AtWork, Unused, Next
  PROVE  Unused'
<1>0. gathered \in [Calls -> 0..MaxIce] /\ legs \in [Calls -> {"none", "open", "failed", "closed"}] /\ None \notin Calls
  BY DEF TypeInv, Calls, None
<1>1. \A c \in Calls : legs'[c] = "none" => gathered'[c] = 0
  <2>1. ASSUME NEW c \in Calls, Gather(c)
        PROVE  \A d \in Calls : legs'[d] = "none" => gathered'[d] = 0
    <3>1. legs' = legs /\ legs[c] # "none" /\ gathered' = [gathered EXCEPT ![c] = @ + 1]
      BY <2>1 DEF Gather, daemon
    <3> QED BY <1>0, <3>1 DEF Unused
  <2>2. \A c \in Calls : EmitCandidate(c) => gathered' = gathered
    BY Zenon DEF EmitCandidate
  <2>3. gathered' = gathered => \A d \in Calls : legs'[d] = "none" => gathered'[d] = 0
    BY LegsMove DEF Unused
  <2> QED BY <2>1, <2>2, <2>3, EmitAlone
<1>2. \A c \in Calls : legs'[c] = "none" => c \notin linked'
  <2>1. linked' \subseteq linked \/ \E c \in Calls : Connects(c)
    BY LinkAlone
  <2>2. linked' \subseteq linked => \A c \in Calls : legs'[c] = "none" => c \notin linked'
    BY LegsMove DEF Unused
  <2>3. ASSUME NEW c \in Calls, Connects(c)
        PROVE  \A d \in Calls : legs'[d] = "none" => d \notin linked'
    BY <2>3 DEF Connects, Unused
  <2> QED BY <2>1, <2>2, <2>3
<1>3. leg' # None => legs'[leg'] # "none"
  <2>1. CASE StartPhoneLeg
    <3>1. legs' = [legs EXCEPT ![on] = "open"] /\ leg' = on /\ on # None
      BY <2>1 DEF StartPhoneLeg, AtWork
    <3>2. on \in Calls
      BY <3>1 DEF TypeInv, OrNone
    <3> QED BY <1>0, <3>1, <3>2
  <2>2. ~StartPhoneLeg => leg' \in {None, leg}
    <3>1. TakeEnd => leg' \in {None, leg}
      BY DEF TakeEnd, EndCall
    <3>2. \A c \in Calls : Rings(c) \/ FarEndHangsUp(c) => leg' \in {None, leg}
      BY DEF Rings, FarEndHangsUp, EndCall
    <3>3. TakeAnswer \/ AnswerFails \/ EmitLooks \/ EmitOffer => leg' = leg
      BY Zenon DEF TakeAnswer, AnswerFails, EmitLooks, EmitOffer
    <3> QED BY <3>1, <3>2, <3>3, WorkAlone
  <2>3. CASE leg' = leg
    <3>1. leg # None => leg \in Calls
      BY DEF TypeInv, OrNone
    <3> QED BY <2>3, <3>1, LegsMove DEF Unused
  <2> QED BY <2>1, <2>2, <2>3
<1> QED BY <1>1, <1>2, <1>3 DEF Unused

\* While it is calm a call ends only when nothing is being answered, and an
\* answer key is of the active call.
LEMMA WorkingStep ==
  ASSUME TypeInv, OneCall, AtWork, Working, Next, calm'
  PROVE  Working'
<1>0. active \in OrNone /\ on \in OrNone /\ None \notin Calls
  BY DEF TypeInv, Calls, None
<1> USE DEF AtWork, Working
<1>1. ASSUME NEW c \in Calls, Rings(c)
      PROVE  Working'
  <2>1. active = None
    <3>1. far[c] = "new" /\ \A d \in Calls : IF d < c THEN far[d] = "over" ELSE far[d] = "new"
      BY <1>1 DEF Rings
    <3>2. \A d \in Calls : far[d] # "up"
      BY <3>1
    <3> QED BY <1>0, <3>2 DEF OneCall, OrNone
  <2>2. UNCHANGED <<leg, step, on>>
    BY <1>1 DEF Rings
  <2> QED BY <2>1, <2>2
<1>2. ASSUME NEW c \in Calls, FarEndHangsUp(c)
      PROVE  Working'
  <2>1. step = "idle" /\ leg' = None /\ UNCHANGED <<step, on>>
    BY <1>2 DEF FarEndHangsUp, EndCall, NotCalm
  <2> QED BY <2>1
<1>3. CASE TakeAnswer
  <2>1. UNCHANGED <<active, leg>>
    BY <1>3 DEF TakeAnswer
  <2>2. CASE active = None
    BY <1>3, <2>1, <2>2 DEF TakeAnswer
  <2>3. CASE active # None
    BY <1>3, <2>1, <2>3 DEF TakeAnswer
  <2> QED BY <2>2, <2>3
<1>4. CASE AnswerFails \/ EmitOffer
  BY <1>4 DEF AnswerFails, EmitOffer
<1>5. CASE StartPhoneLeg
  BY <1>5 DEF StartPhoneLeg
<1>6. CASE EmitLooks
  BY <1>6 DEF EmitLooks
<1>7. CASE TakeEnd
  <2>1. step = "idle" /\ UNCHANGED <<step, on>>
    BY <1>7 DEF TakeEnd, Takes
  <2>2. leg' = None \/ UNCHANGED <<leg, active>>
    BY <1>7 DEF TakeEnd, EndCall
  <2> QED BY <2>1, <2>2
<1>8. UNCHANGED <<active, leg, step, on>> => Working'
  OBVIOUS
<1> QED BY <1>1, <1>2, <1>3, <1>4, <1>5, <1>6, <1>7, <1>8, WorkAlone

-----------------------------------------------------------------------------
(* The session                                                             *)

\* The media of a call end.
LEMMA MediaEnds ==
  ASSUME TypeInv, Session, EndMedia, ~PromptIsOpen
  PROVE  Session'
<1>0. pcs \in [Calls -> {"none", "open", "closed"}]
  BY DEF TypeInv
<1>1. /\ pc' = None /\ callID' = None /\ pending' = {} /\ UNCHANGED <<chain, target, described>>
      /\ pcs' = [c \in Calls |-> IF c = pc THEN "closed" ELSE pcs[c]]
  BY DEF EndMedia
<1>2. \A c \in Calls : chain[c] # "mic"
  BY DEF PromptIsOpen
<1> QED BY <1>0, <1>1, <1>2 DEF Session

\* There is one session at a time.
LEMMA SessionStep ==
  ASSUME TypeInv, Session, Next, calm'
  PROVE  Session'
<1>0. /\ pcs \in [Calls -> {"none", "open", "closed"}] /\ target \in [Calls -> OrNone]
      /\ described \in [Calls -> OrNone]
      /\ chain \in [Calls -> {"none", "mic", "remote", "answer", "done", "over"}]
      /\ None \notin Calls
  BY DEF TypeInv, Calls, None
<1>h. Hear => Heard \in Calls
  <2>1. Hear => Head(down) \in Downs
    BY DownSent, TailFacts DEF TypeInv
  <2> QED BY <2>1 DEF Heard, Downs
<1>s. UNCHANGED <<pc, callID, pcs, pending, chain, target, described>> => Session'
  BY DEF Session
<1>1. DaemonSide => Session'
  BY <1>s, Sides DEF session, engine
<1>2. CASE HearOffer
  <2>1. CASE OtherCall
    BY <1>2, <1>s, <2>1 DEF HearOffer, OtherCall
  <2>2. CASE ~OtherCall
    <3>1. /\ callID \in {None, Heard} /\ callID' = Heard /\ pc' = Heard
          /\ pcs' = [pcs EXCEPT ![Heard] = "open"] /\ chain' = [chain EXCEPT ![Heard] = "mic"]
          /\ UNCHANGED <<pending, target, described>>
      BY <1>2, <2>2 DEF HearOffer, Concerns
    <3>2. Heard \in Calls
      BY <1>2, <1>h DEF Hear
    <3>3. pc \in {None, Heard}
      BY <3>1 DEF Session
    <3>4. \A k \in pending : k.call \in Calls
      BY DEF TypeInv, Candidates
    <3>5. \A k \in pending : k.call = Heard
      BY <1>0, <3>1, <3>4 DEF Session
    <3>6. \A c \in Calls : c # Heard => pcs[c] # "open" /\ chain[c] # "mic"
      BY <1>0, <3>3 DEF Session
    <3>7. \A c \in Calls : (pcs'[c] = "open" => c = pc') /\ (chain'[c] = "mic" => c = pc')
      BY <1>0, <3>1, <3>6
    <3>8. \A c \in Calls : chain'[c] = "answer" => described'[c] = c
      BY <1>0, <3>1 DEF Session
    <3> QED BY <3>1, <3>5, <3>7, <3>8 DEF Session
  <2> QED BY <2>1, <2>2
<1>3. CASE HearIce
  <2>1. CASE OtherCall
    BY <1>3, <1>s, <2>1 DEF HearIce, OtherCall
  <2>2. CASE ~OtherCall
    <3> DEFINE k == [call |-> Heard, n |-> Head(down).n]
    <3>1. /\ callID \in {None, Heard} /\ callID' = Heard
          /\ UNCHANGED <<pc, pcs, chain, target, described>>
          /\ pending' \subseteq pending \cup {k}
      BY <1>3, <2>2 DEF HearIce, Concerns
    <3>2. pc \in {None, Heard}
      BY <3>1 DEF Session
    <3>3. \A j \in pending : j.call = Heard
      <4>1. \A j \in pending : j.call \in Calls
        BY DEF TypeInv, Candidates
      <4> QED BY <1>0, <3>1, <4>1 DEF Session
    <3>4. \A j \in pending' : j.call = Heard
      BY <3>1, <3>3
    <3> QED BY <3>1, <3>2, <3>4 DEF Session
  <2> QED BY <2>1, <2>2
<1>4. CASE HearRing \/ HearConnected
  BY <1>4, <1>s DEF HearRing, HearConnected, session, engine
<1>5. CASE HearEnded
  BY <1>5, MediaEnds DEF HearEnded, NotCalm
<1>6. CASE AnswerCall
  <2>1. pc = None /\ pending' = {} /\ UNCHANGED <<pc, pcs, chain, target, described>>
    BY <1>6 DEF AnswerCall, Begin, NotCalm, engine
  <2> QED BY <2>1 DEF Session
<1>7. CASE EndKey
  BY <1>7, MediaEnds DEF EndKey, NotCalm
<1>8. ASSUME NEW c \in Calls, MicGranted(c)
      PROVE  Session'
  <2>1. /\ chain[c] = "mic" /\ chain' = [chain EXCEPT ![c] = IF pc = None THEN "over" ELSE "remote"]
        /\ target' = [target EXCEPT ![c] = pc] /\ UNCHANGED <<pc, callID, pcs, pending, described>>
    BY <1>8 DEF MicGranted
  <2>2. pc = c
    BY <2>1 DEF Session
  <2>3. \A d \in Calls : target'[d] \in {None, d}
    BY <1>0, <2>1, <2>2 DEF Session
  <2>4. \A d \in Calls : (chain'[d] = "mic" => chain[d] = "mic") /\ (chain'[d] = "answer" => chain[d] = "answer")
    BY <1>0, <2>1
  <2> QED BY <2>1, <2>3, <2>4 DEF Session
<1>9. ASSUME NEW c \in Calls, MicRefused(c)
      PROVE  Session'
  <2>1. chain' = [chain EXCEPT ![c] = "over"] /\ UNCHANGED <<pc, callID, pcs, pending, target, described>>
    BY <1>9 DEF MicRefused, session
  <2>2. \A d \in Calls : (chain'[d] = "mic" => chain[d] = "mic") /\ (chain'[d] = "answer" => chain[d] = "answer")
    BY <1>0, <2>1
  <2> QED BY <2>1, <2>2 DEF Session
<1>10. ASSUME NEW c \in Calls, RemoteIsSet(c)
       PROVE  Session'
  <2>1. /\ Open(c) /\ described' = [described EXCEPT ![target[c]] = c] /\ pending' = {}
        /\ chain' = [chain EXCEPT ![c] = IF pc = None THEN "over" ELSE "answer"]
        /\ target' = [target EXCEPT ![c] = pc] /\ UNCHANGED <<pc, callID, pcs>>
    BY <1>10 DEF RemoteIsSet
  <2>2. target[c] = c /\ pc = c
    BY <1>0, <2>1 DEF Open, Session
  <2>3. \A d \in Calls : target'[d] \in {None, d}
    BY <1>0, <2>1, <2>2 DEF Session
  <2>4. \A d \in Calls : (chain'[d] = "mic" => chain[d] = "mic") /\ (chain'[d] = "answer" => d = c \/ chain[d] = "answer")
    BY <1>0, <2>1
  <2>5. \A d \in Calls : chain'[d] = "answer" => described'[d] = d
    BY <1>0, <2>1, <2>2, <2>4 DEF Session
  <2> QED BY <2>1, <2>3, <2>4, <2>5 DEF Session
<1>11. ASSUME NEW c \in Calls, AnswerIsSent(c)
       PROVE  Session'
  <2>1. chain' = [chain EXCEPT ![c] = "done"] /\ UNCHANGED <<pc, callID, pcs, pending, target, described>>
    BY <1>11 DEF AnswerIsSent, session
  <2>2. \A d \in Calls : (chain'[d] = "mic" => chain[d] = "mic") /\ (chain'[d] = "answer" => chain[d] = "answer")
    BY <1>0, <2>1
  <2> QED BY <2>1, <2>2 DEF Session
<1> QED BY <1>1, <1>2, <1>3, <1>4, <1>5, <1>6, <1>7, <1>8, <1>9, <1>10, <1>11, Sides DEF PhoneSide, Hear, Chain

\* A connection gets its own offer and candidates, a leg its own answer.
LEMMA MatchedStep ==
  ASSUME TypeInv, Working, Session, LegsApart, Matched, Next, calm'
  PROVE  Matched'
<1>0. /\ described \in [Calls -> OrNone] /\ answered \in [Calls -> OrNone]
      /\ cands \in [Calls -> SUBSET Candidates] /\ None \notin Calls
  BY DEF TypeInv, Calls, None
<1>s. UNCHANGED <<described, answered, cands>> => Matched'
  BY DEF Matched
<1>1. CASE HandleSignal
  <2>1. /\ answered' = [c \in Calls |-> IF c = leg /\ answered[c] = None THEN Head(up).of ELSE answered[c]]
        /\ UNCHANGED <<described, cands>>
    BY <1>1 DEF HandleSignal, engine
  <2>2. Head(up) \in Ups /\ In(Head(up), up) /\ Answer(Head(up))
    BY <1>1, TailIn DEF HandleSignal, Takes, Answer, TypeInv
  <2>3. leg # None => Head(up).of = leg
    BY <2>2 DEF LegsApart
  <2> QED BY <1>0, <2>1, <2>3 DEF Matched
<1>2. DaemonSide => HandleSignal \/ UNCHANGED <<described, answered, cands>>
  <2>1. DaemonStep => HandleSignal \/ UNCHANGED answered
    BY Zenon DEF DaemonStep, TakeAnswer, AnswerFails, StartPhoneLeg, EmitLooks, EmitOffer, TakeEnd
  <2>2. \A c \in Calls : Rings(c) \/ FarEndHangsUp(c) \/ Drops(c) \/ Gather(c) \/ EmitCandidate(c) \/ Connects(c) => UNCHANGED answered
    BY Zenon DEF Rings, FarEndHangsUp, Drops, Gather, EmitCandidate, Connects, daemon
  <2>3. \A r \in reports : Reports(r) => UNCHANGED answered
    BY Zenon DEF Reports, daemon
  <2> QED BY <2>1, <2>2, <2>3, Sides, Zenon DEF DaemonSide, engine
<1>3. PhoneSide => UNCHANGED answered
  BY Sides, Zenon DEF daemon
<1>4. CASE HearIce
  <2>1. CASE OtherCall
    BY <1>3, <1>4, <1>s, <2>1 DEF HearIce, OtherCall, PhoneSide, Hear
  <2>2. CASE ~OtherCall
    <3> DEFINE k == [call |-> Heard, n |-> Head(down).n]
    <3>1. callID \in {None, Heard} /\ UNCHANGED described /\ UNCHANGED answered
      BY <1>3, <1>4, <2>2 DEF HearIce, Concerns, PhoneSide, Hear
    <3>2. Gives(pc, {k}) \/ UNCHANGED cands
      BY <1>4, <2>2 DEF HearIce
    <3>3. pc \in {None, Heard} /\ k.call = Heard
      BY <3>1 DEF Session
    <3> HIDE DEF k
    <3>4. \A c \in Calls : \A j \in cands'[c] : j \in cands[c] \/ (c = pc /\ j = k)
      BY <1>0, <3>2 DEF Gives
    <3>5. \A c \in Calls : \A j \in cands'[c] : j.call = c
      BY <1>0, <3>3, <3>4 DEF Matched
    <3> QED BY <3>1, <3>5 DEF Matched
  <2> QED BY <2>1, <2>2
<1>5. ASSUME NEW c \in Calls, RemoteIsSet(c)
      PROVE  Matched'
  <2>1. Open(c) /\ described' = [described EXCEPT ![target[c]] = c] /\ Gives(pc, pending)
    BY <1>5 DEF RemoteIsSet
  <2>2. target[c] = c /\ pc = c
    BY <1>0, <2>1 DEF Open, Session
  <2>3. \A d \in Calls : described'[d] \in {None, d}
    BY <1>0, <2>1, <2>2 DEF Matched
  <2>4. \A d \in Calls : \A j \in cands'[d] : j \in cands[d] \/ (d = pc /\ j \in pending)
    BY <1>0, <2>1 DEF Gives
  <2>5. \A d \in Calls : \A j \in cands'[d] : j.call = d
    BY <1>0, <2>2, <2>4 DEF Matched, Session
  <2>6. UNCHANGED answered
    BY <1>3, <1>5 DEF PhoneSide, Chain
  <2> QED BY <2>3, <2>5, <2>6 DEF Matched
<1>6. PhoneSide => HearIce \/ (\E c \in Calls : RemoteIsSet(c)) \/ UNCHANGED <<described, cands>>
  <2>1. HearOffer \/ HearRing \/ HearConnected \/ HearEnded => UNCHANGED <<described, cands>>
    BY DEF HearOffer, OtherCall, HearRing, HearConnected, HearEnded, EndMedia, engine
  <2>2. AnswerCall \/ EndKey => UNCHANGED <<described, cands>>
    BY Zenon DEF AnswerCall, EndKey, EndMedia, engine
  <2>3. \A c \in Calls : MicGranted(c) \/ MicRefused(c) \/ AnswerIsSent(c) => UNCHANGED <<described, cands>>
    BY Zenon DEF MicGranted, MicRefused, AnswerIsSent
  <2> QED BY <2>1, <2>2, <2>3, Zenon DEF PhoneSide, Hear, Chain
<1> QED BY <1>1, <1>2, <1>3, <1>4, <1>5, <1>6, <1>s, Sides


-----------------------------------------------------------------------------
(* What is under way, and how it moves                                     *)

\* A step keeps the frames that were on their way, in their order, and sends at
\* most those of new.
DownKeeps(new) ==
  /\ \A n \in Downs : Ring(n) \/ Offer(n) => (In(n, down') => In(n, down) \/ n \in new)
  /\ \A m, n \in Downs : Ring(n) \/ Offer(n) => (Ahead(m, n, down') => Ahead(m, n, down) \/ (In(m, down) /\ n \in new))
UpKeeps(new) ==
  /\ \A n \in Ups : Key(n) \/ Answer(n) => (In(n, up') => In(n, up) \/ n \in new)
  /\ \A m, n \in Ups : Key(n) \/ Answer(n) => (Ahead(m, n, up') => Ahead(m, n, up) \/ (In(m, up) /\ n \in new))

KeyOf(c) == [kind |-> "callanswer", call |-> c, of |-> None]

\* Rings and offers.
LEMMA DownMoves ==
  ASSUME TypeInv, AtWork, Next
  PROVE  \/ \E c \in Calls : Rings(c) /\ DownKeeps({Frame("ring", c)})
         \/ EmitOffer /\ DownKeeps({Frame("offer", on)})
         \/ DownKeeps({})
<1>0. down \in Seq(Downs)
  BY DEF TypeInv
<1>1. \A x \in Downs : down' = Append(down, x) => DownKeeps({x})
  BY <1>0, AppendIn DEF DownKeeps
<1>2. \A x \in Downs : down' = Append(down, x) /\ ~Ring(x) /\ ~Offer(x) => DownKeeps({})
  <2>1. SUFFICES ASSUME NEW x \in Downs, down' = Append(down, x), ~Ring(x) /\ ~Offer(x)
                 PROVE  DownKeeps({})
    OBVIOUS
  <2>2. DownKeeps({x})
    BY <1>1, <2>1
  <2> QED BY <2>1, <2>2 DEF DownKeeps
<1>3. Hear => DownKeeps({})
  BY <1>0, TailIn, DownSent DEF DownKeeps
<1>4. down' = down => DownKeeps({})
  BY DEF DownKeeps
<1>5. \A c \in Calls : Rings(c) => DownKeeps({Frame("ring", c)})
  BY <1>1, DownSent
<1>6. EmitOffer \/ AnswerFails => on \in Calls
  BY DEF EmitOffer, AnswerFails, AtWork, TypeInv, OrNone
<1>7. on \in Calls => Frame("offer", on) \in Downs /\ Frame("ended", on) \in Downs
  BY BoundAssumption DEF Frame, Downs
<1>8. EmitOffer => DownKeeps({Frame("offer", on)})
  BY <1>1, <1>6, <1>7, DownSent
<1>9. AnswerFails => DownKeeps({})
  <2>1. ~Ring(Frame("ended", on)) /\ ~Offer(Frame("ended", on))
    BY DEF Frame, Ring, Offer
  <2> QED BY <1>2, <1>6, <1>7, <2>1, DownSent
<1>10. \A c \in Calls : EmitCandidate(c) => DownKeeps({})
  <2>1. SUFFICES ASSUME NEW c \in Calls, EmitCandidate(c)
                 PROVE  DownKeeps({})
    OBVIOUS
  <2> DEFINE x == [kind |-> "ice", call |-> c, n |-> gathered[c]]
  <2>2. down' = Append(down, x) /\ x \in Downs
    BY <2>1, DownSent
  <2>3. ~Ring(x) /\ ~Offer(x)
    BY DEF Ring, Offer
  <2> HIDE DEF x
  <2> QED BY <1>2, <2>2, <2>3
<1>11. (\E c \in Calls : FarEndHangsUp(c)) \/ (\E r \in reports : Reports(r)) => DownKeeps({})
  <2>1. \A x : Neither(x) => ~Ring(x) /\ ~Offer(x)
    BY DEF Neither, Ring, Offer
  <2> QED BY <1>2, <2>1, DownSent
<1> QED BY <1>3, <1>4, <1>5, <1>8, <1>9, <1>10, <1>11, DownAlone

\* Keys and answers.
LEMMA UpMoves ==
  ASSUME TypeInv, Next
  PROVE  \/ AnswerCall /\ KeyOf(screen) \in Ups /\ UpKeeps({KeyOf(screen)})
         \/ \E c \in Calls : AnswerIsSent(c) /\ UpKeeps({[kind |-> "answer", call |-> callID, of |-> described[target[c]]]})
         \/ UpKeeps({})
<1>0. up \in Seq(Ups)
  BY DEF TypeInv
<1>1. \A x \in Ups : up' = Append(up, x) => UpKeeps({x})
  BY <1>0, AppendIn DEF UpKeeps
<1>2. \A x \in Ups : up' = Append(up, x) /\ ~Key(x) /\ ~Answer(x) => UpKeeps({})
  <2>1. SUFFICES ASSUME NEW x \in Ups, up' = Append(up, x), ~Key(x) /\ ~Answer(x)
                 PROVE  UpKeeps({})
    OBVIOUS
  <2>2. UpKeeps({x})
    BY <1>1, <2>1
  <2> QED BY <2>1, <2>2 DEF UpKeeps
<1>3. TakeAnswer \/ HandleSignal \/ TakeEnd => UpKeeps({})
  BY <1>0, TailIn, UpTaken DEF UpKeeps
<1>4. up' = up => UpKeeps({})
  BY DEF UpKeeps
<1>5. AnswerCall => KeyOf(screen) \in Ups /\ UpKeeps({KeyOf(screen)})
  <2>1. KeyOf(screen) \in Ups
    BY DEF TypeInv, Ups, OrNone, KeyOf
  <2>2. AnswerCall => up' = Append(up, KeyOf(screen))
    BY UpSent DEF KeyOf
  <2> QED BY <1>1, <2>1, <2>2
<1>6. EndKey => UpKeeps({})
  <2>1. SUFFICES ASSUME NEW kind \in {"hangup", "reject"}, up' = Append(up, [kind |-> kind, call |-> screen, of |-> None])
                 PROVE  UpKeeps({})
    BY UpSent
  <2> DEFINE x == [kind |-> kind, call |-> screen, of |-> None]
  <2>2. x \in Ups /\ ~Key(x) /\ ~Answer(x)
    BY DEF TypeInv, Ups, OrNone, Key, Answer
  <2> QED BY <1>2, <2>1, <2>2
<1>7. ASSUME NEW c \in Calls, AnswerIsSent(c)
      PROVE  UpKeeps({[kind |-> "answer", call |-> callID, of |-> described[target[c]]]})
  <2>1. target[c] \in Calls
    BY <1>7 DEF AnswerIsSent, Open, TypeInv, OrNone
  <2>2. [kind |-> "answer", call |-> callID, of |-> described[target[c]]] \in Ups
    BY <2>1 DEF TypeInv, Ups
  <2> QED BY <1>1, <1>7, <2>2, UpSent
<1> QED BY <1>3, <1>4, <1>5, <1>6, <1>7, UpAlone

\* The frame the phone hears was ahead of all that are left.
LEMMA HeardFirst ==
  ASSUME TypeInv, Hear
  PROVE  /\ Head(down) \in Downs /\ In(Head(down), down) /\ Heard \in Calls /\ Heard = Head(down).call
         /\ \A m \in Downs : In(m, down') => Ahead(Head(down), m, down)
         /\ HearRing => Ring(Head(down))
         /\ HearOffer => Offer(Head(down))
<1>1. down \in Seq(Downs) /\ down # <<>> /\ down' = Tail(down)
  BY DownSent DEF TypeInv
<1>2. /\ Head(down) \in Downs /\ In(Head(down), down)
      /\ \A m \in Downs : In(m, down') => Ahead(Head(down), m, down)
  BY <1>1, TailIn
<1>3. Heard \in Calls /\ Heard = Head(down).call
  BY <1>2 DEF Heard, Downs
<1>4. (HearRing => Ring(Head(down))) /\ (HearOffer => Offer(Head(down)))
  BY Zenon DEF HearRing, HearOffer, Hears, Ring, Offer
<1> QED BY <1>2, <1>3, <1>4

\* And so was the one the daemon takes.
LEMMA TakenFirst ==
  ASSUME TypeInv, TakeAnswer
  PROVE  /\ Head(up) \in Ups /\ In(Head(up), up) /\ Key(Head(up))
         /\ \A m \in Ups : In(m, up') => Ahead(Head(up), m, up)
<1>1. up \in Seq(Ups) /\ up # <<>> /\ up' = Tail(up)
  BY UpTaken DEF TypeInv
<1>2. Key(Head(up))
  BY DEF TakeAnswer, Takes, Key
<1> QED BY <1>1, <1>2, TailIn

\* A call rings when every call before it is over and nothing is left of one.
LEMMA RingsAfter ==
  ASSUME TypeInv, OneCall, Working, NEW c \in Calls, Rings(c)
  PROVE  /\ active = None /\ leg = None /\ on = None
         /\ \A d \in Calls : Rung(d) => d < c
         /\ ~Rung(c) /\ Rung(c)' /\ UNCHANGED <<leg, legs, on, ui, session, engine, up>>
<1>0. active \in OrNone /\ None \notin Calls /\ far \in [Calls -> {"new", "up", "over"}]
  BY DEF TypeInv, Calls, None
<1>1. far[c] = "new" /\ \A d \in Calls : IF d < c THEN far[d] = "over" ELSE far[d] = "new"
  BY DEF Rings
<1>2. active = None
  BY <1>0, <1>1 DEF OneCall, OrNone
<1>3. \A d \in Calls : Rung(d) => d < c
  BY <1>1 DEF Rung
<1>4. Rung(c)'
  BY <1>0 DEF Rings, Rung
<1>5. UNCHANGED <<leg, legs, on, ui, session, engine, up>>
  BY Zenon DEF Rings
<1> QED BY <1>1, <1>2, <1>3, <1>4, <1>5 DEF Working, Rung

\* While it is calm an answer key that is taken is of the active call.
LEMMA KeyIsActive ==
  ASSUME TypeInv, TakeAnswer, calm', on' # None, on = None
  PROVE  active # None /\ on' = active /\ active = Head(up).call
BY DEF TakeAnswer, NotCalm

\* An answer is of the call whose connection there is.
LEMMA AnswerOf ==
  ASSUME TypeInv, Session, NEW c \in Calls, AnswerIsSent(c)
  PROVE  pc = c /\ described[target[c]] = c
<1>1. target[c] = c
  BY DEF AnswerIsSent, Open, Session
<1>2. pc = c
  BY <1>1 DEF AnswerIsSent, Open, Session
<1> QED BY <1>1, <1>2 DEF AnswerIsSent, Session

\* Who changes what the order is about.
LEMMA OrderMoves ==
  ASSUME AtWork, Next
  PROVE  /\ on' = None \/ on' = on \/ (TakeAnswer /\ on = None /\ on' = active /\ leg' = leg)
         /\ leg' = None \/ leg' = leg \/ (StartPhoneLeg /\ leg' = on /\ on # None /\ on' = on)
         /\ pc' = None \/ pc' = pc \/ (HearOffer /\ pc' = Heard)
         /\ screen' = None \/ screen' = screen \/ (HearRing /\ screen' = Heard)
<1>1. on' = None \/ on' = on \/ (TakeAnswer /\ on = None /\ on' = active /\ leg' = leg)
  <2>1. TakeAnswer => on' = on \/ (on = None /\ on' = active /\ leg' = leg)
    BY DEF TakeAnswer, Takes, AtWork
  <2>2. AnswerFails \/ StartPhoneLeg \/ EmitLooks \/ EmitOffer => on' = None \/ on' = on
    BY DEF AnswerFails, StartPhoneLeg, EmitLooks, EmitOffer
  <2>3. TakeEnd => on' = on
    BY Zenon DEF TakeEnd
  <2>4. \A c \in Calls : Rings(c) \/ FarEndHangsUp(c) => on' = on
    BY Zenon DEF Rings, FarEndHangsUp
  <2> QED BY <2>1, <2>2, <2>3, <2>4, WorkAlone
<1>2. leg' = None \/ leg' = leg \/ (StartPhoneLeg /\ leg' = on /\ on # None /\ on' = on)
  <2>1. StartPhoneLeg => leg' = on /\ on # None /\ on' = on
    BY DEF StartPhoneLeg, AtWork
  <2>2. TakeAnswer \/ AnswerFails \/ EmitLooks \/ EmitOffer => leg' = leg
    BY Zenon DEF TakeAnswer, AnswerFails, EmitLooks, EmitOffer
  <2>3. TakeEnd => leg' = None \/ leg' = leg
    BY DEF TakeEnd, EndCall
  <2>4. \A c \in Calls : Rings(c) \/ FarEndHangsUp(c) => leg' = None \/ leg' = leg
    BY DEF Rings, FarEndHangsUp, EndCall
  <2> QED BY <2>1, <2>2, <2>3, <2>4, WorkAlone
<1>3. DaemonSide => pc' = pc /\ screen' = screen
  BY Sides, Zenon DEF session, ui
<1>4. \A c \in Calls : Chain(c) => pc' = pc /\ screen' = screen
  BY Zenon DEF Chain, MicGranted, MicRefused, RemoteIsSet, AnswerIsSent, ui, session
<1>5. HearIce \/ HearConnected => pc' = pc /\ screen' = screen
  BY DEF HearIce, OtherCall, HearConnected, ui, session
<1>6. HearRing => pc' = pc /\ screen' = Heard
  BY Zenon DEF HearRing, session
<1>7. HearOffer => (pc' = pc \/ pc' = Heard) /\ screen' = screen
  BY DEF HearOffer, OtherCall, ui
<1>8. HearEnded \/ EndKey => pc' = None /\ screen' = None
  BY Zenon DEF HearEnded, EndKey, EndMedia
<1>9. AnswerCall => pc' = pc /\ screen' = screen
  BY Zenon DEF AnswerCall
<1> QED BY <1>1, <1>2, <1>3, <1>4, <1>5, <1>6, <1>7, <1>8, <1>9, Sides, Zenon DEF PhoneSide, Hear

\* Rings stay in order.
LEMMA RingsSortedStep ==
  ASSUME TypeInv, OneCall, AtWork, Working, RingsNew, RingsSorted, Next
  PROVE  RingsSorted'
<1>1. SUFFICES ASSUME NEW m \in Downs, NEW n \in Downs, Ahead(m, n, down'), Ring(m), Ring(n) \/ Offer(n)
               PROVE  ~Offer(n) /\ (Ring(n) => m.call < n.call)
  BY DEF RingsSorted
<1>2. CASE Ahead(m, n, down)
  BY <1>1, <1>2 DEF RingsSorted
<1>3. ASSUME NEW c \in Calls, Rings(c), In(m, down), n = Frame("ring", c)
      PROVE  ~Offer(n) /\ (Ring(n) => m.call < n.call)
  <2>1. Rung(m.call) /\ m.call \in Calls
    BY <1>1, <1>3 DEF RingsNew, Downs
  <2>2. m.call < c
    BY <1>3, <2>1, RingsAfter
  <2> QED BY <1>3, <2>2 DEF Frame, Offer
<1>4. ~(EmitOffer /\ In(m, down))
  BY <1>1 DEF RingsNew, EmitOffer, AtWork
<1>5. ~(n \in {})
  OBVIOUS
<1> QED BY <1>1, <1>2, <1>3, <1>4, <1>5, DownMoves DEF DownKeeps

\* A ring on the way stays ahead of what the user and the daemon are at.
LEMMA RingsNewStep ==
  ASSUME TypeInv, OneCall, AtWork, Working, RingsNew, RingsSorted, KeysBefore, ScreenIsLast, Next, calm'
  PROVE  RingsNew'
<1>0. /\ screen \in OrNone /\ active \in OrNone /\ None \notin Calls /\ None = 0
      /\ \A c \in Calls : c \in Nat /\ 0 < c
  BY DEF TypeInv, Calls, None
<1>1. SUFFICES ASSUME NEW m \in Downs, In(m, down'), Ring(m)
               PROVE  Rung(m.call)' /\ screen' < m.call /\ on' = None /\ leg' = None
  BY DEF RingsNew
<1>2. m.call \in Calls
  BY DEF Downs
<1>3. CASE In(m, down)
  <2>1. Rung(m.call) /\ screen < m.call /\ on = None /\ leg = None
    BY <1>1, <1>3 DEF RingsNew
  <2>2. Rung(m.call)'
    BY <1>2, <2>1, RungStays
  <2>3. screen' < m.call
    <3>1. CASE HearRing
      <4>1. Ring(Head(down)) /\ Head(down) \in Downs /\ Ahead(Head(down), m, down) /\ Heard = Head(down).call
        BY <1>1, <3>1, HeardFirst DEF Hear
      <4> QED BY <1>1, <3>1, <4>1 DEF RingsSorted, HearRing
    <3>2. CASE screen' \in {None, screen}
      BY <1>0, <1>2, <2>1, <3>2
    <3> QED BY <3>1, <3>2, OrderMoves
  <2>4. on' = None
    <3>1. CASE TakeAnswer /\ on' # None
      <4>1. active # None /\ active = Head(up).call
        BY <2>1, <3>1, KeyIsActive
      <4>2. Head(up) \in Ups /\ In(Head(up), up) /\ Key(Head(up))
        BY <3>1, TakenFirst
      <4>3. active < m.call
        BY <1>1, <1>3, <4>1, <4>2 DEF KeysBefore
      <4>4. m.call <= active
        BY <1>2, <2>1, <4>1, ActiveIsLast
      <4> QED BY <1>0, <1>2, <4>1, <4>3, <4>4 DEF OrNone
    <3> QED BY <2>1, <3>1, OrderMoves
  <2>5. leg' = None
    BY <2>1, OrderMoves
  <2> QED BY <2>2, <2>3, <2>4, <2>5
<1>4. ASSUME NEW c \in Calls, Rings(c), m = Frame("ring", c)
      PROVE  Rung(m.call)' /\ screen' < m.call /\ on' = None /\ leg' = None
  <2>1. m.call = c
    BY <1>4 DEF Frame
  <2>2. leg = None /\ on = None /\ Rung(c)' /\ UNCHANGED <<leg, on, screen>> /\ \A d \in Calls : Rung(d) => d < c
    BY <1>4, RingsAfter DEF ui
  <2>3. screen < c
    BY <1>0, <2>2 DEF ScreenIsLast, OrNone
  <2> QED BY <2>1, <2>2, <2>3
<1>5. ~(EmitOffer /\ m = Frame("offer", on))
  BY <1>1 DEF Ring, Frame
<1> QED BY <1>1, <1>3, <1>4, <1>5, DownMoves DEF DownKeeps

\* Keys stay in order, with their answers behind them.
LEMMA KeysSortedStep ==
  ASSUME TypeInv, Session, KeysSorted, KeysRung, KeysApart, Next
  PROVE  KeysSorted'
<1>1. SUFFICES ASSUME NEW m \in Ups, NEW n \in Ups, Ahead(m, n, up'), Key(m), Key(n) \/ Answer(n)
               PROVE  (Key(n) => m.call <= n.call) /\ (Answer(n) => n.of = m.call)
  BY DEF KeysSorted
<1>2. CASE Ahead(m, n, up)
  BY <1>1, <1>2 DEF KeysSorted
<1>3. CASE AnswerCall /\ In(m, up) /\ n = KeyOf(screen)
  <2>1. screen # None
    BY <1>3 DEF AnswerCall
  <2>2. m.call <= screen
    BY <1>1, <1>3, <2>1 DEF KeysRung
  <2> QED BY <1>3, <2>2 DEF KeyOf, Answer
<1>4. ASSUME NEW c \in Calls, AnswerIsSent(c), In(m, up),
             n = [kind |-> "answer", call |-> callID, of |-> described[target[c]]]
      PROVE  (Key(n) => m.call <= n.call) /\ (Answer(n) => n.of = m.call)
  <2>1. pc = c /\ n.of = c /\ ~Key(n)
    BY <1>4, AnswerOf DEF Key
  <2>2. c = m.call
    BY <1>1, <1>4, <2>1 DEF KeysApart, Holds, Calls, None
  <2> QED BY <2>1, <2>2
<1> QED BY <1>1, <1>2, <1>3, <1>4, UpMoves DEF UpKeeps

\* The call of a key on the way rang, and not after the one on the screen.
LEMMA KeysRungStep ==
  ASSUME TypeInv, KeysRung, KeysBefore, ScreenIsLast, AtWork, Next
  PROVE  KeysRung'
<1>0. screen \in OrNone
  BY DEF TypeInv
<1>1. SUFFICES ASSUME NEW m \in Ups, In(m, up'), Key(m)
               PROVE  m.call \in Calls /\ Rung(m.call)' /\ (screen' # None => m.call <= screen')
  BY DEF KeysRung
<1>2. CASE In(m, up)
  <2>1. m.call \in Calls /\ Rung(m.call) /\ (screen # None => m.call <= screen)
    BY <1>1, <1>2 DEF KeysRung
  <2>2. CASE HearRing
    <3>1. Head(down) \in Downs /\ In(Head(down), down) /\ Ring(Head(down)) /\ Heard = Head(down).call /\ screen' = Heard
          /\ Heard \in Calls
      BY <2>2, HeardFirst DEF Hear, HearRing
    <3>2. m.call < Heard
      BY <1>1, <1>2, <3>1 DEF KeysBefore
    <3> QED BY <2>1, <3>1, <3>2, RungStays DEF Calls
  <2> QED BY <2>1, <2>2, RungStays, OrderMoves
<1>3. CASE AnswerCall /\ m = KeyOf(screen)
  <2>1. screen # None /\ screen' = screen /\ m.call = screen /\ screen \in Calls
    BY <1>0, <1>3 DEF AnswerCall, KeyOf, OrNone
  <2>2. Rung(screen)'
    BY <2>1, RungStays DEF ScreenIsLast
  <2> QED BY <2>1, <2>2 DEF Calls
<1>4. \A c \in Calls : m # [kind |-> "answer", call |-> callID, of |-> described[target[c]]]
  BY <1>1 DEF Key
<1> QED BY <1>1, <1>2, <1>3, <1>4, UpMoves DEF UpKeeps

\* The calls of the rings on the way are after those of the keys.
LEMMA KeysBeforeStep ==
  ASSUME TypeInv, OneCall, AtWork, Working, RingsNew, KeysRung, KeysBefore, Next
  PROVE  KeysBefore'
<1>1. SUFFICES ASSUME NEW m \in Ups, NEW n \in Downs, In(m, up'), Key(m), In(n, down'), Ring(n)
               PROVE  m.call < n.call
  BY DEF KeysBefore
<1>2. ASSUME NEW c \in Calls, Rings(c), n = Frame("ring", c)
      PROVE  m.call < n.call
  <2>1. In(m, up) /\ n.call = c
    BY <1>1, <1>2, RingsAfter DEF Frame
  <2> QED BY <1>1, <1>2, <2>1, RingsAfter DEF KeysRung
<1>3. CASE In(n, down)
  <2>1. CASE In(m, up)
    BY <1>1, <1>3, <2>1 DEF KeysBefore
  <2>2. CASE AnswerCall /\ m = KeyOf(screen)
    BY <1>1, <1>3, <2>2 DEF RingsNew, KeyOf
  <2>3. \A c \in Calls : m # [kind |-> "answer", call |-> callID, of |-> described[target[c]]]
    BY <1>1 DEF Key
  <2> QED BY <1>1, <2>1, <2>2, <2>3, UpMoves DEF UpKeeps
<1>4. ~(EmitOffer /\ n = Frame("offer", on))
  BY <1>1 DEF Ring, Frame
<1> QED BY <1>1, <1>2, <1>3, <1>4, DownMoves DEF DownKeeps

\* A call that holds the connection keeps it, unless another call is answered.
LEMMA HoldsStep ==
  ASSUME TypeInv, AtWork, Next, NEW c \in OrNone, Holds(c), EmitOffer => on = c
  PROVE  Holds(c)'
<1>1. pc' \in {None, c}
  <2>1. CASE HearOffer /\ pc' = Heard
    BY <2>1, HeardFirst DEF Hear, Holds
  <2> QED BY <2>1, OrderMoves DEF Holds
<1>2. ASSUME NEW m \in Downs, In(m, down'), Offer(m)
      PROVE  m.call = c
  <2>1. CASE In(m, down)
    BY <1>2, <2>1 DEF Holds
  <2>2. CASE EmitOffer /\ m = Frame("offer", on)
    BY <2>2 DEF Frame
  <2>3. \A d \in Calls : m # Frame("ring", d)
    BY <1>2 DEF Offer, Frame
  <2> QED BY <1>2, <2>1, <2>2, <2>3, DownMoves DEF DownKeeps
<1> QED BY <1>1, <1>2 DEF Holds

\* A key on the way is of the only call there is.
LEMMA KeysApartStep ==
  ASSUME TypeInv, OneCall, AtWork, Session, KeysSorted, KeysRung, KeysApart, ScreenIsLast, Next, calm'
  PROVE  KeysApart'
<1>0. active \in OrNone
  BY DEF TypeInv
<1>1. SUFFICES ASSUME NEW m \in Ups, In(m, up'), Key(m)
               PROVE  Holds(m.call)' /\ Answers(m.call)'
  BY DEF KeysApart
<1>2. CASE In(m, up)
  <2>1. Holds(m.call) /\ Answers(m.call) /\ m.call \in Calls /\ Rung(m.call)
    BY <1>1, <1>2 DEF KeysApart, KeysRung
  <2>2. Holds(m.call)'
    <3>1. EmitOffer => on = m.call
      BY <2>1 DEF EmitOffer, AtWork, Answers
    <3> QED BY <2>1, <3>1, HoldsStep DEF OrNone
  <2>3. on' \in {None, m.call}
    <3>1. CASE TakeAnswer /\ on = None /\ on' # None
      <4>1. active # None /\ on' = active /\ active = Head(up).call
        BY <3>1, KeyIsActive
      <4>2. Head(up) \in Ups /\ Key(Head(up)) /\ Ahead(Head(up), m, up)
        BY <1>1, <3>1, TakenFirst
      <4>3. active <= m.call
        BY <1>1, <4>1, <4>2 DEF KeysSorted
      <4>4. m.call <= active
        BY <2>1, <4>1, ActiveIsLast
      <4> QED BY <1>0, <2>1, <4>1, <4>3, <4>4 DEF OrNone, Calls, None
    <3> QED BY <2>1, <3>1, OrderMoves DEF Answers
  <2>4. leg' \in {None, m.call}
    BY <2>1, OrderMoves DEF Answers
  <2> QED BY <2>2, <2>3, <2>4 DEF Answers
<1>3. CASE AnswerCall /\ m = KeyOf(screen)
  <2>1. m.call = screen /\ screen # None /\ pc = None /\ UNCHANGED <<pc, down, leg, on>>
    BY <1>3 DEF AnswerCall, KeyOf, NotCalm, daemon
  <2> QED BY <2>1 DEF ScreenIsLast, Holds, Answers
<1>4. \A c \in Calls : m # [kind |-> "answer", call |-> callID, of |-> described[target[c]]]
  BY <1>1 DEF Key
<1> QED BY <1>1, <1>2, <1>3, <1>4, UpMoves DEF UpKeeps

\* The daemon is at no call but the one on the screen.
LEMMA ScreenIsLastStep ==
  ASSUME TypeInv, OneCall, AtWork, RingsSorted, RingsNew, KeysRung, ScreenIsLast, Next, calm'
  PROVE  ScreenIsLast'
<1>0. active \in OrNone /\ screen \in OrNone
  BY DEF TypeInv
<1>1. CASE HearRing
  <2>1. /\ Head(down) \in Downs /\ In(Head(down), down) /\ Heard \in Calls /\ Heard = Head(down).call
        /\ Ring(Head(down)) /\ \A m \in Downs : In(m, down') => Ahead(Head(down), m, down)
    BY <1>1, HeardFirst DEF Hear
  <2>2. screen' = Heard /\ UNCHANGED <<leg, on, far>>
    BY <1>1 DEF HearRing, daemon
  <2>3. Rung(Heard) /\ leg = None /\ on = None
    BY <2>1 DEF RingsNew
  <2>4. \A m \in Downs : In(m, down') => ~Offer(m)
    BY <2>1 DEF RingsSorted
  <2>5. Rung(screen)' /\ Answers(screen)'
    BY <2>1, <2>2, <2>3 DEF Rung, Answers
  <2> QED BY <2>4, <2>5 DEF ScreenIsLast
<1>2. CASE screen' = screen /\ screen # None
  <2>1. screen \in Calls /\ Rung(screen) /\ Answers(screen)
    BY <1>0, <1>2 DEF ScreenIsLast, OrNone
  <2>2. Rung(screen)'
    BY <1>2, <2>1, RungStays DEF Rung
  <2>3. on' \in {None, screen}
    <3>1. CASE TakeAnswer /\ on = None /\ on' # None
      <4>1. active # None /\ on' = active /\ active = Head(up).call
        BY <3>1, KeyIsActive
      <4>2. Head(up) \in Ups /\ Key(Head(up)) /\ In(Head(up), up)
        BY <3>1, TakenFirst
      <4>3. active <= screen
        BY <1>2, <4>1, <4>2 DEF KeysRung
      <4>4. screen <= active
        BY <2>1, <4>1, ActiveIsLast
      <4> QED BY <1>0, <2>1, <4>1, <4>3, <4>4 DEF OrNone, Calls, None
    <3> QED BY <2>1, <3>1, OrderMoves DEF Answers
  <2>4. leg' \in {None, screen}
    BY <2>1, OrderMoves DEF Answers
  <2>5. ASSUME NEW m \in Downs, In(m, down'), Offer(m)
        PROVE  m.call = screen
    <3>1. CASE In(m, down)
      BY <1>2, <2>5, <3>1 DEF ScreenIsLast
    <3>2. CASE EmitOffer /\ m = Frame("offer", on)
      BY <2>1, <3>2 DEF Frame, EmitOffer, AtWork, Answers
    <3>3. \A d \in Calls : m # Frame("ring", d)
      BY <2>5 DEF Offer, Frame
    <3> QED BY <2>5, <3>1, <3>2, <3>3, DownMoves DEF DownKeeps
  <2> QED BY <1>2, <2>2, <2>3, <2>4, <2>5 DEF ScreenIsLast, Answers
<1>3. screen' = None => ScreenIsLast'
  BY DEF ScreenIsLast
<1> QED BY <1>1, <1>2, <1>3, OrderMoves

\* What belongs to a call that is answered is apart from the other calls'.
LEMMA LegsApartStep ==
  ASSUME TypeInv, AtWork, Working, Session, KeysSorted, KeysApart, LegsApart, Next, calm'
  PROVE  LegsApart'
<1>0. on \in OrNone /\ leg \in OrNone /\ active \in OrNone /\ None \notin Calls
  BY DEF TypeInv, Calls, None
<1>1. SUFFICES ASSUME NEW c, c \in {on', leg'}, c # None
               PROVE  Holds(c)' /\ \A m \in Ups : In(m, up') /\ Answer(m) => m.of = c
  BY DEF LegsApart
<1>2. CASE c \in {on, leg}
  <2>1. Holds(c) /\ \A m \in Ups : In(m, up) /\ Answer(m) => m.of = c
    BY <1>1, <1>2 DEF LegsApart
  <2>2. EmitOffer => on = c
    BY <1>1, <1>2 DEF EmitOffer, AtWork, Working
  <2>3. Holds(c)'
    BY <1>0, <1>2, <2>1, <2>2, HoldsStep
  <2>4. ASSUME NEW m \in Ups, In(m, up'), Answer(m)
        PROVE  m.of = c
    <3>1. CASE In(m, up)
      BY <2>1, <2>4, <3>1
    <3>2. m # KeyOf(screen)
      BY <2>4 DEF KeyOf, Answer
    <3>3. ASSUME NEW d \in Calls, AnswerIsSent(d),
                 m = [kind |-> "answer", call |-> callID, of |-> described[target[d]]]
          PROVE  m.of = c
      <4>1. pc = d /\ m.of = d
        BY <3>3, AnswerOf
      <4> QED BY <1>0, <2>1, <4>1 DEF Holds
    <3> QED BY <2>4, <3>1, <3>2, <3>3, UpMoves DEF UpKeeps
  <2> QED BY <2>3, <2>4
<1>3. CASE TakeAnswer /\ on = None /\ c = on'
  <2>1. active # None /\ c = active /\ active = Head(up).call
    BY <1>1, <1>3, KeyIsActive
  <2>2. /\ Head(up) \in Ups /\ Key(Head(up)) /\ In(Head(up), up)
        /\ \A m \in Ups : In(m, up') => Ahead(Head(up), m, up)
    BY <1>3, TakenFirst
  <2>3. Holds(c)
    BY <2>1, <2>2 DEF KeysApart
  <2>4. ~EmitOffer
    BY <1>3 DEF TakeAnswer, Takes, EmitOffer
  <2>5. Holds(c)'
    BY <1>0, <2>1, <2>3, <2>4, HoldsStep
  <2>6. \A m \in Ups : In(m, up') /\ Answer(m) => m.of = c
    BY <2>1, <2>2 DEF KeysSorted
  <2> QED BY <2>5, <2>6
<1> QED BY <1>1, <1>2, <1>3, OrderMoves

-----------------------------------------------------------------------------
(* Candidates                                                              *)

\* Only the answer to a call gives it a leg.
LEMMA LegsGiven ==
  ASSUME TypeInv, Unused, Next, NEW c \in Calls, legs[c] = "none", ~(StartPhoneLeg /\ c = on)
  PROVE  legs'[c] = "none"
<1>1. ~Drops(c)
  BY DEF Drops, Unused
<1>2. c # leg
  BY DEF Unused, Calls, None
<1> QED BY <1>1, <1>2, LegsMove

\* Who changes whether the user is in the call.
LEMMA InCallMoves ==
  ASSUME Next
  PROVE  \/ AnswerCall
         \/ HearRing /\ ~inCall'
         \/ screen' = None /\ ~inCall'
         \/ UNCHANGED <<screen, inCall>>
<1>1. DaemonSide => UNCHANGED <<screen, inCall>>
  BY Sides, Zenon DEF ui
<1>2. \A c \in Calls : Chain(c) => UNCHANGED <<screen, inCall>>
  BY Zenon DEF Chain, MicGranted, MicRefused, RemoteIsSet, AnswerIsSent, ui
<1>3. HearOffer \/ HearIce \/ HearConnected => UNCHANGED <<screen, inCall>>
  BY Zenon DEF HearOffer, HearIce, HearConnected, ui
<1>4. HearRing => ~inCall'
  BY DEF HearRing
<1>5. HearEnded \/ EndKey => screen' = None /\ ~inCall'
  BY DEF HearEnded, EndKey
<1> QED BY <1>1, <1>2, <1>3, <1>4, <1>5, Sides, Zenon DEF PhoneSide, Hear

\* A call that can still be answered has no leg.
LEMMA FreshStep ==
  ASSUME TypeInv, OneCall, AtWork, Working, Unused, RingsNew, RingsSorted, KeysRung, KeysBefore, ScreenIsLast,
         Fresh, Next, calm'
  PROVE  Fresh'
<1>0. screen \in OrNone /\ active \in OrNone /\ None \notin Calls
  BY DEF TypeInv, Calls, None
<1>1. ASSUME NEW c \in Calls, ~Rung(c)'
      PROVE  legs'[c] = "none"
  <2>1. ~Rung(c)
    BY <1>1, RungStays
  <2>2. ~(StartPhoneLeg /\ c = on)
    <3>1. c = on => c = active
      BY <1>0 DEF Working
    <3>2. c = active => far[c] = "up"
      BY DEF OneCall
    <3> QED BY <2>1, <3>1, <3>2 DEF Rung
  <2> QED BY <2>1, <2>2, LegsGiven DEF Fresh
<1>2. ASSUME NEW m \in Downs, In(m, down'), Ring(m)
      PROVE  legs'[m.call] = "none"
  <2>0. m.call \in Calls
    BY DEF Downs
  <2>1. CASE In(m, down)
    <3>1. legs[m.call] = "none" /\ on = None
      BY <1>2, <2>1 DEF Fresh, RingsNew
    <3> QED BY <1>0, <2>0, <3>1, LegsGiven
  <2>2. ASSUME NEW c \in Calls, Rings(c), m = Frame("ring", c)
        PROVE  legs'[m.call] = "none"
    BY <2>2, RingsAfter DEF Frame, Fresh
  <2>3. ~(EmitOffer /\ m = Frame("offer", on))
    BY <1>2 DEF Ring, Frame
  <2> QED BY <1>2, <2>1, <2>2, <2>3, DownMoves DEF DownKeeps
<1> DEFINE Waits == screen # None /\ ~inCall =>
                      /\ legs[screen] = "none" /\ on = None
                      /\ \A m \in Ups : In(m, up) /\ Key(m) => m.call < screen
<1>3. ASSUME HearRing
      PROVE  Waits'
  <2>1. /\ Head(down) \in Downs /\ In(Head(down), down) /\ Heard \in Calls /\ Heard = Head(down).call
        /\ Ring(Head(down))
    BY <1>3, HeardFirst DEF Hear
  <2>2. screen' = Heard /\ UNCHANGED <<legs, on, up>>
    BY <1>3 DEF HearRing, daemon
  <2>3. legs[Heard] = "none" /\ on = None
    BY <2>1 DEF Fresh, RingsNew
  <2>4. \A m \in Ups : In(m, up) /\ Key(m) => m.call < Heard
    BY <2>1 DEF KeysBefore
  <2> QED BY <2>2, <2>3, <2>4
<1>4. AnswerCall \/ screen' = None => Waits'
  BY DEF AnswerCall
<1>5. ASSUME UNCHANGED <<screen, inCall>>, screen # None, ~inCall
      PROVE  Waits'
  <2>0. screen \in Calls
    BY <1>0, <1>5 DEF OrNone
  <2>1. legs[screen] = "none" /\ on = None /\ \A m \in Ups : In(m, up) /\ Key(m) => m.call < screen
    BY <1>5 DEF Fresh
  <2>2. legs'[screen] = "none"
    BY <1>0, <2>0, <2>1, LegsGiven
  <2>3. on' = None
    <3>1. CASE TakeAnswer /\ on' # None
      <4>1. active # None /\ on' = active /\ active = Head(up).call
        BY <2>1, <3>1, KeyIsActive
      <4>2. Head(up) \in Ups /\ Key(Head(up)) /\ In(Head(up), up)
        BY <3>1, TakenFirst
      <4>3. active < screen
        BY <2>1, <4>1, <4>2
      <4>4. screen <= active
        BY <1>5, <2>0, <4>1, ActiveIsLast DEF ScreenIsLast
      <4> QED BY <1>0, <2>0, <4>1, <4>3, <4>4 DEF OrNone, Calls, None
    <3> QED BY <2>1, <3>1, OrderMoves
  <2>4. ASSUME NEW m \in Ups, In(m, up'), Key(m)
        PROVE  m.call < screen
    <3>1. CASE AnswerCall
      BY <1>5, <3>1 DEF AnswerCall
    <3>2. \A c \in Calls : m # [kind |-> "answer", call |-> callID, of |-> described[target[c]]]
      BY <2>4 DEF Key
    <3> QED BY <2>1, <2>4, <3>1, <3>2, UpMoves DEF UpKeeps
  <2> QED BY <1>5, <2>2, <2>3, <2>4
<1>6. Waits'
  BY <1>3, <1>4, <1>5, InCallMoves
<1> QED BY <1>1, <1>2, <1>6 DEF Fresh

\* A candidate under way stays so until the phone hears it.
LEMMA UnderwayStep ==
  ASSUME TypeInv, AtWork, Next, NEW c \in Calls, NEW n \in 1..gathered'[c],
         n \in 1..gathered[c] => Underway(c, n)
  PROVE  Underway(c, n)' \/ (HearIce /\ Head(down) = Ice(c, n))
<1>0. /\ down \in Seq(Downs) /\ gathered \in [Calls -> 0..MaxIce] /\ emitting \subseteq Calls
  BY DEF TypeInv
<1>1. ASSUME NEW d \in Calls, Gather(d)
      PROVE  Underway(c, n)'
  <2>1. /\ d \notin emitting /\ gathered' = [gathered EXCEPT ![d] = @ + 1] /\ emitting' = emitting \cup {d} /\ down' = down
    BY <1>1 DEF Gather
  <2>2. CASE n \in 1..gathered[c]
    <3>1. In(Ice(c, n), down) \/ (c # d /\ c \in emitting /\ gathered[c] = n)
      BY <2>1, <2>2 DEF Underway
    <3>2. In(Ice(c, n), down') \/ (c \in emitting' /\ gathered'[c] = n)
      BY <1>0, <2>1, <3>1
    <3> QED BY <3>2 DEF Underway
  <2>3. CASE n \notin 1..gathered[c]
    <3>1. c = d /\ gathered'[c] = n
      BY <1>0, <2>1, <2>3, BoundAssumption
    <3> QED BY <2>1, <3>1 DEF Underway
  <2> QED BY <2>2, <2>3
<1>2. ASSUME gathered' = gathered
      PROVE  n \in 1..gathered[c] /\ Underway(c, n)
  BY <1>2
<1>3. ASSUME NEW d \in Calls, EmitCandidate(d)
      PROVE  Underway(c, n)'
  <2>1. /\ gathered' = gathered /\ emitting' = emitting \ {d} /\ down' = Append(down, Ice(d, gathered[d]))
    BY <1>3 DEF EmitCandidate, Ice
  <2>2. Ice(d, gathered[d]) \in Downs
    BY <1>0 DEF Ice, Downs
  <2>3. In(Ice(d, gathered[d]), down') /\ \A m : In(m, down) => In(m, down')
    BY <1>0, <2>1, <2>2, AppendIn
  <2>4. In(Ice(c, n), down') \/ (c \in emitting' /\ gathered'[c] = n)
    BY <1>2, <2>1, <2>3 DEF Underway
  <2> QED BY <2>4 DEF Underway
<1>4. ASSUME UNCHANGED <<gathered, emitting>>, \A m : In(m, down) => In(m, down')
      PROVE  Underway(c, n)'
  <2>1. In(Ice(c, n), down') \/ (c \in emitting' /\ gathered'[c] = n)
    BY <1>2, <1>4 DEF Underway
  <2> QED BY <2>1 DEF Underway
<1>5. CASE Hear
  <2>1. UNCHANGED <<gathered, emitting>>
    BY <1>5, Sides, Zenon DEF PhoneSide, pion
  <2>2. down # <<>> /\ down' = Tail(down)
    BY <1>5, DownSent
  <2>3. \A m : In(m, down) => m = Head(down) \/ In(m, down')
    BY <1>0, <2>2, TailIn
  <2>4. CASE In(Ice(c, n), down) /\ ~In(Ice(c, n), down')
    <3>1. Head(down) = Ice(c, n)
      BY <2>3, <2>4
    <3>2. Head(down).kind = "ice"
      BY <3>1 DEF Ice
    <3> QED BY <1>5, <3>1, <3>2 DEF Hear, HearOffer, HearRing, HearConnected, HearEnded, Hears
  <2>5. In(Ice(c, n), down') \/ (c \in emitting' /\ gathered'[c] = n) \/ (In(Ice(c, n), down) /\ ~In(Ice(c, n), down'))
    BY <1>2, <2>1 DEF Underway
  <2> QED BY <2>4, <2>5 DEF Underway
<1>6. CASE UNCHANGED <<gathered, emitting>> /\ ~Hear
  <2>1. \A x \in Downs : down' = Append(down, x) => \A m : In(m, down) => In(m, down')
    BY <1>0, AppendIn
  <2>2. EmitOffer \/ AnswerFails => on \in Calls
    BY DEF EmitOffer, AnswerFails, AtWork, TypeInv, OrNone
  <2>3. on \in Calls => Frame("offer", on) \in Downs /\ Frame("ended", on) \in Downs
    BY BoundAssumption DEF Frame, Downs
  <2>4. down' = down \/ \E x \in Downs : down' = Append(down, x)
    BY <1>6, <2>2, <2>3, DownSent, DownAlone
  <2> QED BY <1>4, <1>6, <2>1, <2>4
<1> QED BY <1>1, <1>3, <1>5, <1>6, EmitAlone

\* What the connection or the queue has of a call the user is in stays there.
LEMMA GivenStays ==
  ASSUME TypeInv, Session, InCall, Next, NEW k \in Candidates, inCall, k.call = screen,
         UNCHANGED <<screen, inCall>>, k \in cands[screen] \cup pending
  PROVE  k \in (cands[screen] \cup pending)'
<1>0. screen \in Calls /\ callID = screen /\ cands \in [Calls -> SUBSET Candidates] /\ None \notin Calls
  BY DEF TypeInv, InCall, OrNone, Calls, None
<1>1. CASE HearIce
  <2>1. \/ UNCHANGED <<pending, cands>>
        \/ \E j : pending' = pending \cup {j} /\ UNCHANGED cands
        \/ \E p, ks : Gives(p, ks) /\ UNCHANGED pending
    BY <1>1 DEF HearIce, OtherCall
  <2>2. \A p, ks : Gives(p, ks) => cands[screen] \subseteq cands'[screen]
    BY <1>0 DEF Gives
  <2> QED BY <2>1, <2>2
<1>2. ASSUME NEW c \in Calls, RemoteIsSet(c)
      PROVE  k \in (cands[screen] \cup pending)'
  <2>1. Open(c) /\ Gives(pc, pending)
    BY <1>2 DEF RemoteIsSet
  <2>2. pc = screen
    BY <1>0, <2>1 DEF Open, Session
  <2>3. cands'[screen] = cands[screen] \cup pending
    BY <1>0, <2>1, <2>2 DEF Gives
  <2> QED BY <2>3
<1>3. UNCHANGED <<pending, cands>> => k \in (cands[screen] \cup pending)'
  OBVIOUS
<1>4. DaemonSide => UNCHANGED <<pending, cands>>
  BY Sides, Zenon DEF session, engine
<1>5. HearOffer \/ HearRing \/ HearConnected => UNCHANGED <<pending, cands>>
  BY DEF HearOffer, OtherCall, HearRing, HearConnected, session, engine
<1>6. ~(HearEnded \/ EndKey \/ AnswerCall)
  BY DEF HearEnded, EndKey, AnswerCall
<1>7. \A c \in Calls : MicGranted(c) \/ MicRefused(c) \/ AnswerIsSent(c) => UNCHANGED <<pending, cands>>
  BY Zenon DEF MicGranted, MicRefused, AnswerIsSent, session
<1> QED BY <1>1, <1>2, <1>3, <1>4, <1>5, <1>6, <1>7, Sides DEF PhoneSide, Hear, Chain

\* No candidate of the call the user is in is lost.
LEMMA NoneLostStep ==
  ASSUME TypeInv, AtWork, Session, InCall, Unused, Fresh, NoneLost, Next, calm'
  PROVE  NoneLost'
<1>1. SUFFICES ASSUME inCall', NEW n \in 1..gathered'[screen']
               PROVE  Underway(screen, n)' \/ ([call |-> screen, n |-> n] \in cands[screen] \cup pending)'
  BY DEF NoneLost
<1>2. CASE AnswerCall
  <2>1. screen \in Calls /\ legs[screen] = "none" /\ UNCHANGED <<screen, gathered>>
    BY <1>2 DEF AnswerCall, Fresh, TypeInv, OrNone, pion
  <2>2. gathered'[screen'] = 0
    BY <2>1 DEF Unused
  <2> QED BY <1>1, <2>2
<1>3. CASE inCall /\ UNCHANGED <<screen, inCall>>
  <2>0. screen \in Calls /\ callID = screen /\ n \in 1..gathered'[screen]
    BY <1>1, <1>3 DEF InCall, TypeInv, OrNone
  <2> DEFINE k == [call |-> screen, n |-> n]
  <2>1. CASE n \in 1..gathered[screen] /\ k \in cands[screen] \cup pending
    <3>1. k \in Candidates /\ k.call = screen
      BY <2>0, <2>1, BoundAssumption DEF TypeInv, Candidates
    <3>2. k \in (cands[screen] \cup pending)'
      BY <1>3, <2>1, <3>1, GivenStays
    <3> QED BY <1>3, <3>2
  <2>2. CASE n \in 1..gathered[screen] => Underway(screen, n)
    <3>1. CASE HearIce /\ Head(down) = Ice(screen, n)
      <4>1. Heard = screen /\ Head(down).n = n
        BY <3>1 DEF Heard, Ice
      <4>2. ~OtherCall
        BY <2>0, <4>1 DEF OtherCall
      <4>3. (Gives(pc, {k}) /\ pc # None) \/ pending' = pending \cup {k}
        BY <3>1, <4>1, <4>2 DEF HearIce
      <4>4. pc # None => pc = screen
        BY <2>0 DEF Session
      <4>5. k \in (cands[screen] \cup pending)'
        BY <1>3, <2>0, <4>3, <4>4 DEF Gives, TypeInv
      <4> QED BY <1>3, <4>5
    <3>2. CASE Underway(screen, n)'
      BY <3>2
    <3> QED BY <1>3, <2>0, <2>2, <3>1, <3>2, UnderwayStep DEF Underway
  <2>3. n \in 1..gathered[screen] => Underway(screen, n) \/ k \in cands[screen] \cup pending
    BY <1>3 DEF NoneLost
  <2> QED BY <2>1, <2>2, <2>3
<1> QED BY <1>1, <1>2, <1>3, InCallMoves

-----------------------------------------------------------------------------
(* The theorems                                                            *)

\* At first there is no call.
LEMMA InvInit == Init => IInv
<1>1. SUFFICES ASSUME Init
               PROVE  IInv
  OBVIOUS
<1>0. None \in OrNone /\ None \notin Calls /\ 0 \in 0..MaxIce
  BY BoundAssumption DEF OrNone, Calls, None
<1>2. TypeInv
  <2>1. up \in Seq(Ups) /\ down \in Seq(Downs) /\ emitting = {} /\ \A i \in 1..Len(down) : FALSE
    BY <1>1 DEF Init
  <2>2. Numbered
    BY <2>1 DEF Numbered
  <2>3. /\ gathered \in [Calls -> 0..MaxIce]
        /\ answered \in [Calls -> OrNone] /\ described \in [Calls -> OrNone] /\ target \in [Calls -> OrNone]
        /\ cands \in [Calls -> SUBSET Candidates]
    BY <1>0, <1>1 DEF Init
  <2> QED BY <1>0, <1>1, <2>1, <2>2, <2>3 DEF Init, TypeInv
<1>3. OneCall /\ AtWork /\ InCall /\ Unused
  BY <1>0, <1>1 DEF Init, OneCall, AtWork, InCall, Unused, Rung
<1>4. (\A m : ~In(m, down) /\ ~In(m, up)) /\ (\A m, n : ~Ahead(m, n, down) /\ ~Ahead(m, n, up))
  BY <1>1 DEF Init, In, Ahead
<1>5. Order
  BY <1>1, <1>4 DEF Init, Order, RingsSorted, RingsNew, KeysSorted, KeysRung, KeysBefore, KeysApart, ScreenIsLast, LegsApart
<1>6. Working /\ Session /\ Matched
  BY <1>0, <1>1 DEF Init, Working, Session, Matched
<1>7. Fresh
  BY <1>1, <1>4 DEF Init, Fresh
<1>8. NoneLost
  BY <1>1 DEF Init, NoneLost
<1> QED BY <1>2, <1>3, <1>5, <1>6, <1>7, <1>8 DEF IInv, Calm

\* Every step keeps the types.
LEMMA TypeStep == TypeInv /\ AtWork /\ Next => TypeInv'
BY DaemonTypes, PhoneTypes, Sides DEF AtWork, TypeInv, OrNone

\* Every step keeps the invariant.
LEMMA InvStep == IInv /\ [Next]_vars => IInv'
<1>1. ASSUME IInv, Next
      PROVE  IInv'
  <2>1. TypeInv /\ OneCall /\ AtWork /\ InCall /\ Unused /\ (calm => Calm)
    BY <1>1 DEF IInv
  <2>2. TypeInv' /\ OneCall' /\ AtWork' /\ InCall' /\ Unused'
    BY <1>1, <2>1, TypeStep, OneCallStep, AtWorkStep, InCallStep, UnusedStep
  <2>3. ASSUME calm'
        PROVE  Calm'
    <3>1. /\ Working /\ Session /\ Matched /\ Fresh /\ NoneLost
          /\ RingsSorted /\ RingsNew /\ KeysSorted /\ KeysRung /\ KeysBefore /\ KeysApart /\ ScreenIsLast /\ LegsApart
      BY <1>1, <2>1, <2>3, CalmBefore DEF Calm, Order
    <3>2. Working' /\ Session' /\ Matched' /\ Fresh' /\ NoneLost'
      BY <1>1, <2>1, <2>3, <3>1, WorkingStep, SessionStep, MatchedStep, FreshStep, NoneLostStep
    <3>3. RingsSorted' /\ RingsNew' /\ KeysSorted' /\ KeysRung'
      BY <1>1, <2>1, <2>3, <3>1, RingsSortedStep, RingsNewStep, KeysSortedStep, KeysRungStep
    <3>4. KeysBefore' /\ KeysApart' /\ ScreenIsLast' /\ LegsApart'
      BY <1>1, <2>1, <2>3, <3>1, KeysBeforeStep, KeysApartStep, ScreenIsLastStep, LegsApartStep
    <3> QED BY <3>2, <3>3, <3>4 DEF Calm, Order
  <2> QED BY <2>2, <2>3 DEF IInv
<1>2. ASSUME IInv, UNCHANGED vars
      PROVE  IInv'
  <2>1. /\ UNCHANGED <<far, active, leg, legs, answered, linked, step, on, gathered, emitting, reports, up, down>>
        /\ UNCHANGED <<screen, inCall, status, callID, pc, haveRemote, pending, localStream>>
        /\ UNCHANGED <<chain, target, pcs, described, cands, mics, denied, calm>>
    BY <1>2 DEF vars, daemon, pion, ui, session, engine
  <2>2. TypeInv'
    BY <1>2, <2>1 DEF IInv, TypeInv, Numbered
  <2>3. OneCall' /\ AtWork' /\ InCall' /\ Unused'
    BY <1>2, <2>1 DEF IInv, OneCall, AtWork, InCall, Unused, Rung
  <2>4. calm => Order'
    BY <1>2, <2>1 DEF IInv, Calm, Order, RingsSorted, RingsNew, KeysSorted, KeysRung, KeysBefore, KeysApart, ScreenIsLast,
                      LegsApart, Rung, Holds, Answers
  <2>5. calm => Working' /\ Session' /\ Matched' /\ Fresh' /\ NoneLost'
    BY <1>2, <2>1 DEF IInv, Calm, Working, Session, Matched, Fresh, NoneLost, Rung, Underway
  <2> QED BY <2>1, <2>2, <2>3, <2>4, <2>5 DEF IInv, Calm
<1> QED BY <1>1, <1>2

\* The invariant holds.
LEMMA Invariance == Spec => []IInv
BY InvInit, InvStep, PTL DEF Spec

\* The module's variables have their types, for any number of calls.
THEOREM SignallingTypeCorrect == Spec => []TypeOK
<1>1. IInv => TypeOK
  BY TypeOKIs DEF IInv
<1> QED BY Invariance, <1>1, PTL

\* Late frames of a call that is over do not tear into the next one
\* (call_test.js:185): while nothing goes out of order every connection has its
\* own offer and candidates, and every leg its own answer.
THEOREM SessionsDoNotMixInvariant == Spec => []SessionsDoNotMix
<1>1. IInv => SessionsDoNotMix
  BY DEF IInv, Calm, Matched, SessionsDoNotMix
<1> QED BY Invariance, <1>1, PTL

\* A candidate under way is one on the way.
LEMMA UnderwayIs ==
  ASSUME TypeInv, NEW c \in Calls, NEW n, Underway(c, n)
  PROVE  n \in OnTheWay(c)
<1>1. down \in Seq(Downs)
  BY DEF TypeInv
<1>2. CASE c \in emitting /\ gathered[c] = n
  BY <1>2 DEF OnTheWay
<1>3. CASE In(Ice(c, n), down)
  <2>1. PICK i \in 1..Len(down) : down[i] = Ice(c, n)
    BY <1>3 DEF In
  <2>2. i \in DOMAIN down
    BY <1>1, <2>1
  <2>3. down[i].kind = "ice" /\ down[i].call = c /\ down[i].n = n
    BY <2>1 DEF Ice
  <2> QED BY <2>2, <2>3 DEF OnTheWay
<1> QED BY <1>2, <1>3 DEF Underway

\* No candidate of the call the user is in is lost (call_test.js:163).
THEOREM NoCandidateIsLostInvariant == Spec => []NoCandidateIsLost
<1>1. ASSUME IInv
      PROVE  NoCandidateIsLost
  <2>1. SUFFICES ASSUME calm, inCall, NEW n \in 1..gathered[screen]
                 PROVE  n \in OnTheWay(screen) \/ [call |-> screen, n |-> n] \in cands[screen] \cup pending
    BY DEF NoCandidateIsLost
  <2>2. screen \in Calls
    BY <1>1, <2>1 DEF IInv, InCall, TypeInv, OrNone
  <2>3. Underway(screen, n) \/ [call |-> screen, n |-> n] \in cands[screen] \cup pending
    BY <1>1, <2>1 DEF IInv, Calm, NoneLost
  <2> QED BY <1>1, <2>2, <2>3, UnderwayIs DEF IInv
<1> QED BY Invariance, <1>1, PTL

=============================================================================
