------------------------------ MODULE LiveProofs ------------------------------
(***************************************************************************)
(* Theorems about LiveLocation, for every set of chats, any number of       *)
(* connections and all bounds on what the user does: while nothing goes     *)
(* wrong on the way no GPS watch runs unseen, and the bar goes only when    *)
(* the daemon runs no share in that chat.                                   *)
(*                                                                         *)
(* The second fact is about what is under way in both directions.  A start  *)
(* is at one place at a time: in a frame to the daemon, with a handler, or  *)
(* in a confirmation to the phone (Flight), and it is there only while the  *)
(* phone waits for it.  So when a share is on the screen nothing that could *)
(* open another is under way, and whatever says that the chat's share has   *)
(* ended was said of the last one (EndsKnown), or is about to be said by a  *)
(* handler, truly unless it has been overtaken (EndsTrue).                  *)
(***************************************************************************)
EXTENDS LiveLocation, TLAPS

Jobs ==
  {Idle} \cup [at : {"start"}, chat : Chats] \cup [at : {"update"}, chat : Chats, id : Nat]
    \cup [at : {"tell"}, chat : Chats, on : BOOLEAN]
Shares == {NoShare} \cup [id : Nat \ {0}, broken : BOOLEAN, over : BOOLEAN]
Reports == [chat : Chats, active : BOOLEAN]

\* What the proofs need of the types.  That a share's number is among the starts
\* that were made is not part of it.
TypeInv ==
  /\ wanted \subseteq Chats
  /\ active \in BOOLEAN /\ pending \in BOOLEAN /\ over \in BOOLEAN
  /\ confirm \in BOOLEAN /\ calm \in BOOLEAN /\ overtaken \in BOOLEAN
  /\ chat \in Chats \cup {NoChat}
  /\ active \/ pending => chat \in Chats
  /\ cur \in Nat /\ running \subseteq Nat /\ begun \in Nat /\ ticks \in Nat
  /\ conn \in Conns
  /\ up \in [Conns -> Seq(Frames)]
  /\ down \in Seq(Reports)
  /\ job \in [Conns -> Jobs]
  /\ share \in [Chats -> Shares]
  /\ opened \in Nat

\* A watch runs only for the share on the phone, and a chat that waits for its
\* first fix is the only one and the phone has no share.
Patient ==
  /\ wanted # {} => ~active /\ ~pending
  /\ \A c, d \in wanted : c = d
  /\ running \subseteq {cur}
  /\ running # {} => active \/ pending

Starting(s) == \E i \in 1..Len(s) : s[i].act = "start"
StartsOnce(s, c) ==
  \A i, j \in 1..Len(s) :
    s[i].act = "start" => s[i].chat = c /\ (s[j].act = "start" => i = j)

Confirming(s) == \E i \in 1..Len(s) : s[i].active
ConfirmsOnce(s, c) ==
  \A i, j \in 1..Len(s) :
    s[i].active => s[i].chat = c /\ (s[j].active => i = j)

Confirms(n) == job[n].at = "tell" /\ job[n].on
Opens(n) == job[n].at = "start" \/ Confirms(n)
Carries(n) == Starting(up[n]) \/ Opens(n)

\* A start is at one place at a time, about the phone's chat, and awaited.
Flight ==
  /\ \A n \in Conns : StartsOnce(up[n], chat)
  /\ ConfirmsOnce(down, chat)
  /\ \A n \in Conns : Opens(n) => job[n].chat = chat /\ ~Starting(up[n])
  /\ \A n, m \in Conns : Carries(n) /\ Carries(m) => n = m
  /\ \A n \in Conns : Carries(n) => ~Confirming(down) /\ pending /\ ~active
  /\ Confirming(down) => pending /\ ~active

\* A report that a share has ended is true, or a confirmation follows it, which
\* a handler may still owe.
EndsKnown(s, table, owed) ==
  \A i \in 1..Len(s) :
    ~s[i].active => table[s[i].chat].id = 0 \/ owed \/ \E j \in i+1..Len(s) : s[j].active
Owed == \E n \in Conns : Confirms(n)

\* So is one that a handler is about to make.
EndsTrue == \A n \in Conns : job[n].at = "tell" /\ ~job[n].on => share[job[n].chat].id = 0

Known == ~overtaken => EndsKnown(down, share, Owed) /\ EndsTrue

\* No fix under way is a failed one.
AllPlaces == \A n \in Conns : \A i \in 1..Len(up[n]) : up[n][i].good

IInv == TypeInv /\ (calm => Patient /\ AllPlaces /\ Flight /\ Known)

-----------------------------------------------------------------------------
(* Sequences                                                               *)

\* What is left of a connection's frames when the first is taken.
LEMMA TailStarts ==
  ASSUME NEW s \in Seq(Frames), s # <<>>, NEW c, StartsOnce(s, c)
  PROVE  /\ StartsOnce(Tail(s), c)
         /\ Starting(Tail(s)) => Starting(s)
         /\ Head(s).act = "start" => Starting(s) /\ Head(s).chat = c /\ ~Starting(Tail(s))
<1>1. Len(s) \in Nat /\ 1 \in 1..Len(s) /\ Len(Tail(s)) = Len(s) - 1 /\ Head(s) = s[1]
  OBVIOUS
<1>2. \A i \in 1..Len(Tail(s)) : i + 1 \in 1..Len(s) /\ Tail(s)[i] = s[i + 1] /\ i + 1 # 1
  BY <1>1
<1>3. StartsOnce(Tail(s), c)
  <2>1. SUFFICES ASSUME NEW i \in 1..Len(Tail(s)), NEW j \in 1..Len(Tail(s)),
                        Tail(s)[i].act = "start"
                 PROVE  Tail(s)[i].chat = c /\ (Tail(s)[j].act = "start" => i = j)
    BY DEF StartsOnce
  <2>2. s[i + 1].chat = c /\ (s[j + 1].act = "start" => i + 1 = j + 1)
    BY <1>2, <2>1 DEF StartsOnce
  <2> QED BY <1>1, <1>2, <2>2
<1>4. Starting(Tail(s)) => Starting(s)
  BY <1>2 DEF Starting
<1>5. Head(s).act = "start" => Starting(s) /\ Head(s).chat = c
  BY <1>1 DEF Starting, StartsOnce
<1>6. Head(s).act = "start" => ~Starting(Tail(s))
  <2>1. SUFFICES ASSUME s[1].act = "start", NEW i \in 1..Len(Tail(s)), Tail(s)[i].act = "start"
                 PROVE  FALSE
    BY <1>1 DEF Starting
  <2>2. s[i + 1].act = "start" /\ i + 1 \in 1..Len(s) /\ i + 1 # 1
    BY <1>2, <2>1
  <2> QED BY <1>1, <2>1, <2>2 DEF StartsOnce
<1> QED BY <1>3, <1>4, <1>5, <1>6

\* A frame sent on a connection.
LEMMA AppendStarts ==
  ASSUME NEW s \in Seq(Frames), NEW f \in Frames, NEW c, StartsOnce(s, c)
  PROVE  /\ f.act # "start" => /\ StartsOnce(Append(s, f), c)
                               /\ Starting(Append(s, f)) => Starting(s)
         /\ ~Starting(s) => StartsOnce(Append(s, f), f.chat)
<1> DEFINE t == Append(s, f)
<1>1. Len(s) \in Nat /\ Len(t) = Len(s) + 1 /\ t[Len(s) + 1] = f
  OBVIOUS
<1>2. \A i \in 1..Len(t) : i = Len(s) + 1 \/ (i \in 1..Len(s) /\ t[i] = s[i])
  OBVIOUS
<1> HIDE DEF t
<1>3. f.act # "start" => StartsOnce(t, c)
  <2>1. SUFFICES ASSUME f.act # "start", NEW i \in 1..Len(t), NEW j \in 1..Len(t),
                        t[i].act = "start"
                 PROVE  t[i].chat = c /\ (t[j].act = "start" => i = j)
    BY DEF StartsOnce
  <2>2. i \in 1..Len(s) /\ t[i] = s[i]
    BY <1>1, <1>2, <2>1
  <2>3. t[j].act = "start" => j \in 1..Len(s) /\ t[j] = s[j]
    BY <1>1, <1>2, <2>1
  <2> QED BY <2>1, <2>2, <2>3 DEF StartsOnce
<1>4. f.act # "start" => (Starting(t) => Starting(s))
  BY <1>1, <1>2 DEF Starting
<1>5. ~Starting(s) => StartsOnce(t, f.chat)
  <2>1. SUFFICES ASSUME ~Starting(s), NEW i \in 1..Len(t), NEW j \in 1..Len(t),
                        t[i].act = "start"
                 PROVE  t[i].chat = f.chat /\ (t[j].act = "start" => i = j)
    BY DEF StartsOnce
  <2>2. i = Len(s) + 1
    BY <1>2, <2>1 DEF Starting
  <2>3. t[j].act = "start" => j = Len(s) + 1
    BY <1>2, <2>1 DEF Starting
  <2> QED BY <1>1, <2>2, <2>3
<1> QED BY <1>3, <1>4, <1>5 DEF t

\* What is left of the reports when the first is heard.
LEMMA TailReports ==
  ASSUME NEW s \in Seq(Reports), s # <<>>, NEW c, ConfirmsOnce(s, c),
         NEW table, NEW owed
  PROVE  /\ ConfirmsOnce(Tail(s), c)
         /\ Confirming(Tail(s)) => Confirming(s)
         /\ Head(s).active => Confirming(s) /\ Head(s).chat = c /\ ~Confirming(Tail(s))
         /\ EndsKnown(s, table, owed) => EndsKnown(Tail(s), table, owed)
<1>1. Len(s) \in Nat /\ 1 \in 1..Len(s) /\ Len(Tail(s)) = Len(s) - 1 /\ Head(s) = s[1]
  OBVIOUS
<1>2. \A i \in 1..Len(Tail(s)) : i + 1 \in 1..Len(s) /\ Tail(s)[i] = s[i + 1] /\ i + 1 # 1
  BY <1>1
<1>3. ConfirmsOnce(Tail(s), c)
  <2>1. SUFFICES ASSUME NEW i \in 1..Len(Tail(s)), NEW j \in 1..Len(Tail(s)),
                        Tail(s)[i].active
                 PROVE  Tail(s)[i].chat = c /\ (Tail(s)[j].active => i = j)
    BY DEF ConfirmsOnce
  <2>2. s[i + 1].chat = c /\ (s[j + 1].active => i + 1 = j + 1)
    BY <1>2, <2>1 DEF ConfirmsOnce
  <2> QED BY <1>1, <1>2, <2>2
<1>4. Confirming(Tail(s)) => Confirming(s)
  BY <1>2 DEF Confirming
<1>5. Head(s).active => Confirming(s) /\ Head(s).chat = c
  BY <1>1 DEF Confirming, ConfirmsOnce
<1>6. Head(s).active => ~Confirming(Tail(s))
  <2>1. SUFFICES ASSUME s[1].active, NEW i \in 1..Len(Tail(s)), Tail(s)[i].active
                 PROVE  FALSE
    BY <1>1 DEF Confirming
  <2>2. s[i + 1].active /\ i + 1 \in 1..Len(s) /\ i + 1 # 1
    BY <1>2, <2>1
  <2> QED BY <1>1, <2>1, <2>2 DEF ConfirmsOnce
<1>7. EndsKnown(s, table, owed) => EndsKnown(Tail(s), table, owed)
  <2>1. SUFFICES ASSUME EndsKnown(s, table, owed), ~owed,
                        NEW i \in 1..Len(Tail(s)), ~Tail(s)[i].active,
                        table[Tail(s)[i].chat].id # 0
                 PROVE  \E j \in i+1..Len(Tail(s)) : Tail(s)[j].active
    BY DEF EndsKnown
  <2>2. PICK j \in i+1+1..Len(s) : s[j].active
    BY <1>2, <2>1 DEF EndsKnown
  <2>3. j - 1 \in i+1..Len(Tail(s)) /\ j - 1 \in 1..Len(Tail(s))
    BY <1>1, <2>2
  <2>4. Tail(s)[j - 1] = s[j]
    BY <1>1, <1>2, <2>2, <2>3
  <2> QED BY <2>2, <2>3, <2>4
<1> QED BY <1>3, <1>4, <1>5, <1>6, <1>7

\* A report that a share has ended is put behind the others: it says nothing
\* new of what opens a share, and is known when the table has no share there.
LEMMA AppendEnded ==
  ASSUME NEW s \in Seq(Reports), NEW r \in Reports, ~r.active, NEW c,
         NEW table, NEW owed
  PROVE  /\ ConfirmsOnce(s, c) => ConfirmsOnce(Append(s, r), c)
         /\ Confirming(Append(s, r)) => Confirming(s)
         /\ table[r.chat].id = 0 /\ EndsKnown(s, table, owed) => EndsKnown(Append(s, r), table, owed)
<1> DEFINE t == Append(s, r)
<1>1. Len(s) \in Nat /\ Len(t) = Len(s) + 1 /\ t[Len(s) + 1] = r
  OBVIOUS
<1>2. \A i \in 1..Len(t) : i = Len(s) + 1 \/ (i \in 1..Len(s) /\ t[i] = s[i])
  OBVIOUS
<1>3. \A i \in 1..Len(s) : i \in 1..Len(t) /\ t[i] = s[i] /\ s[i] \in Reports
  OBVIOUS
<1> HIDE DEF t
<1>4. ConfirmsOnce(s, c) => ConfirmsOnce(t, c)
  <2>1. SUFFICES ASSUME ConfirmsOnce(s, c), NEW i \in 1..Len(t), NEW j \in 1..Len(t), t[i].active
                 PROVE  t[i].chat = c /\ (t[j].active => i = j)
    BY DEF ConfirmsOnce
  <2>2. i \in 1..Len(s) /\ t[i] = s[i]
    BY <1>1, <1>2, <2>1
  <2>3. t[j].active => j \in 1..Len(s) /\ t[j] = s[j]
    BY <1>1, <1>2
  <2> QED BY <2>1, <2>2, <2>3 DEF ConfirmsOnce
<1>5. Confirming(t) => Confirming(s)
  BY <1>1, <1>2 DEF Confirming
<1>6. table[r.chat].id = 0 /\ EndsKnown(s, table, owed) => EndsKnown(t, table, owed)
  <2>1. SUFFICES ASSUME table[r.chat].id = 0, EndsKnown(s, table, owed), ~owed,
                        NEW i \in 1..Len(t), ~t[i].active, table[t[i].chat].id # 0
                 PROVE  \E j \in i+1..Len(t) : t[j].active
    BY DEF EndsKnown
  <2>2. i \in 1..Len(s) /\ t[i] = s[i]
    BY <1>1, <1>2, <2>1
  <2>3. PICK j \in i+1..Len(s) : s[j].active
    BY <2>1, <2>2 DEF EndsKnown
  <2>4. j \in 1..Len(s) /\ j \in i+1..Len(t)
    BY <1>1, <2>3
  <2> QED BY <1>3, <2>3, <2>4
<1> QED BY <1>4, <1>5, <1>6 DEF t

\* A confirmation is put behind the others.
LEMMA AppendConfirmation ==
  ASSUME NEW s \in Seq(Reports), NEW r \in Reports, r.active, ~Confirming(s), NEW table, NEW owed
  PROVE  ConfirmsOnce(Append(s, r), r.chat) /\ EndsKnown(Append(s, r), table, owed)
<1> DEFINE t == Append(s, r)
<1>1. Len(s) \in Nat /\ Len(t) = Len(s) + 1 /\ t[Len(s) + 1] = r
  OBVIOUS
<1>2. \A i \in 1..Len(t) : i = Len(s) + 1 \/ (i \in 1..Len(s) /\ t[i] = s[i])
  OBVIOUS
<1> HIDE DEF t
<1>3. \A i \in 1..Len(t) : t[i].active => i = Len(s) + 1
  BY <1>2 DEF Confirming
<1>4. ConfirmsOnce(t, r.chat)
  <2>1. SUFFICES ASSUME NEW i \in 1..Len(t), NEW j \in 1..Len(t), t[i].active
                 PROVE  t[i].chat = r.chat /\ (t[j].active => i = j)
    BY DEF ConfirmsOnce
  <2> QED BY <1>1, <1>3, <2>1
<1>5. EndsKnown(t, table, owed)
  <2>1. SUFFICES ASSUME NEW i \in 1..Len(t), ~t[i].active
                 PROVE  \E j \in i+1..Len(t) : t[j].active
    BY DEF EndsKnown
  <2>2. Len(s) + 1 \in i+1..Len(t)
    BY <1>1, <1>2, <2>1
  <2> QED BY <1>1, <2>2
<1> QED BY <1>4, <1>5 DEF t

-----------------------------------------------------------------------------
(* Types                                                                   *)

\* The initial state satisfies the invariant.
LEMMA InitIInv == ASSUME Init PROVE IInv
<1>1. TypeInv
  <2>1. share \in [Chats -> Shares]
    BY DEF Init, Shares, NoShare
  <2>2. job \in [Conns -> Jobs]
    BY DEF Init, Jobs, Idle
  <2>3. up \in [Conns -> Seq(Frames)] /\ down \in Seq(Reports) /\ conn \in Conns
    BY BoundAssumption DEF Init, Conns
  <2> QED BY <2>1, <2>2, <2>3 DEF Init, TypeInv
<1>2. Patient
  BY DEF Init, Patient
<1>3. \A n \in Conns : Len(up[n]) = 0 /\ ~Opens(n)
  BY DEF Init, Opens, Confirms, Idle
<1>4. Len(down) = 0
  BY DEF Init
<1>5. Flight
  BY <1>3, <1>4 DEF Flight, StartsOnce, ConfirmsOnce, Carries, Starting, Confirming
<1>6. Known /\ AllPlaces
  <2>1. \A n \in Conns : job[n].at # "tell"
    BY DEF Init, Idle
  <2> QED BY <1>3, <1>4, <2>1 DEF Known, EndsKnown, EndsTrue, AllPlaces
<1> QED BY <1>1, <1>2, <1>5, <1>6 DEF IInv

\* A frame is put behind the others of the phone's connection, or is lost.
LEMMA SendsTypes ==
  ASSUME TypeInv, NEW act \in {"start", "update", "stop"}, NEW c \in Chats, NEW good \in BOOLEAN,
         Sends(act, c, good)
  PROVE  up' \in [Conns -> Seq(Frames)] /\ calm' \in BOOLEAN
<1>1. [act |-> act, chat |-> c, good |-> good] \in Frames
  BY DEF Frames
<1>2. CASE up' = up /\ calm' = FALSE
  BY <1>2 DEF TypeInv
<1>3. CASE up' = [up EXCEPT ![conn] = Append(@, [act |-> act, chat |-> c, good |-> good])]
           /\ calm' = (calm /\ good)
  BY <1>1, <1>3 DEF TypeInv
<1> QED BY <1>2, <1>3 DEF Sends

\* What the handler of a connection has in hand.
LEMMA JobTypes ==
  ASSUME TypeInv, NEW n \in Conns, job[n].at \in {"start", "update", "tell"}
  PROVE  /\ job[n].chat \in Chats
         /\ job[n].at = "tell" => job[n].on \in BOOLEAN
         /\ \A c \in Chats, on \in BOOLEAN : Report(c, on) \in Jobs
  BY DEF TypeInv, Jobs, Idle, Report

\* A report is put behind the others, or is lost.
LEMMA TellTypes ==
  ASSUME TypeInv, NEW n \in Conns, Tell(n)
  PROVE  down' \in Seq([chat : Chats, active : BOOLEAN]) /\ calm' \in BOOLEAN
<1>1. [chat |-> job[n].chat, active |-> job[n].on] \in [chat : Chats, active : BOOLEAN]
  BY JobTypes DEF Tell
<1>2. down \in Seq([chat : Chats, active : BOOLEAN]) /\ calm \in BOOLEAN
  BY DEF TypeInv, Reports
<1>3. CASE down' = Append(down, [chat |-> job[n].chat, active |-> job[n].on]) /\ UNCHANGED calm
  BY <1>1, <1>2, <1>3
<1>4. CASE UNCHANGED down /\ calm' = FALSE
  BY <1>2, <1>4
<1> QED BY <1>3, <1>4 DEF Tell

\* The frame a handler takes.
LEMMA TakesTypes ==
  ASSUME TypeInv, NEW n \in Conns, NEW act, Takes(n, act)
  PROVE  /\ up' \in [Conns -> Seq(Frames)]
         /\ up[n] \in Seq(Frames) /\ up[n] # <<>> /\ up'[n] = Tail(up[n])
         /\ \A m \in Conns : m # n => up'[m] = up[m]
         /\ Frame(n) \in Frames /\ Frame(n).chat \in Chats /\ Frame(n).act = act
<1>1. up[n] \in Seq(Frames) /\ up[n] # <<>> /\ Tail(up[n]) \in Seq(Frames)
  BY DEF TypeInv, Takes
<1>2. up' = [up EXCEPT ![n] = Tail(@)] /\ Frame(n).act = act
  BY DEF Takes, Frame
<1>3. Frame(n) \in Frames
  BY <1>1 DEF Frame
<1> QED BY <1>1, <1>2, <1>3 DEF TypeInv, Frames

\* Every action of the phone keeps the types.
LEMMA PhoneTypes ==
  ASSUME TypeInv,
         \/ \E c \in Chats : ChooseDuration(c)
         \/ \E c \in Chats, g \in BOOLEAN : BeginLiveShare(c, g)
         \/ UserStops \/ ConfirmTimesOut \/ Pump \/ PhoneClock \/ Hears \/ Reconnect
  PROVE  TypeInv'
<1>1. CASE \E c \in Chats : ChooseDuration(c)
  BY <1>1 DEF TypeInv, ChooseDuration, liveShare, daemon
<1>2. ASSUME NEW c \in Chats, NEW g \in BOOLEAN, BeginLiveShare(c, g) PROVE TypeInv'
  <2>1. up' \in [Conns -> Seq(Frames)] /\ calm' \in BOOLEAN
    BY <1>2, SendsTypes DEF BeginLiveShare
  <2>2. /\ wanted' \subseteq Chats /\ cur' \in Nat /\ running' \subseteq Nat /\ begun' \in Nat
        /\ chat' \in Chats /\ pending' \in BOOLEAN /\ over' \in BOOLEAN /\ confirm' \in BOOLEAN
    <3>1. /\ wanted' = wanted \ {c} /\ cur' = begun + 1 /\ begun' = begun + 1
          /\ running' = running \cup {begun + 1}
          /\ chat' = c /\ pending' = TRUE /\ over' = FALSE /\ confirm' = TRUE
      BY <1>2 DEF BeginLiveShare
    <3>2. wanted \subseteq Chats /\ running \subseteq Nat /\ begun \in Nat
      BY DEF TypeInv
    <3>3. begun + 1 \in Nat
      BY <3>2
    <3> QED BY <3>1, <3>2, <3>3
  <2>3. UNCHANGED <<active, ticks, conn, down, job, share, opened, overtaken>>
    BY <1>2 DEF BeginLiveShare, daemon
  <2> QED BY <2>1, <2>2, <2>3 DEF TypeInv
<1>3. ASSUME Stops, active, down' \in Seq(Reports), UNCHANGED <<conn, daemon, overtaken>> PROVE TypeInv'
  <2>1. up' \in [Conns -> Seq(Frames)] /\ calm' \in BOOLEAN
    BY <1>3, SendsTypes DEF Stops, TypeInv
  <2> QED BY <1>3, <2>1 DEF TypeInv, Stops, daemon
<1>4. CASE UserStops \/ PumpEnds
  BY <1>3, <1>4 DEF UserStops, PumpEnds, TypeInv
<1>5. ASSUME NEW g \in BOOLEAN, PumpUpdates(g) PROVE TypeInv'
  <2>1. up' \in [Conns -> Seq(Frames)] /\ calm' \in BOOLEAN
    BY <1>5, SendsTypes DEF PumpUpdates, TypeInv
  <2> QED BY <1>5, <2>1 DEF TypeInv, PumpUpdates, liveShare, daemon
<1>6. CASE ConfirmTimesOut \/ PhoneClock
  <2>1. CASE ConfirmTimesOut
    BY <2>1 DEF TypeInv, ConfirmTimesOut, daemon
  <2>2. CASE PhoneClock
    BY <2>2 DEF TypeInv, PhoneClock, daemon
  <2> QED BY <1>6, <2>1, <2>2
<1>7. down # <<>> => Tail(down) \in Seq(Reports)
  BY DEF TypeInv
<1>8. CASE HearsEnded
  <2>1. CASE active /\ chat = Head(down).chat
    BY <1>3, <1>7, <1>8, <2>1 DEF HearsEnded
  <2>2. CASE ~(active /\ chat = Head(down).chat)
    BY <1>7, <1>8, <2>2 DEF HearsEnded, TypeInv, app, liveShare, daemon
  <2> QED BY <2>1, <2>2
<1>9. CASE HearsActive
  BY <1>7, <1>9 DEF HearsActive, TypeInv, daemon
<1>10. CASE Reconnect
  <2>1. PICK k \in 0..Len(up[conn]) : up' = [up EXCEPT ![conn] = SubSeq(@, 1, k)]
    BY <1>10 DEF Reconnect
  <2>2. up[conn] \in Seq(Frames)
    BY DEF TypeInv
  <2>3. SubSeq(up[conn], 1, k) \in Seq(Frames)
    BY <2>2
  <2>4. up' \in [Conns -> Seq(Frames)]
    BY <2>1, <2>3 DEF TypeInv
  <2>5. calm' \in BOOLEAN /\ down' \in Seq(Reports)
    BY <1>10 DEF Reconnect
  <2> QED BY <1>10, <2>4, <2>5 DEF TypeInv, Reconnect, app, liveShare, daemon
<1> QED BY <1>1, <1>2, <1>4, <1>5, <1>6, <1>8, <1>9, <1>10 DEF Pump, Hears

\* Every action of the daemon keeps the types.
LEMMA DaemonTypes ==
  ASSUME TypeInv,
         (\E c \in Chats : DaemonClock(c)) \/ \E n \in Conns : Handles(n)
  PROVE  TypeInv'
<1>1. \A s \in Shares : s.id \in Nat /\ (s.id # 0 => s \in [id : Nat \ {0}, broken : BOOLEAN, over : BOOLEAN])
  BY DEF Shares, NoShare
<1>2. ASSUME NEW c \in Chats, DaemonClock(c) PROVE TypeInv'
  <2>1. share[c] \in [id : Nat \ {0}, broken : BOOLEAN, over : BOOLEAN]
    BY <1>1, <1>2 DEF DaemonClock, Running, TypeInv
  <2>2. [share[c] EXCEPT !.over = TRUE] \in Shares
    BY <2>1 DEF Shares
  <2>3. share' = [share EXCEPT ![c] = [share[c] EXCEPT !.over = TRUE]]
    BY <1>2 DEF DaemonClock
  <2>4. share' \in [Chats -> Shares]
    BY <2>2, <2>3 DEF TypeInv
  <2> QED BY <1>2, <2>4 DEF DaemonClock, TypeInv, app, liveShare
<1>3. ASSUME NEW n \in Conns, Handles(n) PROVE TypeInv'
  <2> DEFINE Same == UNCHANGED <<app, conn>>
  <2>1. Idle \in Jobs /\ NoShare \in Shares
    BY DEF Jobs, Shares
  <2>2. ASSUME Same, up' \in [Conns -> Seq(Frames)], down' \in Seq(Reports),
               calm' \in BOOLEAN, job' \in [Conns -> Jobs], share' \in [Chats -> Shares],
               opened' \in Nat, overtaken' \in BOOLEAN
        PROVE  TypeInv'
    BY <2>2 DEF TypeInv, app, liveShare
  <2>3. CASE TakeStart(n)
    <3>1. Takes(n, "start")
      BY <2>3 DEF TakeStart
    <3>2. [at |-> "start", chat |-> Frame(n).chat] \in Jobs
      BY <3>1, TakesTypes DEF Jobs
    <3>3. job' \in [Conns -> Jobs]
      BY <2>3, <3>2 DEF TakeStart, TypeInv
    <3> QED BY <2>2, <2>3, <3>1, <3>3, TakesTypes DEF TakeStart, TypeInv
  <2>4. CASE RefuseStart(n)
    BY <2>2, <2>4, TakesTypes DEF RefuseStart, TypeInv, daemon
  <2>5. ASSUME job[n].at \in {"start", "update"} PROVE job[n].chat \in Chats
    BY <2>5, JobTypes
  <2>14. \A c \in Chats, on \in BOOLEAN : Report(c, on) \in Jobs
    BY DEF Jobs, Report
  <2>6. CASE StartAccepted(n)
    <3>1. job[n].chat \in Chats
      BY <2>5, <2>6 DEF StartAccepted
    <3>2. [id |-> opened + 1, broken |-> FALSE, over |-> FALSE] \in Shares
      BY DEF TypeInv, Shares
    <3>3. share' \in [Chats -> Shares]
      <4>1. share' = [share EXCEPT ![job[n].chat] = [id |-> opened + 1, broken |-> FALSE, over |-> FALSE]]
        BY <2>6 DEF StartAccepted
      <4> QED BY <3>2, <4>1 DEF TypeInv
    <3>5. opened' \in Nat
      BY <2>6 DEF StartAccepted, TypeInv
    <3>4. job' \in [Conns -> Jobs]
      BY <2>6, <2>14, <3>1 DEF StartAccepted, TypeInv
    <3>6. overtaken' \in BOOLEAN
      BY <2>6 DEF StartAccepted, TypeInv
    <3> QED BY <2>2, <2>6, <3>3, <3>4, <3>5, <3>6 DEF StartAccepted, TypeInv
  <2>7. CASE StartFails(n)
    BY <2>1, <2>2, <2>7 DEF StartFails, TypeInv
  <2>8. CASE TakeUpdate(n)
    <3>1. Takes(n, "update")
      BY <2>8 DEF TakeUpdate
    <3>2. share[Frame(n).chat].id \in Nat
      BY <1>1, <3>1, TakesTypes DEF TypeInv
    <3>3. [at |-> "update", chat |-> Frame(n).chat, id |-> share[Frame(n).chat].id] \in Jobs
      BY <3>1, <3>2, TakesTypes DEF Jobs
    <3>4. job' \in [Conns -> Jobs]
      BY <2>8, <3>3 DEF TakeUpdate, TypeInv
    <3> QED BY <2>2, <2>8, <3>1, <3>4, TakesTypes DEF TakeUpdate, TypeInv
  <2>9. CASE SkipUpdate(n)
    BY <2>2, <2>9, TakesTypes DEF SkipUpdate, TypeInv, daemon
  <2>10. CASE UpdateRefused(n)
    <3>1. Takes(n, "update") /\ job' = [job EXCEPT ![n] = Report(Frame(n).chat, FALSE)]
      BY <2>10 DEF UpdateRefused
    <3>2. share' \in [Chats -> Shares]
      BY <2>1, <2>10 DEF UpdateRefused, TypeInv
    <3>3. job' \in [Conns -> Jobs]
      BY <2>14, <3>1, TakesTypes DEF TypeInv
    <3> QED BY <2>2, <2>10, <3>1, <3>2, <3>3, TakesTypes DEF UpdateRefused, TypeInv
  <2>11. CASE UpdateSent(n)
    BY <2>1, <2>2, <2>11 DEF UpdateSent, TypeInv
  <2>12. CASE UpdateFails(n)
    <3> DEFINE c == job[n].chat
    <3>1. c \in Chats
      BY <2>5, <2>12 DEF UpdateFails
    <3>2. CASE Running(c)
      <4>1. share[c] \in [id : Nat \ {0}, broken : BOOLEAN, over : BOOLEAN]
        BY <1>1, <3>1, <3>2 DEF Running, TypeInv
      <4>2. [share[c] EXCEPT !.broken = TRUE] \in Shares
        BY <4>1 DEF Shares
      <4>3. share' = [share EXCEPT ![c] = [share[c] EXCEPT !.broken = TRUE]]
        BY <2>12, <3>2 DEF UpdateFails
      <4>4. share' \in [Chats -> Shares]
        BY <4>2, <4>3 DEF TypeInv
      <4> QED BY <2>1, <2>2, <2>12, <4>4 DEF UpdateFails, TypeInv
    <3>3. CASE ~Running(c)
      BY <2>1, <2>2, <2>12, <3>3 DEF UpdateFails, TypeInv
    <3> QED BY <3>2, <3>3
  <2>13. CASE TakeStop(n)
    <3>1. Takes(n, "stop") /\ job' = [job EXCEPT ![n] = Report(Frame(n).chat, FALSE)]
      BY <2>13 DEF TakeStop
    <3>2. share' \in [Chats -> Shares]
      BY <2>1, <2>13 DEF TakeStop, TypeInv
    <3>3. job' \in [Conns -> Jobs]
      BY <2>14, <3>1, TakesTypes DEF TypeInv
    <3> QED BY <2>2, <2>13, <3>1, <3>2, <3>3, TakesTypes DEF TakeStop, TypeInv
  <2>15. CASE Tell(n)
    <3>1. down' \in Seq(Reports)
      BY <2>15, TellTypes DEF Reports
    <3>2. job' \in [Conns -> Jobs]
      BY <2>1, <2>15 DEF Tell, TypeInv
    <3> QED BY <2>2, <2>15, <3>1, <3>2, TellTypes DEF Tell, TypeInv
  <2> QED BY <1>3, <2>3, <2>4, <2>6, <2>7, <2>8, <2>9, <2>10, <2>11, <2>12, <2>13, <2>15 DEF Handles
<1> QED BY <1>2, <1>3

-----------------------------------------------------------------------------
(* What is under way                                                       *)

\* With a share on the screen, or none wanted, nothing that opens one is under way.
LEMMA NothingUnderWay ==
  ASSUME Flight, active \/ ~pending
  PROVE  ~Confirming(down) /\ \A n \in Conns : ~Starting(up[n]) /\ ~Opens(n)
BY DEF Flight, Carries

\* Nothing is under way after the step.
LEMMA FlightEmpty ==
  ASSUME \A n \in Conns : ~Starting(up'[n]) /\ ~Opens(n)', ~Confirming(down')
  PROVE  Flight'
BY DEF Flight, Carries, StartsOnce, ConfirmsOnce, Starting, Confirming

\* A step that puts nothing new under way, for the same wish of the phone.
LEMMA FlightShrinks ==
  ASSUME Flight, UNCHANGED <<active, pending, chat>>,
         \A n \in Conns : StartsOnce(up'[n], chat),
         ConfirmsOnce(down', chat),
         \A n \in Conns : Opens(n)' => job'[n].chat = chat /\ ~Starting(up'[n]),
         \A n \in Conns : Carries(n)' => Carries(n),
         Confirming(down') => Confirming(down)
  PROVE  Flight'
BY DEF Flight

\* An update or a stop of the phone goes behind the other frames.
LEMMA SendKeeps ==
  ASSUME TypeInv, Flight, calm', NEW act \in {"update", "stop"}, NEW c \in Chats,
         NEW good \in BOOLEAN, Sends(act, c, good)
  PROVE  /\ calm
         /\ \A n \in Conns : StartsOnce(up'[n], chat) /\ (Starting(up'[n]) => Starting(up[n]))
<1> DEFINE f == [act |-> act, chat |-> c, good |-> good]
<1>1. up' = [up EXCEPT ![conn] = Append(@, f)] /\ calm
  BY DEF Sends
<1>2. f \in Frames /\ f.act # "start"
  BY DEF Frames
<1>3. up[conn] \in Seq(Frames) /\ StartsOnce(up[conn], chat) /\ conn \in Conns
  BY DEF TypeInv, Flight
<1>4. up'[conn] = Append(up[conn], f) /\ \A n \in Conns : n # conn => up'[n] = up[n]
  BY <1>1, <1>3 DEF TypeInv
<1> HIDE DEF f
<1>5. StartsOnce(up'[conn], chat) /\ (Starting(up'[conn]) => Starting(up[conn]))
  BY <1>2, <1>3, <1>4, AppendStarts
<1> QED BY <1>1, <1>4, <1>5 DEF Flight

\* A share on the screen is stopped, from either side.
LEMMA StopsKeeps ==
  ASSUME TypeInv, Flight, Patient, calm', active, Stops, UNCHANGED job,
         ~Confirming(down')
  PROVE  calm /\ Patient' /\ Flight'
<1>1. calm /\ \A n \in Conns : Starting(up'[n]) => Starting(up[n])
  BY SendKeeps DEF Stops, TypeInv
<1>2. \A n \in Conns : ~Starting(up'[n]) /\ ~Opens(n)'
  BY <1>1, NothingUnderWay DEF Opens, Confirms
<1>3. Patient'
  BY DEF Patient, Stops
<1> QED BY <1>1, <1>2, <1>3, FlightEmpty

\* What the steps of the phone do, as long as nothing goes wrong.
LEMMA PhoneKeeps ==
  ASSUME IInv, calm',
         \/ \E c \in Chats : ChooseDuration(c)
         \/ \E c \in Chats, g \in BOOLEAN : BeginLiveShare(c, g)
         \/ UserStops \/ ConfirmTimesOut \/ Pump \/ PhoneClock \/ Hears \/ Reconnect
  PROVE  Patient' /\ Flight' /\ Known'
<1> DEFINE Goal == Patient' /\ Flight' /\ Known'
<1>1. TypeInv /\ (calm => Patient /\ AllPlaces /\ Flight /\ Known)
  BY DEF IInv
<1>12. ASSUME UNCHANGED job PROVE (Owed' <=> Owed) /\ \A n \in Conns : Opens(n)' <=> Opens(n)
  BY <1>12 DEF Owed, Opens, Confirms
<1>13. ASSUME calm, UNCHANGED <<down, job, share, overtaken>> PROVE Known'
  BY <1>1, <1>12, <1>13 DEF Known, EndsTrue, EndsKnown
<1>2. ASSUME calm, UNCHANGED <<active, pending, chat, up, down, job, share, overtaken>>
      PROVE  Flight' /\ Known'
  BY <1>1, <1>2, <1>12, <1>13 DEF Flight, Carries
<1>3. ASSUME NEW c \in Chats, ChooseDuration(c) PROVE Goal
  <2>1. calm /\ ~pending /\ wanted = {} /\ ~active /\ wanted' = {c}
    BY <1>3 DEF ChooseDuration
  <2>2. UNCHANGED <<active, pending, chat, cur, running, up, down, job, share, overtaken>>
    BY <1>3 DEF ChooseDuration, liveShare, daemon
  <2>3. Patient'
    BY <1>1, <2>1, <2>2 DEF Patient
  <2> QED BY <1>2, <2>1, <2>2, <2>3
<1>4. ASSUME NEW c \in Chats, NEW g \in BOOLEAN, BeginLiveShare(c, g) PROVE Goal
  <2> DEFINE f == [act |-> "start", chat |-> c, good |-> g]
  <2>1. calm /\ up' = [up EXCEPT ![conn] = Append(@, f)]
    BY <1>4 DEF BeginLiveShare, Sends
  <2>2. Patient /\ Flight /\ ~active /\ ~pending /\ wanted = {c}
    BY <1>1, <1>4, <2>1 DEF BeginLiveShare, Patient
  <2>3. f \in Frames /\ f.chat = c /\ conn \in Conns /\ up[conn] \in Seq(Frames)
    BY <1>1 DEF TypeInv, Frames
  <2>4. up'[conn] = Append(up[conn], f) /\ \A n \in Conns : n # conn => up'[n] = up[n]
    BY <1>1, <2>1, <2>3 DEF TypeInv
  <2>5. ~Confirming(down) /\ \A n \in Conns : ~Starting(up[n]) /\ ~Opens(n)
    BY <2>2, NothingUnderWay
  <2>6. /\ pending' = TRUE /\ ~active' /\ chat' = c /\ cur' = begun + 1
        /\ wanted' = {} /\ running' = {cur'}
    <3>1. running = {}
      BY <2>2 DEF Patient
    <3> QED BY <1>4, <2>2, <3>1 DEF BeginLiveShare
  <2>7. UNCHANGED <<down, job, share, overtaken>>
    BY <1>4 DEF BeginLiveShare, daemon
  <2> HIDE DEF f
  <2>8. Patient'
    BY <2>6 DEF Patient
  <2>9. StartsOnce(up'[conn], c)
    <3>1. StartsOnce(up[conn], chat)
      BY <2>2, <2>3 DEF Flight
    <3> QED BY <2>3, <2>4, <2>5, <3>1, AppendStarts
  <2>10. \A n \in Conns : n # conn => ~Starting(up'[n]) /\ StartsOnce(up'[n], c)
    BY <2>4, <2>5 DEF StartsOnce, Starting
  <2>11. \A n \in Conns : ~Opens(n)'
    BY <1>12, <2>5, <2>7
  <2>12. ~Confirming(down') /\ ConfirmsOnce(down', c)
    BY <2>5, <2>7 DEF Confirming, ConfirmsOnce
  <2>13. Flight'
    BY <2>3, <2>6, <2>9, <2>10, <2>11, <2>12 DEF Flight, Carries
  <2> QED BY <1>13, <2>1, <2>7, <2>8, <2>13
<1>5. ASSUME UserStops \/ PumpEnds PROVE Goal
  <2>1. active /\ Stops /\ UNCHANGED <<conn, down, daemon, overtaken>>
    BY <1>5 DEF UserStops, PumpEnds
  <2>2. calm
    BY <1>1, <2>1 DEF Stops, Sends
  <2>3. ~Confirming(down')
    BY <1>1, <2>1, <2>2, NothingUnderWay
  <2>4. Patient' /\ Flight'
    BY <1>1, <2>1, <2>2, <2>3, StopsKeeps DEF daemon
  <2> QED BY <1>13, <2>1, <2>2, <2>4 DEF daemon
<1>6. ASSUME NEW g \in BOOLEAN, PumpUpdates(g) PROVE Goal
  <2>1. calm /\ active /\ Sends("update", chat, g)
    BY <1>6 DEF PumpUpdates, Sends
  <2>2. UNCHANGED <<wanted, active, pending, chat, cur, running, down, job, share, overtaken>>
    BY <1>6 DEF PumpUpdates, liveShare, daemon
  <2>3. \A n \in Conns : Starting(up'[n]) => Starting(up[n])
    BY <1>1, <2>1, SendKeeps DEF TypeInv
  <2>4. \A n \in Conns : ~Starting(up'[n]) /\ ~Opens(n)'
    BY <1>1, <1>12, <2>1, <2>2, <2>3, NothingUnderWay
  <2>5. Flight'
    BY <1>1, <2>1, <2>2, <2>4, NothingUnderWay, FlightEmpty
  <2>6. Patient'
    BY <1>1, <2>1, <2>2 DEF Patient
  <2> QED BY <1>13, <2>1, <2>2, <2>5, <2>6
<1>7. ASSUME PhoneClock PROVE Goal
  <2>1. calm /\ UNCHANGED <<wanted, active, pending, chat, cur, running, up, down, job, share, overtaken>>
    BY <1>7 DEF PhoneClock, daemon
  <2> QED BY <1>1, <1>2, <2>1 DEF Patient
<1>8. ASSUME HearsEnded PROVE Goal
  <2>1. down # <<>> /\ down' = Tail(down) /\ UNCHANGED <<job, share, overtaken>>
    BY <1>8 DEF HearsEnded, daemon
  <2>2. calm
    BY <1>8 DEF HearsEnded, Stops, Sends
  <2>3. /\ ConfirmsOnce(down', chat)
        /\ Confirming(down') => Confirming(down)
    BY <1>1, <2>1, <2>2, TailReports DEF Flight, TypeInv
  <2>6. Known'
    <3>1. EndsKnown(down, share, Owed) => EndsKnown(down', share, Owed)
      BY <1>1, <2>1, <2>2, TailReports DEF Flight, TypeInv
    <3> QED BY <1>1, <1>12, <2>1, <2>2, <3>1 DEF Known, EndsTrue, EndsKnown
  <2>4. CASE active /\ chat = Head(down).chat
    <3>1. Stops
      BY <1>8, <2>4 DEF HearsEnded
    <3>2. ~Confirming(down')
      BY <1>1, <2>2, <2>3, <2>4, NothingUnderWay
    <3> QED BY <1>1, <2>1, <2>2, <2>4, <2>6, <3>1, <3>2, StopsKeeps
  <2>5. CASE ~(active /\ chat = Head(down).chat)
    <3>1. UNCHANGED <<wanted, active, pending, chat, cur, running, up>>
      BY <1>8, <2>5 DEF HearsEnded, app, liveShare
    <3>2. Flight'
      BY <1>1, <1>12, <2>1, <2>2, <2>3, <3>1 DEF Flight, Carries
    <3>3. Patient'
      BY <1>1, <2>2, <3>1 DEF Patient
    <3> QED BY <2>6, <3>2, <3>3
  <2> QED BY <2>4, <2>5
<1>9. ASSUME HearsActive PROVE Goal
  <2>1. /\ down # <<>> /\ Head(down).active /\ down' = Tail(down) /\ calm
        /\ UNCHANGED <<wanted, chat, cur, running, up, job, share, overtaken>>
    BY <1>9 DEF HearsActive, daemon
  <2>2. /\ EndsKnown(down, share, Owed) => EndsKnown(down', share, Owed)
        /\ ~Confirming(down') /\ Confirming(down) /\ Head(down).chat = chat
    BY <1>1, <2>1, TailReports DEF Flight, TypeInv
  <2>3. pending /\ \A n \in Conns : ~Carries(n)
    BY <1>1, <2>1, <2>2 DEF Flight
  <2>4. active' = TRUE
    BY <1>9, <2>2, <2>3 DEF HearsActive
  <2>5. \A n \in Conns : ~Starting(up'[n]) /\ ~Opens(n)'
    BY <1>12, <2>1, <2>3 DEF Carries
  <2>6. Flight'
    BY <2>2, <2>5, FlightEmpty
  <2>7. wanted = {}
    BY <1>1, <2>1, <2>3 DEF Patient
  <2>8. Patient'
    BY <1>1, <2>1, <2>4, <2>7 DEF Patient
  <2>9. Known'
    BY <1>1, <1>12, <2>1, <2>2 DEF Known, EndsTrue, EndsKnown
  <2> QED BY <2>6, <2>8, <2>9
<1>10. ASSUME Reconnect PROVE Goal
  <2>1. calm /\ up' = up /\ down' = down
    BY <1>10 DEF Reconnect
  <2>2. UNCHANGED <<wanted, active, pending, chat, cur, running, job, share, overtaken>>
    BY <1>10 DEF Reconnect, app, liveShare, daemon
  <2>3. Patient'
    BY <1>1, <2>1, <2>2 DEF Patient
  <2> QED BY <1>2, <2>1, <2>2, <2>3
<1>11. ~ConfirmTimesOut
  BY DEF ConfirmTimesOut
<1> QED BY <1>3, <1>4, <1>5, <1>6, <1>7, <1>8, <1>9, <1>10, <1>11 DEF Pump, Hears

\* A handler takes a frame; it has a start in hand only if that is what it took.
LEMMA TakesKeeps ==
  ASSUME TypeInv, Flight, NEW n \in Conns, NEW act, Takes(n, act),
         UNCHANGED <<active, pending, chat>>,
         ConfirmsOnce(down', chat), Confirming(down') => Confirming(down),
         \A m \in Conns : m # n => job'[m] = job[m],
         Opens(n)' => act = "start" /\ job'[n].chat = Frame(n).chat
  PROVE  Flight'
<1>1. /\ up[n] \in Seq(Frames) /\ up[n] # <<>> /\ up'[n] = Tail(up[n])
      /\ Frame(n).act = act /\ Frame(n) = Head(up[n])
      /\ \A m \in Conns : m # n => up'[m] = up[m]
  BY TakesTypes DEF Frame
<1>2. /\ StartsOnce(up'[n], chat) /\ (Starting(up'[n]) => Starting(up[n]))
      /\ act = "start" => Starting(up[n]) /\ Frame(n).chat = chat /\ ~Starting(up'[n])
  BY <1>1, TailStarts DEF Flight
<1>3. \A m \in Conns : StartsOnce(up'[m], chat)
  BY <1>1, <1>2 DEF Flight
<1>4. \A m \in Conns : Opens(m)' => job'[m].chat = chat /\ ~Starting(up'[m])
  BY <1>1, <1>2 DEF Flight, Opens, Confirms
<1>5. \A m \in Conns : Carries(m)' => Carries(m)
  BY <1>1, <1>2 DEF Carries, Opens, Confirms
<1> QED BY <1>3, <1>4, <1>5, FlightShrinks

\* A handler is done with something that was no start, or nothing changes for starts.
LEMMA DoneKeeps ==
  ASSUME TypeInv, Flight, NEW n \in Conns, UNCHANGED <<app, up, down>>,
         job' = [job EXCEPT ![n] = Idle]
  PROVE  Flight'
<1>1. \A m \in Conns : Opens(m)' => Opens(m) /\ job'[m] = job[m]
  BY DEF Opens, Confirms, TypeInv, Idle
<1> QED BY <1>1 DEF Flight, Carries, app, liveShare

\* No confirmation is put down or owed anew, and no share is opened.
LEMMA KnownKept ==
  ASSUME TypeInv, Known, UNCHANGED <<down, overtaken>>, Owed => Owed',
         \A c \in Chats : share[c].id = 0 => share'[c].id = 0,
         \A m \in Conns : job'[m].at = "tell" /\ ~job'[m].on =>
           job'[m] = job[m] \/ share'[job'[m].chat].id = 0
  PROVE  Known'
<1>1. \A i \in 1..Len(down) : down[i].chat \in Chats
  <2>1. down \in Seq(Reports)
    BY DEF TypeInv
  <2>2. \A i \in 1..Len(down) : down[i] \in Reports
    BY <2>1
  <2> QED BY <2>2 DEF Reports
<1>2. SUFFICES ASSUME ~overtaken PROVE EndsKnown(down', share', Owed') /\ EndsTrue'
  BY DEF Known
<1>3. EndsKnown(down', share', Owed')
  BY <1>1, <1>2 DEF EndsKnown, Known
<1>4. EndsTrue'
  <2>1. SUFFICES ASSUME NEW m \in Conns, job'[m].at = "tell", ~job'[m].on
                 PROVE  share'[job'[m].chat].id = 0
    BY DEF EndsTrue
  <2>2. CASE job'[m] = job[m]
    <3>1. job[m].chat \in Chats /\ share[job[m].chat].id = 0
      BY <1>2, <2>1, <2>2, JobTypes DEF Known, EndsTrue
    <3> QED BY <2>2, <3>1
  <2> QED BY <2>1, <2>2
<1> QED BY <1>3, <1>4

\* A handler tells the phone: of a share that is open, which it was the only one
\* to owe, or of one that has ended.
LEMMA TellKeeps ==
  ASSUME TypeInv, Flight, Known, calm', NEW n \in Conns, Tell(n)
  PROVE  calm /\ Flight' /\ Known'
<1> DEFINE r == [chat |-> job[n].chat, active |-> job[n].on]
<1>1. /\ calm /\ down' = Append(down, r) /\ job[n].at = "tell"
      /\ UNCHANGED <<active, pending, chat, up, share, overtaken>>
      /\ job' = [job EXCEPT ![n] = Idle]
  BY DEF Tell, app, liveShare
<1>2. r \in Reports /\ r.active = job[n].on /\ r.chat = job[n].chat /\ down \in Seq(Reports)
      /\ job[n].on \in BOOLEAN
  BY <1>1, JobTypes DEF TypeInv, Reports
<1>3. /\ \A m \in Conns : m # n => job'[m] = job[m]
      /\ job'[n].at = "idle"
  BY <1>1 DEF TypeInv, Idle
<1>4. \A m \in Conns : (Opens(m)' => Opens(m) /\ m # n) /\ (m # n => (Confirms(m)' <=> Confirms(m)))
  BY <1>3 DEF Opens, Confirms
<1>5. EndsTrue => EndsTrue'
  BY <1>1, <1>3 DEF EndsTrue
<1> HIDE DEF r
<1>6. CASE job[n].on
  <2>1. Opens(n)
    BY <1>1, <1>6 DEF Opens, Confirms
  <2>2. /\ ~Confirming(down) /\ pending /\ ~active /\ job[n].chat = chat /\ ~Starting(up[n])
        /\ \A m \in Conns : m # n => ~Carries(m)
    BY <2>1 DEF Flight, Carries
  <2>3. ConfirmsOnce(down', chat) /\ EndsKnown(down', share', Owed')
    BY <1>1, <1>2, <1>6, <2>2, AppendConfirmation
  <2>4. \A m \in Conns : ~Starting(up'[m]) /\ ~Opens(m)'
    BY <1>1, <1>4, <2>2 DEF Carries
  <2>5. Flight'
    BY <1>1, <2>2, <2>3, <2>4 DEF Flight, Carries, StartsOnce, Starting
  <2> QED BY <1>1, <1>5, <2>3, <2>5 DEF Known
<1>7. CASE ~job[n].on
  <2>1. ConfirmsOnce(down, chat) /\ \A m \in Conns : StartsOnce(up[m], chat)
    BY DEF Flight
  <2>2. /\ ConfirmsOnce(down', chat)
        /\ Confirming(down') => Confirming(down)
        /\ share[job[n].chat].id = 0 /\ EndsKnown(down, share, Owed) => EndsKnown(down', share, Owed)
    BY <1>1, <1>2, <1>7, <2>1, AppendEnded
  <2>3. \A m \in Conns : Opens(m)' => job'[m].chat = chat /\ ~Starting(up'[m])
    BY <1>1, <1>3, <1>4 DEF Flight
  <2>4. \A m \in Conns : Carries(m)' => Carries(m)
    BY <1>1, <1>4 DEF Carries
  <2>5. Flight'
    BY <1>1, <2>1, <2>2, <2>3, <2>4, FlightShrinks
  <2>6. Owed' <=> Owed
    BY <1>3, <1>4, <1>7 DEF Owed, Confirms
  <2>7. Known'
    <3>1. SUFFICES ASSUME ~overtaken PROVE EndsKnown(down', share', Owed') /\ EndsTrue'
      BY <1>1 DEF Known
    <3>2. share[job[n].chat].id = 0 /\ EndsKnown(down, share, Owed)
      BY <1>1, <1>7, <3>1 DEF Known, EndsTrue
    <3> QED BY <1>1, <1>5, <2>2, <2>6, <3>1, <3>2 DEF Known, EndsKnown
  <2> QED BY <1>1, <2>5, <2>7
<1> QED BY <1>2, <1>6, <1>7

\* The opening message was accepted: the handler goes on to confirm it.
LEMMA AcceptedKeeps ==
  ASSUME TypeInv, Flight, Known, NEW n \in Conns, StartAccepted(n)
  PROVE  Flight' /\ Known'
<1>1. /\ job[n].at = "start" /\ job' = [job EXCEPT ![n] = Report(job[n].chat, TRUE)]
      /\ UNCHANGED <<active, pending, chat, up, down>>
      /\ overtaken' = (overtaken \/ EndUntold(job[n].chat))
      /\ share' = [share EXCEPT ![job[n].chat] = [id |-> opened + 1, broken |-> FALSE, over |-> FALSE]]
  BY DEF StartAccepted, app, liveShare
<1>2. /\ \A m \in Conns : m # n => job'[m] = job[m]
      /\ job'[n].at = "tell" /\ job'[n].on = TRUE /\ job'[n].chat = job[n].chat
  BY <1>1 DEF TypeInv, Report
<1>3. \A m \in Conns : (Opens(m)' <=> Opens(m)) /\ job'[m].chat = job[m].chat
  BY <1>1, <1>2 DEF Opens, Confirms
<1>4. Flight'
  BY <1>1, <1>3 DEF Flight, Carries
<1>5. Owed'
  BY <1>2 DEF Owed, Confirms
<1>6. ASSUME ~overtaken' PROVE EndsTrue'
  <2>1. SUFFICES ASSUME NEW m \in Conns, job'[m].at = "tell", ~job'[m].on
                 PROVE  share'[job'[m].chat].id = 0
    BY DEF EndsTrue
  <2>2. m # n /\ job'[m] = job[m] /\ job[m].chat # job[n].chat /\ job[m].chat \in Chats
    BY <1>1, <1>2, <1>6, <2>1, JobTypes DEF EndUntold
  <2>3. share[job[m].chat].id = 0
    BY <1>1, <1>6, <2>1, <2>2 DEF Known, EndsTrue
  <2> QED BY <1>1, <2>2, <2>3 DEF TypeInv
<1> QED BY <1>1, <1>4, <1>5, <1>6 DEF Known, EndsKnown

\* What the steps of the daemon do, as long as nothing goes wrong.
LEMMA DaemonKeeps ==
  ASSUME IInv, calm', (\E c \in Chats : DaemonClock(c)) \/ \E n \in Conns : Handles(n)
  PROVE  Patient' /\ Flight' /\ Known'
<1>1. TypeInv /\ (calm => Patient /\ AllPlaces /\ Flight /\ Known)
  BY DEF IInv
<1>2. \A c \in Chats : share[c] \in Shares
  BY <1>1 DEF TypeInv
<1>3. ASSUME calm, UNCHANGED app PROVE Patient'
  BY <1>1, <1>3 DEF Patient, app, liveShare
<1>4. ASSUME NEW c \in Chats, DaemonClock(c) PROVE Patient' /\ Flight' /\ Known'
  <2>1. calm /\ UNCHANGED <<app, up, down, job, overtaken>>
    BY <1>4 DEF DaemonClock
  <2>2. \A d \in Chats : share[d].id = 0 => share'[d].id = 0
    BY <1>1, <1>4 DEF DaemonClock, Running, TypeInv
  <2>3. Flight' /\ (Owed => Owed')
    BY <1>1, <2>1 DEF Flight, Carries, Opens, Confirms, Owed, app, liveShare
  <2> QED BY <1>1, <1>3, <2>1, <2>2, <2>3, KnownKept
<1>5. ASSUME NEW n \in Conns, Handles(n), UNCHANGED app
      PROVE  calm /\ Flight' /\ Known'
  <2>1. UNCHANGED <<active, pending, chat>>
    BY <1>5 DEF app, liveShare
  <2>2. ASSUME NEW act, Takes(n, act), calm, UNCHANGED <<down, overtaken>>,
               \A c \in Chats : share[c].id = 0 => share'[c].id = 0,
               \A m \in Conns : m # n => job'[m] = job[m],
               job'[n].at = "tell" => ~job'[n].on /\ share'[job'[n].chat].id = 0,
               job'[n].at = "start" => act = "start" /\ job'[n].chat = Frame(n).chat
        PROVE  calm /\ Flight' /\ Known'
    <3>1. Owed => Owed'
      BY <2>2 DEF Owed, Confirms, Takes
    <3>2. Opens(n)' => act = "start" /\ job'[n].chat = Frame(n).chat
      BY <2>2 DEF Opens, Confirms
    <3>3. Flight'
      BY <1>1, <2>1, <2>2, <3>2, TakesKeeps DEF Flight
    <3> QED BY <1>1, <2>2, <3>1, <3>3, KnownKept
  <2>3. CASE TakeStart(n)
    <3>1. /\ Takes(n, "start") /\ calm /\ UNCHANGED <<down, share, overtaken>>
          /\ job' = [job EXCEPT ![n] = [at |-> "start", chat |-> Frame(n).chat]]
      BY <2>3 DEF TakeStart
    <3> QED BY <1>1, <2>2, <3>1 DEF TypeInv
  <2>4. ASSUME NEW act, Takes(n, act), UNCHANGED <<calm, down, share, job, overtaken>>
        PROVE  calm /\ Flight' /\ Known'
    <3>1. job'[n].at = "idle"
      BY <2>4 DEF Takes
    <3> QED BY <2>2, <2>4, <3>1
  <2>5. CASE RefuseStart(n)
    BY <2>4, <2>5 DEF RefuseStart, daemon
  <2>6. CASE SkipUpdate(n)
    BY <2>4, <2>6 DEF SkipUpdate, daemon
  <2>7. CASE TakeUpdate(n)
    <3>1. Takes(n, "update") /\ calm /\ UNCHANGED <<down, share, overtaken>>
      BY <2>7 DEF TakeUpdate
    <3>2. job' = [job EXCEPT ![n] = [at |-> "update", chat |-> Frame(n).chat,
                                      id |-> share[Frame(n).chat].id]]
      BY <2>7 DEF TakeUpdate
    <3> QED BY <1>1, <2>2, <3>1, <3>2 DEF TypeInv
  <2>8. ASSUME NEW act, Takes(n, act), calm, UNCHANGED <<down, overtaken>>,
               job' = [job EXCEPT ![n] = Report(Frame(n).chat, FALSE)],
               share'[Frame(n).chat].id = 0,
               \A d \in Chats : share[d].id = 0 => share'[d].id = 0
        PROVE  calm /\ Flight' /\ Known'
    <3>1. /\ job'[n].at = "tell" /\ ~job'[n].on /\ job'[n].chat = Frame(n).chat
          /\ \A m \in Conns : m # n => job'[m] = job[m]
      BY <1>1, <2>8 DEF TypeInv, Report
    <3> QED BY <2>2, <2>8, <3>1
  <2>9. CASE UpdateRefused(n)
    <3>1. /\ Takes(n, "update") /\ calm /\ UNCHANGED <<down, overtaken>>
          /\ job' = [job EXCEPT ![n] = Report(Frame(n).chat, FALSE)]
      BY <2>9 DEF UpdateRefused
    <3>2. Frame(n).chat \in Chats
      BY <1>1, <3>1, TakesTypes
    <3>3. CASE UNCHANGED share /\ (~Frame(n).good \/ ~Running(Frame(n).chat))
      <4>1. CASE ~Running(Frame(n).chat)
        BY <2>8, <3>1, <3>3, <4>1 DEF Running
      <4>2. CASE ~Frame(n).good
        <5>1. up[n] \in Seq(Frames) /\ up[n] # <<>>
          BY <1>1, <3>1, TakesTypes
        <5>2. Frame(n) = up[n][1] /\ 1 \in 1..Len(up[n])
          BY <5>1 DEF Frame
        <5> QED BY <1>1, <3>1, <4>2, <5>2 DEF AllPlaces
      <4> QED BY <3>3, <4>1, <4>2
    <3>4. CASE share' = [share EXCEPT ![Frame(n).chat] = NoShare]
      <4>1. share'[Frame(n).chat].id = 0 /\ \A d \in Chats : share[d].id = 0 => share'[d].id = 0
        BY <1>1, <3>2, <3>4 DEF TypeInv, NoShare
      <4> QED BY <2>8, <3>1, <4>1
    <3> QED BY <2>9, <3>3, <3>4 DEF UpdateRefused
  <2>10. CASE TakeStop(n)
    <3>1. /\ Takes(n, "stop") /\ calm /\ UNCHANGED <<down, overtaken>>
          /\ job' = [job EXCEPT ![n] = Report(Frame(n).chat, FALSE)]
      BY <2>10 DEF TakeStop
    <3>2. Frame(n).chat \in Chats
      BY <1>1, <3>1, TakesTypes
    <3>3. share'[Frame(n).chat].id = 0 /\ \A d \in Chats : share[d].id = 0 => share'[d].id = 0
      BY <1>1, <2>10, <3>2 DEF TypeInv, NoShare, TakeStop
    <3> QED BY <2>8, <3>1, <3>3
  <2>11. CASE StartAccepted(n)
    <3>1. calm
      BY <2>11 DEF StartAccepted
    <3> QED BY <1>1, <2>11, <3>1, AcceptedKeeps
  <2>16. CASE Tell(n)
    <3>1. calm
      BY <2>16 DEF Tell
    <3> QED BY <1>1, <2>16, <3>1, TellKeeps
  <2>12. ~StartFails(n)
    BY DEF StartFails
  <2>13. ASSUME calm, UNCHANGED <<up, down, overtaken>>, job[n].at = "update",
                job' = [job EXCEPT ![n] = Idle],
                \A d \in Chats : share[d].id = 0 => share'[d].id = 0
         PROVE  calm /\ Flight' /\ Known'
    <3>1. Flight'
      BY <1>1, <1>5, <2>13, DoneKeeps
    <3>2. /\ job'[n].at = "idle"
          /\ \A m \in Conns : m # n => job'[m] = job[m]
      BY <1>1, <2>13 DEF TypeInv, Idle
    <3>3. Owed => Owed'
      BY <2>13, <3>2 DEF Owed, Confirms
    <3> QED BY <1>1, <2>13, <3>1, <3>2, <3>3, KnownKept
  <2>14. CASE UpdateSent(n)
    BY <2>13, <2>14 DEF UpdateSent
  <2>15. CASE UpdateFails(n)
    <3>1. \A d \in Chats : share[d].id = 0 => share'[d].id = 0
      <4>1. CASE Running(job[n].chat)
        <5>1. share' = [share EXCEPT ![job[n].chat].broken = TRUE]
          BY <2>15, <4>1 DEF UpdateFails
        <5> QED BY <1>1, <4>1, <5>1 DEF Running, TypeInv
      <4>2. CASE ~Running(job[n].chat)
        BY <2>15, <4>2 DEF UpdateFails
      <4> QED BY <4>1, <4>2
    <3> QED BY <2>13, <2>15, <3>1 DEF UpdateFails
  <2> QED BY <1>5, <2>3, <2>5, <2>6, <2>7, <2>9, <2>10, <2>11, <2>12, <2>14, <2>15, <2>16 DEF Handles
<1>6. ASSUME NEW n \in Conns, Handles(n) PROVE UNCHANGED app
  BY <1>6 DEF Handles, TakeStart, RefuseStart, StartAccepted, StartFails, TakeUpdate,
              SkipUpdate, UpdateRefused, UpdateSent, UpdateFails, TakeStop, Tell
<1> QED BY <1>3, <1>4, <1>5, <1>6

\* A frame is sent: as long as nothing goes wrong, with a place.
LEMMA SendsPlace ==
  ASSUME TypeInv, calm => AllPlaces, calm', NEW act \in {"start", "update", "stop"},
         NEW c \in Chats, NEW good \in BOOLEAN, Sends(act, c, good)
  PROVE  AllPlaces'
<1> DEFINE f == [act |-> act, chat |-> c, good |-> good]
<1>1. up' = [up EXCEPT ![conn] = Append(@, f)] /\ calm /\ good
  BY DEF Sends
<1>2. f \in Frames /\ f.good
  BY <1>1 DEF Frames
<1>3. up[conn] \in Seq(Frames) /\ conn \in Conns
  BY DEF TypeInv
<1>4. up'[conn] = Append(up[conn], f) /\ \A n \in Conns : n # conn => up'[n] = up[n]
  BY <1>1, <1>3 DEF TypeInv
<1> HIDE DEF f
<1>5. \A i \in 1..Len(up'[conn]) : up'[conn][i].good
  <2>1. SUFFICES ASSUME NEW i \in 1..Len(Append(up[conn], f)) PROVE Append(up[conn], f)[i].good
    BY <1>4
  <2>2. i = Len(up[conn]) + 1 \/ i \in 1..Len(up[conn])
    BY <1>2, <1>3
  <2>3. \A k \in 1..Len(up[conn]) : Append(up[conn], f)[k] = up[conn][k]
    BY <1>2, <1>3
  <2> QED BY <1>1, <1>2, <1>3, <2>2, <2>3 DEF AllPlaces
<1> QED BY <1>1, <1>4, <1>5 DEF AllPlaces

\* A frame is taken.
LEMMA TakesPlace ==
  ASSUME TypeInv, AllPlaces, NEW n \in Conns, NEW act, Takes(n, act)
  PROVE  AllPlaces'
<1>1. /\ up[n] \in Seq(Frames) /\ up[n] # <<>> /\ up'[n] = Tail(up[n])
      /\ \A m \in Conns : m # n => up'[m] = up[m]
  BY TakesTypes
<1>2. \A i \in 1..Len(Tail(up[n])) : i + 1 \in 1..Len(up[n]) /\ Tail(up[n])[i] = up[n][i + 1]
  BY <1>1
<1> QED BY <1>1, <1>2 DEF AllPlaces

\* No step puts a failed fix under way without calm being over.
LEMMA PlacesKept ==
  ASSUME IInv, calm', Next
  PROVE  AllPlaces'
<1>1. TypeInv /\ (calm => AllPlaces)
  BY DEF IInv
<1>2. ASSUME UNCHANGED up, calm PROVE AllPlaces'
  BY <1>1, <1>2 DEF AllPlaces
<1>3. CASE \E c \in Chats : ChooseDuration(c) \/ DaemonClock(c)
  BY <1>2, <1>3 DEF ChooseDuration, DaemonClock
<1>4. CASE \E c \in Chats, g \in BOOLEAN : BeginLiveShare(c, g)
  BY <1>1, <1>4, SendsPlace DEF BeginLiveShare
<1>5. ASSUME active, Stops PROVE AllPlaces'
  BY <1>1, <1>5, SendsPlace DEF Stops, TypeInv
<1>6. CASE UserStops \/ PumpEnds
  BY <1>5, <1>6 DEF UserStops, PumpEnds
<1>7. CASE \E g \in BOOLEAN : PumpUpdates(g)
  BY <1>1, <1>7, SendsPlace DEF PumpUpdates, TypeInv
<1>8. CASE ConfirmTimesOut \/ PhoneClock \/ HearsActive \/ Reconnect
  BY <1>2, <1>8 DEF ConfirmTimesOut, PhoneClock, HearsActive, Reconnect
<1>9. CASE HearsEnded
  BY <1>2, <1>5, <1>9 DEF HearsEnded
<1>10. ASSUME NEW n \in Conns, Handles(n) PROVE AllPlaces'
  <2>1. calm
    BY <1>10 DEF Handles, TakeStart, RefuseStart, StartAccepted, StartFails, TakeUpdate,
                 SkipUpdate, UpdateRefused, UpdateSent, UpdateFails, TakeStop, Tell
  <2>2. UNCHANGED up \/ \E act \in {"start", "update", "stop"} : Takes(n, act)
    BY <1>10 DEF Handles, TakeStart, RefuseStart, StartAccepted, StartFails, TakeUpdate,
                 SkipUpdate, UpdateRefused, UpdateSent, UpdateFails, TakeStop, Tell
  <2> QED BY <1>1, <1>2, <2>1, <2>2, TakesPlace
<1> QED BY <1>3, <1>4, <1>6, <1>7, <1>8, <1>9, <1>10 DEF Next, Pump, Hears

\* Every step keeps the invariant.
LEMMA StepIInv == ASSUME IInv, [Next]_vars PROVE IInv'
<1> DEFINE Phone ==
      \/ \E c \in Chats : ChooseDuration(c)
      \/ \E c \in Chats, g \in BOOLEAN : BeginLiveShare(c, g)
      \/ UserStops \/ ConfirmTimesOut \/ Pump \/ PhoneClock \/ Hears \/ Reconnect
    Daemon == (\E c \in Chats : DaemonClock(c)) \/ \E n \in Conns : Handles(n)
<1>4. Phone \/ Daemon => Next /\ (calm' => AllPlaces')
  BY PlacesKept DEF Next
<1>1. CASE Phone
  BY <1>1, <1>4, PhoneTypes, PhoneKeeps DEF IInv
<1>2. CASE Daemon
  BY <1>2, <1>4, DaemonTypes, DaemonKeeps DEF IInv
<1>3. CASE UNCHANGED vars
  BY <1>3 DEF IInv, TypeInv, Patient, AllPlaces, Flight, Carries, Opens, Confirms, Known, Owed,
              EndsKnown, EndsTrue, vars, app, liveShare, daemon
<1> QED BY <1>1, <1>2, <1>3 DEF Next

-----------------------------------------------------------------------------
(* Theorems                                                                *)

\* Every state is as TypeInv says: chats, frames and reports are of their kinds,
\* and a share that is active or awaited has a chat.
THEOREM LiveTypeCorrect == Spec => []TypeInv
<1>1. IInv => TypeInv
  BY DEF IInv
<1> QED BY InitIInv, StepIInv, <1>1, PTL DEF Spec

\* While nothing goes wrong on the way, no GPS watch runs without a share on the
\* screen or one awaited (app.js:2928), whatever the order of fixes, stops, clocks
\* and reconnects.
THEOREM NoHiddenWatchInvariant == Spec => []NoHiddenWatch
<1>1. IInv => NoHiddenWatch
  BY DEF IInv, Patient, NoHiddenWatch, NoLeakedWatch
<1> QED BY InitIInv, StepIInv, <1>1, PTL DEF Spec

\* The bar and the GPS go only when the daemon runs no share in that chat
\* (protocol.go:46), unless a handler was overtaken by one of a later connection
\* between its change of the table and its report (EndedUnlessOvertaken of the run).
THEOREM EndedUnlessOvertakenAlways == Spec => EndedUnlessOvertaken
<1>1. ASSUME IInv, calm, ~overtaken, HearsEnded, active, ~active' PROVE ~Running(chat)
  <2>1. ~Confirming(down) /\ EndsKnown(down, share, Owed) /\ down \in Seq(Reports) /\ ~Owed
    BY <1>1, NothingUnderWay DEF IInv, TypeInv, Known, Owed, Opens
  <2>2. chat = Head(down).chat /\ down # <<>> /\ ~Head(down).active
    BY <1>1 DEF HearsEnded, app, liveShare
  <2>3. 1 \in 1..Len(down) /\ Head(down) = down[1]
    BY <2>1, <2>2
  <2>4. \A j \in 2..Len(down) : j \in 1..Len(down)
    BY <2>1
  <2> QED BY <2>1, <2>2, <2>3, <2>4 DEF EndsKnown, Confirming, Running
<1>2. IInv => [calm /\ ~overtaken /\ HearsEnded /\ active /\ ~active' => ~Running(chat)]_vars
  BY <1>1
<1> QED BY InitIInv, StepIInv, <1>2, PTL DEF Spec, EndedUnlessOvertaken
=============================================================================
