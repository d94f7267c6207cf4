---------------------------- MODULE ChatRowProofs ----------------------------
(***************************************************************************)
(* Theorems about ChatRow, for any number of messages, of keys pressed and *)
(* of changes on another device: once nothing is under way the row of the  *)
(* chat list shows the flags the account has, and a delete has gone        *)
(* everywhere.                                                             *)
(*                                                                         *)
(* What the app will show is decided by what is under way.  Of the frames  *)
(* to the app that speak of a flag the last one counts (HasLastWord), and  *)
(* it agrees with the account, unless a view of the chat is still to be    *)
(* read (Refreshing) or was read and is true (Read, ViewAgrees).  For the  *)
(* row itself the same is said of the frames that make a row or take it    *)
(* away.                                                                   *)
(***************************************************************************)
EXTENDS ChatRow, FiniteSetTheorems, WellFoundedInduction, TLAPS

Asks == [kind : Flags \cup {"delete", "getchats", "send"}, on : BOOLEAN, n : 0..(MaxMsgs + 1)]
Reports == [kind : {"message", "update", "list", "removed"}, view : SUBSET Flags, here : BOOLEAN]
Jobs == [at : Stages, flag : Flags \cup {"delete"}, on : BOOLEAN, view : SUBSET Flags,
         here : BOOLEAN, n : 0..(MaxMsgs + 1)]
Events == [at : {"idle", "message", "summary", "push"}, pinned : BOOLEAN, n : Msgs]

\* A message sent from the app is numbered.
Numbered(s) == \A i \in 1..Len(s) : s[i].kind = "send" => s[i].n \in Msgs

TypeInv ==
  /\ account \in SUBSET Flags /\ settings \in SUBSET Flags /\ column \in SUBSET Flags
  /\ shown \in SUBSET Flags /\ behind \in SUBSET Flags
  /\ found \in BOOLEAN /\ row \in BOOLEAN /\ known \in BOOLEAN /\ crossed \in BOOLEAN
  /\ stored \in SUBSET Msgs /\ kept \in SUBSET Msgs /\ lost \in SUBSET Msgs /\ last \in Msgs
  /\ job \in Jobs /\ event \in Events
  /\ Numbered(up) /\ (job.at = "record" => job.n \in Msgs)
  /\ up \in Seq(Asks) /\ down \in Seq(Reports)
  /\ keys \in 0..MaxKeys /\ far \in 0..MaxFar

-----------------------------------------------------------------------------
(* What is under way                                                       *)

\* A frame has a say in a flag of the app's row; "row" stands for whether there
\* is a row at all.
Speaks(m, f) ==
  \/ m.kind = "removed"
  \/ m.kind = "list" /\ m.here
  \/ m.kind = "update" /\ f # "row"
  \/ m.kind = "message" /\ f \in {"pinned", "row"}

\* The frame that has the last word, and that there is none.
HasLastWord(s, i, f) ==
  /\ i \in 1..Len(s) /\ Speaks(s[i], f)
  /\ \A j \in (i + 1)..Len(s) : ~Speaks(s[j], f)
Silent(s, f) == \A i \in 1..Len(s) : ~Speaks(s[i], f)

\* A view of the chat is still to be read and pushed.
Looks(s) == \E i \in 1..Len(s) : s[i].kind \in Flags \cup {"getchats"}
Refreshing ==
  \/ Looks(up)
  \/ job.at \in {"column", "unpin", "flags", "list"}
  \/ job.at = "send" /\ job.flag # "delete"

Read == job.at \in {"confirm", "listed"}

\* The stages of a delete, and of a flag.
StagesApart ==
  /\ job.at \in {"messages", "chat", "removed"} => job.flag = "delete"
  /\ job.at \in {"column", "unpin"} => job.flag # "delete"

-----------------------------------------------------------------------------
(* The flags                                                               *)

\* Without settings no column is set, and no message is known to be of a pinned
\* chat: what the daemon says of the flags are the settings, in any case.
Unset == ~found => settings = {} /\ column = {} /\ ~event.pinned /\ job.at # "column"

\* Where the settings lag behind the account, something excuses it.
SettingsAgree == Unsynced \subseteq behind

MessagesPinOnly == \A i \in 1..Len(down) : down[i].kind = "message" => down[i].view \subseteq {"pinned"}

\* A view that was read and is about to be pushed is the account's.
ViewAgrees ==
  Read =>
    /\ \A f \in Flags \ behind : f \in job.view <=> f \in account
    /\ job.at = "listed" /\ ~job.here => Flags \subseteq behind

\* What the app will show of a flag once it has heard the frames under way.
WillShow(f) ==
  /\ \A i \in 1..Len(down) :
       HasLastWord(down, i, f) => down[i].kind = "removed" \/ (f \in down[i].view <=> f \in account)
  /\ Silent(down, f) /\ known => (f \in shown <=> f \in account)

FlagsAgree == ~Refreshing /\ ~Read => \A f \in Flags \ behind : WillShow(f)

-----------------------------------------------------------------------------
(* Deleting                                                                *)

\* Messages the account has and the table does not, yet.
Due ==
  (IF event.at = "message" THEN {event.n} ELSE {}) \cup (IF job.at = "record" THEN {job.n} ELSE {})

DeleteApart == Deleting => event.at = "idle"
Kept ==
  /\ job.at # "messages" => kept \subseteq stored \cup Due /\ Due \subseteq kept /\ stored \ kept \subseteq lost
  /\ job.at = "messages" => kept = {}
  /\ job.at \in {"chat", "removed"} => stored = {}
  /\ job.at = "send" /\ job.flag = "delete" => \A m \in stored : m <= job.n
StoredHasRow == stored # {} /\ ~row => event.at = "summary" \/ job.at = "recorded"

\* A frame is due that will tell of the row there is, or that there is none.
Announced ==
  /\ event.at = "push" \/ job.at = "sent" => row
  /\ job.at = "removed" => ~row
  /\ job.at = "listed" /\ job.here => row
WillHave ==
  /\ \A i \in 1..Len(down) : HasLastWord(down, i, "row") => (down[i].kind # "removed" <=> row)
  /\ Silent(down, "row") => (known <=> row)
RowAgrees == event.at # "push" /\ job.at \notin {"sent", "removed"} => WillHave

Deletion == DeleteApart /\ Kept /\ StoredHasRow /\ Announced /\ RowAgrees

IInv ==
  /\ TypeInv /\ StagesApart
  /\ Unset /\ SettingsAgree /\ MessagesPinOnly /\ ViewAgrees /\ FlagsAgree
  /\ ~crossed => Deletion

-----------------------------------------------------------------------------
(* Sequences                                                               *)

\* A sequence without its first element.
LEMMA TailFacts ==
  ASSUME NEW T, NEW s \in Seq(T), s # <<>>
  PROVE  /\ Head(s) \in T /\ Tail(s) \in Seq(T)
         /\ Len(s) \in Nat /\ 1 \in 1..Len(s) /\ Head(s) = s[1] /\ Len(Tail(s)) = Len(s) - 1
         /\ \A i \in 1..Len(Tail(s)) : i + 1 \in 1..Len(s) /\ Tail(s)[i] = s[i + 1]
         /\ \A i \in 1..Len(s) : i # 1 => i - 1 \in 1..Len(Tail(s)) /\ s[i] = Tail(s)[i - 1]
OBVIOUS

\* A sequence with an element more.
LEMMA AppendFacts ==
  ASSUME NEW T, NEW s \in Seq(T), NEW m \in T
  PROVE  /\ Append(s, m) \in Seq(T)
         /\ Len(s) \in Nat /\ Len(Append(s, m)) = Len(s) + 1 /\ Append(s, m)[Len(s) + 1] = m
         /\ \A i \in 1..Len(s) : i \in 1..Len(Append(s, m)) /\ Append(s, m)[i] = s[i]
         /\ \A i \in 1..Len(Append(s, m)) : i = Len(s) + 1 \/ (i \in 1..Len(s) /\ Append(s, m)[i] = s[i])
OBVIOUS

\* Hearing a frame leaves the last word where it is, unless it was that frame's.
LEMMA LastWordTail ==
  ASSUME NEW s \in Seq(Reports), s # <<>>, NEW f
  PROVE  /\ \A i \in 1..Len(Tail(s)) :
              HasLastWord(Tail(s), i, f) => HasLastWord(s, i + 1, f) /\ i + 1 \in 1..Len(s)
                                            /\ Tail(s)[i] = s[i + 1]
         /\ Silent(Tail(s), f) /\ Speaks(s[1], f) => HasLastWord(s, 1, f)
         /\ Silent(Tail(s), f) /\ ~Speaks(s[1], f) => Silent(s, f)
<1> DEFINE t == Tail(s)
<1>1. /\ Len(s) \in Nat /\ 1 \in 1..Len(s) /\ Len(t) = Len(s) - 1
      /\ \A i \in 1..Len(t) : i + 1 \in 1..Len(s) /\ t[i] = s[i + 1]
      /\ \A i \in 1..Len(s) : i # 1 => i - 1 \in 1..Len(t) /\ s[i] = t[i - 1]
  BY TailFacts
<1> HIDE DEF t
<1>2. ASSUME NEW i \in 1..Len(t), HasLastWord(t, i, f)
      PROVE  HasLastWord(s, i + 1, f)
  <2>1. Speaks(s[i + 1], f) /\ i + 1 \in 1..Len(s)
    BY <1>1, <1>2 DEF HasLastWord
  <2>2. ASSUME NEW j \in (i + 1 + 1)..Len(s)
        PROVE  ~Speaks(s[j], f)
    <3>1. j - 1 \in (i + 1)..Len(t) /\ s[j] = t[j - 1]
      BY <1>1, <2>2
    <3> QED BY <1>2, <3>1 DEF HasLastWord
  <2> QED BY <2>1, <2>2 DEF HasLastWord
<1>3. ASSUME Silent(t, f), NEW j \in 1..Len(s), j # 1
      PROVE  ~Speaks(s[j], f)
  BY <1>1, <1>3 DEF Silent
<1>4. Silent(t, f) /\ Speaks(s[1], f) => HasLastWord(s, 1, f)
  BY <1>1, <1>3 DEF HasLastWord
<1>5. Silent(t, f) /\ ~Speaks(s[1], f) => Silent(s, f)
  BY <1>3 DEF Silent
<1> QED BY <1>1, <1>2, <1>4, <1>5 DEF t

\* A frame pushed has the last word if it speaks at all.
LEMMA LastWordAppend ==
  ASSUME NEW s \in Seq(Reports), NEW m \in Reports, NEW f
  PROVE  /\ Speaks(m, f) => /\ ~Silent(Append(s, m), f)
                            /\ \A i \in 1..Len(Append(s, m)) :
                                 HasLastWord(Append(s, m), i, f) => Append(s, m)[i] = m
         /\ ~Speaks(m, f) => /\ Silent(Append(s, m), f) => Silent(s, f)
                             /\ \A i \in 1..Len(Append(s, m)) :
                                  HasLastWord(Append(s, m), i, f) =>
                                    i \in 1..Len(s) /\ HasLastWord(s, i, f) /\ Append(s, m)[i] = s[i]
<1> DEFINE t == Append(s, m)
<1>1. /\ Len(s) \in Nat /\ Len(t) = Len(s) + 1 /\ t[Len(s) + 1] = m
      /\ \A i \in 1..Len(s) : i \in 1..Len(t) /\ t[i] = s[i]
      /\ \A i \in 1..Len(t) : i = Len(s) + 1 \/ (i \in 1..Len(s) /\ t[i] = s[i])
  BY AppendFacts
<1> HIDE DEF t
<1>2. Len(s) + 1 \in 1..Len(t)
  BY <1>1
<1>3. Speaks(m, f) => ~Silent(t, f)
  BY <1>1, <1>2 DEF Silent
<1>4. ASSUME Speaks(m, f), NEW i \in 1..Len(t), HasLastWord(t, i, f)
      PROVE  t[i] = m
  <2>1. CASE i = Len(s) + 1
    BY <1>1, <2>1
  <2>2. CASE i # Len(s) + 1
    <3>1. Len(s) + 1 \in (i + 1)..Len(t)
      BY <1>1, <1>2, <2>2
    <3> QED BY <1>1, <1>4, <3>1 DEF HasLastWord
  <2> QED BY <2>1, <2>2
<1>5. ~Speaks(m, f) => (Silent(t, f) => Silent(s, f))
  BY <1>1 DEF Silent
<1>6. ASSUME ~Speaks(m, f), NEW i \in 1..Len(t), HasLastWord(t, i, f)
      PROVE  i \in 1..Len(s) /\ HasLastWord(s, i, f) /\ t[i] = s[i]
  <2>1. i # Len(s) + 1
    BY <1>1, <1>6 DEF HasLastWord
  <2>2. i \in 1..Len(s) /\ t[i] = s[i] /\ Speaks(s[i], f)
    BY <1>1, <1>6, <2>1 DEF HasLastWord
  <2>3. ASSUME NEW j \in (i + 1)..Len(s)
        PROVE  ~Speaks(s[j], f)
    <3>1. j \in (i + 1)..Len(t) /\ t[j] = s[j]
      BY <1>1, <2>2
    <3> QED BY <1>6, <3>1 DEF HasLastWord
  <2> QED BY <2>2, <2>3 DEF HasLastWord
<1> QED BY <1>1, <1>3, <1>4, <1>5, <1>6 DEF t

\* Frames to the daemon: taking one, and pressing a key.
LEMMA LooksTail ==
  ASSUME NEW s \in Seq(Asks), s # <<>>
  PROVE  Looks(s) => Looks(Tail(s)) \/ Head(s).kind \in Flags \cup {"getchats"}
<1>1. /\ Len(s) \in Nat /\ Head(s) = s[1]
      /\ \A i \in 1..Len(s) : i # 1 => i - 1 \in 1..Len(Tail(s)) /\ s[i] = Tail(s)[i - 1]
  BY TailFacts
<1> QED BY <1>1 DEF Looks

\* The same, of a key.
LEMMA LooksAppend ==
  ASSUME NEW T, NEW s \in Seq(T), NEW a \in T
  PROVE  /\ Looks(s) => Looks(Append(s, a))
         /\ a.kind \in Flags \cup {"getchats"} => Looks(Append(s, a))
<1> DEFINE t == Append(s, a)
<1>1. /\ Len(s) \in Nat /\ Len(t) = Len(s) + 1 /\ t[Len(s) + 1] = a
      /\ \A i \in 1..Len(s) : i \in 1..Len(t) /\ t[i] = s[i]
  BY AppendFacts
<1> HIDE DEF t
<1>2. Len(s) + 1 \in 1..Len(t)
  BY <1>1
<1>3. Looks(s) => Looks(t)
  BY <1>1 DEF Looks
<1>4. a.kind \in Flags \cup {"getchats"} => Looks(t)
  BY <1>1, <1>2 DEF Looks
<1> QED BY <1>3, <1>4 DEF t

-----------------------------------------------------------------------------
(* Types                                                                   *)

Newest(S) == IF S = {} THEN 0 ELSE CHOOSE m \in S : \A k \in S : k <= m

\* There is a newest message, the one a delete takes for its anchor.
LEMMA NewestIs ==
  ASSUME NEW S \in SUBSET Msgs
  PROVE  Newest(S) \in 0..(MaxMsgs + 1) /\ \A m \in S : m <= Newest(S)
<1> DEFINE R == OpToRel(<, Nat)
           Below(m) == MaxMsgs + 1 - m
           T == {Below(m) : m \in S}
<1>1. MaxMsgs \in Nat
  BY BoundAssumption
<1>2. \A m \in S : m \in 1..(MaxMsgs + 1) /\ Below(m) \in Nat
  BY <1>1 DEF Msgs
<1>3. CASE S = {}
  BY <1>1, <1>3 DEF Newest
<1>4. CASE S # {}
  <2>1. T \subseteq Nat /\ T # {}
    BY <1>2, <1>4
  <2>2. IsWellFoundedOn(R, Nat)
    BY NatLessThanWellFounded
  <2> HIDE DEF T, R
  <2>3. PICK x \in T : \A y \in T : ~ (<<y, x>> \in R)
    BY <2>1, <2>2, WFMin
  <2>4. \A y \in T : x <= y
    <3>1. SUFFICES ASSUME NEW y \in T, y < x PROVE FALSE
      BY <2>1, <2>3
    <3>2. <<y, x>> \in R
      BY <2>1, <3>1 DEF OpToRel, R
    <3> QED BY <2>3, <3>2
  <2>5. PICK m \in S : x = Below(m)
    BY <2>3 DEF T
  <2>6. \A k \in S : k <= m
    <3>1. SUFFICES ASSUME NEW k \in S PROVE k <= m
      OBVIOUS
    <3>2. Below(k) \in T
      BY DEF T
    <3>3. Below(m) <= Below(k)
      BY <2>4, <2>5, <3>2
    <3> QED BY <1>1, <1>2, <3>3
  <2>7. Newest(S) \in S /\ \A k \in S : k <= Newest(S)
    BY <1>4, <2>6 DEF Newest
  <2> QED BY <1>1, <1>2, <2>7
<1> QED BY <1>3, <1>4

\* What the proofs say of the types is more than the type invariant.
LEMMA TypeOKIs == TypeInv => TypeOK
BY DEF TypeOK, TypeInv, Asks, Reports, Jobs, Events

\* Stages and frames.
LEMMA Applies ==
  ASSUME NEW flags \in SUBSET Flags, NEW f \in Flags, NEW on
  PROVE  /\ Applied(flags, f, on) \in SUBSET Flags
         /\ \A g \in Flags \ Touched(f) : g \in Applied(flags, f, on) <=> g \in flags
         /\ Touched(f) \in SUBSET Flags
BY FlagAssumption DEF Applied, Touched

\* What the daemon says of the chat.
LEMMA ViewIs ==
  ASSUME TypeInv, Unset
  PROVE  View = settings /\ View \in SUBSET Flags /\ Unsynced \in SUBSET Flags
BY DEF View, Unset, Unsynced, TypeInv

\* Taking a frame, and sending one.
LEMMA NumberedTail ==
  ASSUME NEW s \in Seq(Asks), s # <<>>, Numbered(s)
  PROVE  Numbered(Tail(s)) /\ (Head(s).kind = "send" => Head(s).n \in Msgs)
BY TailFacts DEF Numbered

\* The same, of a key.
LEMMA NumberedAppend ==
  ASSUME NEW s \in Seq(Asks), NEW a \in Asks, Numbered(s), a.kind = "send" => a.n \in Msgs
  PROVE  Numbered(Append(s, a))
<1> DEFINE t == Append(s, a)
<1>1. \A i \in 1..Len(t) : t[i] = a \/ (i \in 1..Len(s) /\ t[i] = s[i])
  BY AppendFacts
<1> HIDE DEF t
<1> QED BY <1>1 DEF Numbered, t

\* Stages and frames keep their types.
LEMMA StageTypes ==
  ASSUME TypeInv
  PROVE  /\ job \in Jobs /\ Idle \in Jobs /\ event \in Events
         /\ up \in Seq(Asks) /\ down \in Seq(Reports)
         /\ job.flag \in Flags \cup {"delete"} /\ job.view \in SUBSET Flags /\ job.here \in BOOLEAN
         /\ \A stage \in Stages \ {"record"} : Becomes(stage) => job' \in Jobs /\ job'.at = stage
         /\ Done => job' \in Jobs /\ job'.at = "idle"
         /\ \A kind \in {"message", "update", "list", "removed"}, view \in SUBSET Flags, here \in BOOLEAN :
              Pushes(kind, view, here) => down' \in Seq(Reports)
<1>1. job \in Jobs /\ event \in Events /\ up \in Seq(Asks) /\ down \in Seq(Reports)
  BY DEF TypeInv
<1>2. Idle \in Jobs
  BY BoundAssumption, FlagAssumption DEF Jobs, Idle, Stages
<1>3. job.flag \in Flags \cup {"delete"} /\ job.view \in SUBSET Flags /\ job.here \in BOOLEAN
  BY <1>1 DEF Jobs
<1>4. \A stage \in Stages \ {"record"} : Becomes(stage) => job' \in Jobs /\ job'.at = stage
  BY <1>1 DEF Becomes, Jobs
<1>5. Done => job' \in Jobs /\ job'.at = "idle"
  BY <1>2 DEF Done, Idle
<1>6. ASSUME NEW kind \in {"message", "update", "list", "removed"}, NEW view \in SUBSET Flags,
             NEW here \in BOOLEAN, Pushes(kind, view, here)
      PROVE  down' \in Seq(Reports)
  <2>1. [kind |-> kind, view |-> view, here |-> here] \in Reports
    BY DEF Reports
  <2> QED BY <1>1, <1>6, <2>1, AppendFacts DEF Pushes
<1> QED BY <1>1, <1>2, <1>3, <1>4, <1>5, <1>6

\* The frame router.
LEMMA JobTypes ==
  ASSUME TypeInv, Unset, StagesApart, JobStep
  PROVE  TypeInv'
<1> USE StageTypes, ViewIs
<1>d. {"idle", "send", "column", "unpin", "flags", "confirm", "list", "listed",
       "messages", "chat", "removed", "record", "recorded", "sent"} \subseteq Stages
  BY DEF Stages
<1>e. "pinned" \in Flags /\ "archived" \in Flags /\ MaxMsgs \in Nat
  BY FlagAssumption, BoundAssumption
<1>1. CASE TakeFrame
  <2>1. up' \in Seq(Asks) /\ Head(up) \in Asks
    BY <1>1, TailFacts DEF TakeFrame
  <2>2. Newest(stored) \in 0..(MaxMsgs + 1)
    BY NewestIs DEF TypeInv
  <2>3. Numbered(up') /\ (Head(up).kind = "send" => Head(up).n \in Msgs)
    BY <1>1, NumberedTail DEF TakeFrame, TypeInv
  <2>4. /\ job' \in Jobs /\ kept' \in SUBSET Msgs
        /\ job'.at = "record" => job'.n \in Msgs
    <3>1. CASE Head(up).kind \in Flags \cup {"delete"}
      <4>1. job' = [Idle EXCEPT !.at = "send", !.flag = Head(up).kind, !.on = Head(up).on,
                                !.n = Newest(stored)] /\ kept' = kept
        BY <1>1, <3>1, FlagAssumption DEF TakeFrame, Newest
      <4> QED BY <1>d, <2>1, <2>2, <3>1, <4>1 DEF Jobs, Asks, TypeInv
    <3>2. CASE Head(up).kind = "getchats"
      <4>1. job' = [Idle EXCEPT !.at = "list"] /\ kept' = kept
        BY <1>1, <3>2, FlagAssumption DEF TakeFrame
      <4> QED BY <1>d, <4>1 DEF Jobs, TypeInv
    <3>3. CASE Head(up).kind = "send"
      <4>1. job' = [Idle EXCEPT !.at = "record", !.n = Head(up).n] /\ kept' = kept \cup {Head(up).n}
        BY <1>1, <3>3, FlagAssumption DEF TakeFrame
      <4> QED BY <1>d, <2>1, <2>3, <3>3, <4>1 DEF Jobs, Asks, TypeInv
    <3> QED BY <2>1, <3>1, <3>2, <3>3 DEF Asks
  <2>5. crossed' \in BOOLEAN
    BY <1>1 DEF TakeFrame
  <2> QED BY <1>1, <2>1, <2>3, <2>4, <2>5 DEF TakeFrame, TypeInv, accountSide, tables, app
<1>2. CASE Accepted
  <2>1. job' \in Jobs /\ job'.at # "record"
    BY <1>2, <1>d DEF Accepted
  <2>2. account' \in SUBSET Flags /\ settings' \in SUBSET Flags /\ found' \in BOOLEAN /\ kept' \in SUBSET Msgs
    <3>1. CASE job.flag = "delete"
      BY <1>2, <3>1 DEF Accepted, TypeInv
    <3>2. CASE job.flag # "delete"
      <4>1. account \in SUBSET Flags /\ settings \in SUBSET Flags /\ job.flag \in Flags
        BY <3>2 DEF TypeInv
      <4>2. Applied(account, job.flag, job.on) \in SUBSET Flags /\ Applied(settings, job.flag, job.on) \in SUBSET Flags
        BY <4>1, FlagAssumption DEF Applied
      <4> QED BY <1>2, <3>2, <4>2 DEF Accepted, TypeInv
    <3> QED BY <3>1, <3>2
  <2> QED BY <1>2, <2>1, <2>2 DEF Accepted, TypeInv, accountSide, tables, app
<1>3. CASE Rejected
  <2>1. job' \in Jobs /\ job'.at # "record"
    BY <1>3, <1>d DEF Rejected
  <2> QED BY <1>3, <2>1 DEF Rejected, TypeInv, accountSide, tables, app
<1>4. CASE AcceptedButError
  <2>1. job' \in Jobs /\ job'.at # "record"
    BY <1>4, <1>d DEF AcceptedButError
  <2>2. account' \in SUBSET Flags /\ behind' \in SUBSET Flags /\ kept' \in SUBSET Msgs /\ lost' \in SUBSET Msgs
    <3>1. CASE job.flag = "delete"
      BY <1>4, <3>1 DEF AcceptedButError, TypeInv
    <3>2. CASE job.flag # "delete"
      <4>1. account \in SUBSET Flags /\ job.flag \in Flags
        BY <3>2 DEF TypeInv
      <4>2. Applied(account, job.flag, job.on) \in SUBSET Flags /\ Touched(job.flag) \in SUBSET Flags
        BY <4>1, FlagAssumption DEF Applied, Touched
      <4> QED BY <1>4, <3>2, <4>2 DEF AcceptedButError, TypeInv
    <3> QED BY <3>1, <3>2
  <2>3. far' \in 0..MaxFar
    BY <1>4, BoundAssumption DEF AcceptedButError, TypeInv
  <2> QED BY <1>4, <2>1, <2>2, <2>3 DEF AcceptedButError, TypeInv, accountSide, tables, app
<1>5. CASE SetColumn
  <2>1. job' \in Jobs /\ job'.at # "record"
    BY <1>5, <1>d DEF SetColumn
  <2>2. column' \in SUBSET Flags
    BY <1>5 DEF SetColumn, Columns, AtJob, StagesApart, TypeInv
  <2> QED BY <1>5, <2>1, <2>2 DEF SetColumn, TypeInv, accountSide, tables, app
<1>6. CASE Unpin
  <2>1. job' \in Jobs /\ job'.at # "record"
    BY <1>6, <1>d DEF Unpin
  <2>2. column' \in SUBSET Flags
    BY <1>6 DEF Unpin, Columns, TypeInv
  <2> QED BY <1>6, <2>1, <2>2 DEF Unpin, TypeInv, accountSide, tables, app
<1>7. CASE ReadFlags
  <2>1. job' \in Jobs /\ job'.at # "record"
    BY <1>7, <1>d DEF ReadFlags, Jobs
  <2> QED BY <1>7, <2>1 DEF ReadFlags, TypeInv, accountSide, tables, app
<1>8. CASE Confirm
  <2>1. job' \in Jobs /\ job'.at # "record" /\ down' \in Seq(Reports)
    BY <1>8 DEF Confirm
  <2> QED BY <1>8, <2>1 DEF Confirm, TypeInv, accountSide, tables, app
<1>9. CASE ReadList
  <2>1. job' \in Jobs /\ job'.at # "record"
    BY <1>9, <1>d DEF ReadList, Jobs, TypeInv
  <2> QED BY <1>9, <2>1 DEF ReadList, TypeInv, accountSide, tables, app
<1>10. CASE PushList
  <2>1. job' \in Jobs /\ job'.at # "record" /\ down' \in Seq(Reports)
    BY <1>10 DEF PushList
  <2> QED BY <1>10, <2>1 DEF PushList, TypeInv, accountSide, tables, app
<1>11. CASE DropMessages
  <2>1. job' \in Jobs /\ job'.at # "record"
    BY <1>11, <1>d DEF DropMessages
  <2> QED BY <1>11, <2>1 DEF DropMessages, TypeInv, accountSide, tables, app
<1>12. CASE DropRow
  <2>1. job' \in Jobs /\ job'.at # "record"
    BY <1>12, <1>d DEF DropRow
  <2> QED BY <1>12, <2>1 DEF DropRow, TypeInv, accountSide, tables, app
<1>13. CASE PushRemoved
  <2>1. job' \in Jobs /\ job'.at # "record" /\ down' \in Seq(Reports)
    BY <1>13 DEF PushRemoved
  <2> QED BY <1>13, <2>1 DEF PushRemoved, TypeInv, accountSide, tables, app
<1>14. CASE RecordMessage
  <2>1. job' \in Jobs /\ job'.at # "record"
    BY <1>14, <1>d DEF RecordMessage
  <2>2. stored' \in SUBSET Msgs
    BY <1>14 DEF RecordMessage, AtJob, Stores, TypeInv
  <2> QED BY <1>14, <2>1, <2>2 DEF RecordMessage, TypeInv, accountSide, tables, app
<1>15. CASE RecordSummary
  <2>1. job' \in Jobs /\ job'.at # "record"
    BY <1>15, <1>d DEF RecordSummary
  <2> QED BY <1>15, <1>e, <2>1 DEF RecordSummary, Upsert, TypeInv, accountSide, tables, app
<1>16. CASE RecordPushed
  <2>1. job' \in Jobs /\ job'.at # "record" /\ down' \in Seq(Reports)
    BY <1>16 DEF RecordPushed, PushMessage
  <2> QED BY <1>16, <1>e, <2>1 DEF RecordPushed, PushMessage, TypeInv, accountSide, tables, app
<1> QED BY <1>1, <1>2, <1>3, <1>4, <1>5, <1>6, <1>7, <1>8, <1>9, <1>10, <1>11, <1>12, <1>13, <1>14,
           <1>15, <1>16 DEF JobStep, SendAppState

\* The events, and the other devices.
LEMMA EventTypes ==
  ASSUME TypeInv, Unset,
         EventStep \/ MessageComes \/ SyncArrives \/ \E f \in Flags, on \in BOOLEAN : FlagElsewhere(f, on)
  PROVE  TypeInv'
<1> USE StageTypes, ViewIs
<1>e. "pinned" \in Flags /\ "archived" \in Flags /\ MaxMsgs \in Nat
  BY FlagAssumption, BoundAssumption
<1>1. CASE StoreMessage
  <2>1. stored' \in SUBSET Msgs /\ event' \in Events
    BY <1>1 DEF StoreMessage, Stores, TypeInv, Events
  <2> QED BY <1>1, <2>1 DEF StoreMessage, TypeInv, accountSide, tables, app
<1>2. CASE StoreSummary
  <2>1. event' \in Events
    BY <1>2 DEF StoreSummary, Events
  <2> QED BY <1>2, <1>e, <2>1 DEF StoreSummary, Upsert, TypeInv, accountSide, tables, app
<1>3. CASE MessagePushed
  <2>1. event' \in Events
    BY <1>3 DEF MessagePushed, Events
  <2>2. down' \in Seq(Reports)
    BY <1>3, <1>e DEF MessagePushed, PushMessage
  <2> QED BY <1>3, <1>e, <2>1, <2>2 DEF MessagePushed, PushMessage, TypeInv, accountSide, tables, app
<1>4. CASE MessageComes
  <2>1. last + 1 \in Msgs
    BY <1>4, <1>e DEF MessageComes, Msgs, TypeInv
  <2>2. event' \in Events
    BY <1>4, <2>1 DEF MessageComes, TypeInv, Events
  <2>3. crossed' \in BOOLEAN
    BY <1>4 DEF MessageComes
  <2> QED BY <1>4, <2>1, <2>2, <2>3 DEF MessageComes, TypeInv, tables, app
<1>5. CASE SyncArrives
  BY <1>5 DEF SyncArrives, TypeInv, tables, app
<1>6. ASSUME NEW f \in Flags, NEW on \in BOOLEAN, FlagElsewhere(f, on)
      PROVE  TypeInv'
  <2>1. account' \in SUBSET Flags /\ settings' \in SUBSET Flags /\ behind' \in SUBSET Flags
    <3>1. account \in SUBSET Flags /\ settings \in SUBSET Flags
      BY DEF TypeInv
    <3>2. /\ Applied(account, f, on) \in SUBSET Flags /\ Applied(settings, f, on) \in SUBSET Flags
          /\ Touched(f) \in SUBSET Flags
      BY <3>1, Applies
    <3> QED BY <1>6, <3>2 DEF FlagElsewhere, TypeInv
  <2>2. far' \in 0..MaxFar
    BY <1>6, BoundAssumption DEF FlagElsewhere, TypeInv
  <2> QED BY <1>6, <2>1, <2>2 DEF FlagElsewhere, TypeInv, tables, app
<1> QED BY <1>1, <1>2, <1>3, <1>4, <1>5, <1>6 DEF EventStep

\* The app, and its user.
LEMMA AppTypes ==
  ASSUME TypeInv,
         Hear \/ PressDelete \/ AskForList \/ SendMessage \/ \E f \in Flags : PressFlag(f)
  PROVE  TypeInv'
<1> USE StageTypes
<1>e. "pinned" \in Flags /\ "archived" \in Flags /\ MaxMsgs \in Nat /\ MaxKeys \in Nat
  BY FlagAssumption, BoundAssumption
<1>h. ASSUME down # <<>>
      PROVE  Tail(down) \in Seq(Reports) /\ Head(down).view \in SUBSET Flags /\ Head(down).here \in BOOLEAN
  <2>1. Tail(down) \in Seq(Reports) /\ Head(down) \in Reports
    BY <1>h, TailFacts
  <2> QED BY <2>1 DEF Reports
<1>k. ASSUME NEW kind \in Flags \cup {"delete", "getchats", "send"}, NEW on \in BOOLEAN,
             NEW n \in 0..(MaxMsgs + 1), kind = "send" => n \in Msgs, Key(kind, on, n)
      PROVE  up' \in Seq(Asks) /\ Numbered(up') /\ keys' \in 0..MaxKeys
  <2>1. [kind |-> kind, on |-> on, n |-> n] \in Asks
    BY DEF Asks
  <2>2. up' \in Seq(Asks)
    BY <1>k, <2>1, AppendFacts DEF Key
  <2>3. Numbered(up')
    BY <1>k, <2>1, NumberedAppend DEF Key, TypeInv
  <2>4. keys' \in 0..MaxKeys
    BY <1>k, <1>e DEF Key, TypeInv
  <2> QED BY <2>2, <2>3, <2>4
<1>1. CASE HearMessage
  <2>1. shown' \in SUBSET Flags /\ behind' \in SUBSET Flags
    BY <1>1, <1>h DEF HearMessage, Hears, HeardView, TypeInv
  <2> QED BY <1>1, <1>h, <2>1 DEF HearMessage, Hears, TypeInv, accountSide, tables
<1>2. CASE HearUpdate
  <2>1. shown' \in SUBSET Flags
    BY <1>2, <1>h DEF HearUpdate, Hears, HeardView, TypeInv
  <2> QED BY <1>2, <1>h, <2>1 DEF HearUpdate, Hears, TypeInv, accountSide, tables
<1>3. CASE HearRemoved
  BY <1>3, <1>h DEF HearRemoved, Hears, TypeInv, accountSide, tables
<1>4. CASE HearList
  <2>1. shown' \in SUBSET Flags /\ known' \in BOOLEAN
    BY <1>4, <1>h DEF HearList, Hears, HeardView, TypeInv
  <2> QED BY <1>4, <1>h, <2>1 DEF HearList, Hears, TypeInv, accountSide, tables
<1>5. CASE PressDelete
  <2>1. up' \in Seq(Asks) /\ Numbered(up') /\ keys' \in 0..MaxKeys
    <3>0. 0 \in 0..(MaxMsgs + 1)
      BY <1>e
    <3>1. Key("delete", TRUE, 0)
      BY <1>5 DEF PressDelete
    <3>2. "delete" # "send" /\ "delete" \in Flags \cup {"delete", "getchats", "send"} /\ TRUE \in BOOLEAN
      OBVIOUS
    <3> QED BY <1>k, <3>0, <3>1, <3>2, Zenon
  <2> QED BY <1>5, <2>1 DEF PressDelete, Key, TypeInv, tables, app
<1>6. CASE AskForList
  <2>1. up' \in Seq(Asks) /\ Numbered(up') /\ keys' \in 0..MaxKeys
    <3>0. 0 \in 0..(MaxMsgs + 1)
      BY <1>e
    <3>1. Key("getchats", TRUE, 0)
      BY <1>6 DEF AskForList
    <3>2. "getchats" # "send" /\ "getchats" \in Flags \cup {"delete", "getchats", "send"} /\ TRUE \in BOOLEAN
      OBVIOUS
    <3> QED BY <1>k, <3>0, <3>1, <3>2, Zenon
  <2> QED BY <1>6, <2>1 DEF AskForList, Key, TypeInv, tables, app
<1>7. CASE SendMessage
  <2>1. last' \in Msgs /\ last' \in 0..(MaxMsgs + 1)
    BY <1>7, <1>e DEF SendMessage, Msgs, TypeInv
  <2>2. up' \in Seq(Asks) /\ Numbered(up') /\ keys' \in 0..MaxKeys
    BY <1>7, <2>1, <1>k DEF SendMessage
  <2> QED BY <1>7, <2>1, <2>2 DEF SendMessage, Key, TypeInv, tables, app
<1>8. ASSUME NEW f \in Flags, PressFlag(f)
      PROVE  TypeInv'
  <2>1. (f \notin shown) \in BOOLEAN
    OBVIOUS
  <2>2. f # "send"
    BY FlagAssumption
  <2>3. up' \in Seq(Asks) /\ Numbered(up') /\ keys' \in 0..MaxKeys
    <3>1. Key(f, f \notin shown, 0) /\ 0 \in 0..(MaxMsgs + 1)
      BY <1>8, <1>e DEF PressFlag
    <3> QED BY <1>k, <2>1, <2>2, <3>1
  <2>4. shown' \in SUBSET Flags
    BY <1>8, Applies DEF PressFlag, TypeInv
  <2> QED BY <1>8, <2>3, <2>4 DEF PressFlag, Key, TypeInv, tables
<1> QED BY <1>1, <1>2, <1>3, <1>4, <1>5, <1>6, <1>7, <1>8 DEF Hear

-----------------------------------------------------------------------------
(* The flags                                                               *)

\* The actions that have nothing to do with what the daemon knows of the flags.
AppStep ==
  Hear \/ PressDelete \/ AskForList \/ SendMessage \/ \E f \in Flags : PressFlag(f)

\* A stage ends; what else is known of the job stays.
LEMMA JobMoves ==
  ASSUME TypeInv
  PROVE  /\ \A stage : Becomes(stage) =>
              job'.at = stage /\ job'.flag = job.flag /\ job'.on = job.on /\ job'.n = job.n
         /\ Done => job'.at = "idle"
         /\ ReadFlags => job'.at = "confirm" /\ job'.view = View
         /\ ReadList => job'.at = "listed" /\ job'.view = View /\ job'.here = row
<1>0. job \in Jobs
  BY DEF TypeInv
<1>1. ASSUME NEW stage, Becomes(stage)
      PROVE  job'.at = stage /\ job'.flag = job.flag /\ job'.on = job.on /\ job'.n = job.n
  BY <1>0, <1>1 DEF Jobs, Becomes
<1>2. Done => job'.at = "idle"
  BY DEF Done, Idle
<1>3. ReadFlags => job'.at = "confirm" /\ job'.view = View
  BY <1>0 DEF Jobs, ReadFlags
<1>4. ReadList => job'.at = "listed" /\ job'.view = View /\ job'.here = row
  BY <1>0 DEF Jobs, ReadList
<1> QED BY <1>1, <1>2, <1>3, <1>4

\* Which stage follows which.
LEMMA JobStages ==
  /\ Accepted => AtJob("send") /\ ((Becomes("messages") /\ job.flag = "delete") \/ (Becomes("column") /\ job.flag # "delete"))
  /\ Rejected => AtJob("send") /\ Becomes("list")
  /\ AcceptedButError => AtJob("send") /\ Becomes("list")
  /\ SetColumn => AtJob("column") /\ (Becomes("unpin") \/ Becomes("flags"))
  /\ Unpin => AtJob("unpin") /\ Becomes("flags")
  /\ Confirm => AtJob("confirm") /\ Done
  /\ PushList => AtJob("listed") /\ Done
  /\ DropMessages => AtJob("messages") /\ Becomes("chat")
  /\ DropRow => AtJob("chat") /\ Becomes("removed")
  /\ PushRemoved => AtJob("removed") /\ Done
  /\ RecordMessage => AtJob("record") /\ Becomes("recorded")
  /\ RecordSummary => AtJob("recorded") /\ Becomes("sent")
  /\ RecordPushed => AtJob("sent") /\ Done
<1>1. SetColumn => AtJob("column") /\ (Becomes("unpin") \/ Becomes("flags"))
  BY DEF SetColumn
<1> QED BY <1>1, Zenon DEF Accepted, Rejected, AcceptedButError, Unpin, Confirm, PushList, DropMessages, DropRow,
                        PushRemoved, RecordMessage, RecordSummary, RecordPushed

\* The stages of the frame router's work.
LEMMA StagesStep ==
  ASSUME TypeInv, StagesApart, Next
  PROVE  StagesApart'
<1> USE DEF StagesApart, AtJob
<1>0. job \in Jobs
  BY DEF TypeInv
<1>1. CASE TakeFrame
  BY <1>1, FlagAssumption DEF TakeFrame, Idle
<1>2. JobStep => TakeFrame \/ StagesApart'
  <2>1. SendAppState \/ SetColumn \/ Unpin => StagesApart'
    BY JobStages, JobMoves DEF SendAppState
  <2>2. ReadFlags \/ Confirm \/ ReadList \/ PushList => StagesApart'
    BY JobStages, JobMoves
  <2>3. DropMessages \/ DropRow \/ PushRemoved => StagesApart'
    BY JobStages, JobMoves
  <2>4. RecordMessage \/ RecordSummary \/ RecordPushed => StagesApart'
    BY JobStages, JobMoves
  <2> QED BY <2>1, <2>2, <2>3, <2>4 DEF JobStep
<1>7. CASE AppStep
  BY <1>7 DEF AppStep, Hear, HearMessage, HearUpdate, HearRemoved, HearList, PressDelete, AskForList,
              SendMessage, PressFlag, Key
<1>8. CASE EventStep
  BY <1>8 DEF EventStep, StoreMessage, StoreSummary, MessagePushed
<1>9. CASE MessageComes \/ SyncArrives
  BY <1>9 DEF MessageComes, SyncArrives
<1>10. ASSUME NEW f \in Flags, NEW on \in BOOLEAN, FlagElsewhere(f, on)
       PROVE  StagesApart'
  BY <1>10 DEF FlagElsewhere
<1> QED BY <1>1, <1>2, <1>7, <1>8, <1>9, <1>10 DEF Next, AppStep

\* What the daemon says of the flags are the settings.
LEMMA UnsetStep ==
  ASSUME TypeInv, StagesApart, Unset, Next
  PROVE  Unset'
<1> USE DEF Unset, AtJob, accountSide, tables
<1>0. job \in Jobs /\ event \in Events
  BY DEF TypeInv
<1>1. CASE TakeFrame
  BY <1>1 DEF TakeFrame, Idle
<1>2. CASE SendAppState
  BY JobMoves, <1>2 DEF SendAppState, Accepted, Rejected, AcceptedButError
<1>3. CASE SetColumn \/ Unpin
  BY JobMoves, <1>3 DEF SetColumn, Unpin, Columns
<1>4. CASE ReadFlags \/ Confirm \/ ReadList \/ PushList
  BY JobMoves, <1>4 DEF ReadFlags, Confirm, ReadList, PushList
<1>5. CASE DropMessages \/ DropRow \/ PushRemoved
  <2>1. job'.at # "column"
    BY <1>5, JobStages, JobMoves
  <2>2. UNCHANGED <<settings, found, event>> /\ (column' = column \/ column' = {})
    BY <1>5, Zenon DEF DropMessages, DropRow, PushRemoved
  <2> QED BY <2>1, <2>2
<1>6. CASE RecordMessage \/ RecordSummary \/ RecordPushed
  <2>1. job'.at # "column"
    BY <1>6, JobStages, JobMoves
  <2>2. UNCHANGED <<settings, found, event>> /\ (column' = column \/ column' = column \ {"pinned"})
    BY <1>6, Zenon DEF RecordMessage, RecordSummary, RecordPushed, Upsert
  <2> QED BY <2>1, <2>2
<1>7. CASE AppStep
  BY <1>7 DEF AppStep, Hear, HearMessage, HearUpdate, HearRemoved, HearList, PressDelete, AskForList,
              SendMessage, PressFlag, Key
<1>8. CASE EventStep
  BY <1>0, <1>8 DEF EventStep, StoreMessage, StoreSummary, MessagePushed, Upsert, Events
<1>9. CASE MessageComes \/ SyncArrives
  BY <1>9 DEF MessageComes, SyncArrives, TypeInv
<1>10. ASSUME NEW f \in Flags, NEW on \in BOOLEAN, FlagElsewhere(f, on)
       PROVE  Unset'
  BY <1>10 DEF FlagElsewhere
<1> QED BY <1>1, <1>2, <1>3, <1>4, <1>5, <1>6, <1>7, <1>8, <1>9, <1>10 DEF Next, JobStep, AppStep

\* Only an accepted action changes the account without an excuse, and only
\* reading the chat takes an excuse away.
Excused ==
  /\ behind \subseteq behind'
  /\ \A f \in Flags \ behind' : f \in account' <=> f \in account

\* Of every other action.
LEMMA ExcusedStep ==
  ASSUME TypeInv, StagesApart, Next
  PROVE  Accepted \/ ReadFlags \/ ReadList \/ Excused
<1> USE DEF Excused, accountSide
<1>1. CASE TakeFrame
  BY <1>1 DEF TakeFrame
<1>2. CASE Rejected
  BY <1>2 DEF Rejected
<1>3. CASE AcceptedButError
  <2>1. CASE job.flag = "delete"
    BY <1>3, <2>1 DEF AcceptedButError
  <2>2. CASE job.flag # "delete"
    <3>1. account \in SUBSET Flags /\ job.flag \in Flags
      BY <2>2, StageTypes DEF TypeInv
    <3>2. \A g \in Flags \ Touched(job.flag) : g \in Applied(account, job.flag, job.on) <=> g \in account
      BY <3>1, FlagAssumption DEF Applied, Touched
    <3> QED BY <1>3, <2>2, <3>2 DEF AcceptedButError
  <2> QED BY <2>1, <2>2
<1>4. CASE SetColumn \/ Unpin \/ Confirm \/ PushList
  BY <1>4 DEF SetColumn, Unpin, Confirm, PushList
<1>5. CASE DropMessages \/ DropRow \/ PushRemoved
  BY <1>5 DEF DropMessages, DropRow, PushRemoved
<1>6. CASE RecordMessage \/ RecordSummary \/ RecordPushed
  BY <1>6 DEF RecordMessage, RecordSummary, RecordPushed, PushMessage
<1>7. CASE AppStep
  BY <1>7 DEF AppStep, Hear, HearMessage, HearUpdate, HearRemoved, HearList, PressDelete, AskForList,
              SendMessage, PressFlag, Key
<1>8. CASE EventStep
  BY <1>8 DEF EventStep, StoreMessage, StoreSummary, MessagePushed, PushMessage
<1>9. CASE MessageComes \/ SyncArrives
  BY <1>9 DEF MessageComes, SyncArrives
<1>10. ASSUME NEW f \in Flags, NEW on \in BOOLEAN, FlagElsewhere(f, on)
       PROVE  Excused
  <2>1. \A g \in Flags \ Touched(f) : g \in Applied(account, f, on) <=> g \in account
    BY FlagAssumption DEF Applied, Touched
  <2> QED BY <1>10, <2>1 DEF FlagElsewhere
<1> QED BY <1>1, <1>2, <1>3, <1>4, <1>5, <1>6, <1>7, <1>8, <1>9, <1>10
        DEF Next, JobStep, AppStep, SendAppState

\* Applying the same to both makes no difference between them.
LEMMA AppliesAlike ==
  ASSUME NEW a, NEW s, NEW f, NEW on, NEW g,
         (g \in Applied(a, f, on)) # (g \in Applied(s, f, on))
  PROVE  (g \in a) # (g \in s)
BY DEF Applied

\* Where the settings lag behind the account, something excuses it.
LEMMA SettingsStep ==
  ASSUME TypeInv, StagesApart, Unset, SettingsAgree, Next
  PROVE  SettingsAgree'
<1> USE DEF SettingsAgree
<1>1. CASE Accepted
  <2>1. Unsynced' \subseteq Unsynced /\ behind' = behind
    BY <1>1, AppliesAlike DEF Accepted, Unsynced
  <2> QED BY <2>1
<1>2. CASE ReadFlags
  BY <1>2, ViewIs DEF ReadFlags, Unsynced, accountSide
<1>3. CASE ReadList
  BY <1>3, ViewIs DEF ReadList, Unsynced, accountSide
<1>4. CASE Excused /\ settings' = settings
  <2>1. SUFFICES ASSUME NEW f \in Flags, (f \in settings) # (f \in account'), f \notin behind'
                 PROVE  FALSE
    BY <1>4 DEF Unsynced
  <2>2. (f \in account' <=> f \in account) /\ f \notin behind
    BY <1>4, <2>1 DEF Excused
  <2> QED BY <2>1, <2>2 DEF Unsynced
<1>5. CASE SyncArrives
  BY <1>5 DEF SyncArrives, Unsynced
<1>6. ASSUME NEW f \in Flags, NEW on \in BOOLEAN, FlagElsewhere(f, on)
      PROVE  SettingsAgree'
  <2>1. Unsynced' \subseteq Unsynced /\ behind \subseteq behind'
    BY <1>6, AppliesAlike DEF FlagElsewhere, Unsynced
  <2> QED BY <2>1
<1>7. \/ Accepted \/ SyncArrives \/ \E f \in Flags, on \in BOOLEAN : FlagElsewhere(f, on)
      \/ settings' = settings
  <2> USE DEF accountSide
  <2>1. JobStep => Accepted \/ settings' = settings
    BY DEF JobStep, SendAppState, TakeFrame, Rejected, AcceptedButError, SetColumn, Unpin, ReadFlags, Confirm,
           ReadList, PushList, DropMessages, DropRow, PushRemoved, RecordMessage, RecordSummary, RecordPushed
  <2>2. EventStep \/ MessageComes => settings' = settings
    BY DEF EventStep, StoreMessage, StoreSummary, MessagePushed, MessageComes
  <2>3. AppStep => settings' = settings
    BY DEF AppStep, Hear, HearMessage, HearUpdate, HearRemoved, HearList, PressDelete, AskForList,
           SendMessage, PressFlag, Key
  <2> QED BY <2>1, <2>2, <2>3 DEF Next, AppStep
<1> QED BY <1>1, <1>2, <1>3, <1>4, <1>5, <1>6, <1>7, ExcusedStep

\* Who pushes to the app, and who leaves what the app is told alone.
LEMMA DownStages ==
  /\ Confirm => Pushes("update", job.view, TRUE)
  /\ PushList => Pushes("list", job.view, job.here)
  /\ PushRemoved => Pushes("removed", {}, FALSE)
  /\ RecordPushed => PushMessage(FALSE)
  /\ MessagePushed => PushMessage(event.pinned)
  /\ TakeFrame \/ SendAppState \/ SetColumn \/ Unpin \/ ReadFlags \/ ReadList \/ DropMessages \/ DropRow
       => UNCHANGED <<down, known, shown>>
  /\ RecordMessage \/ RecordSummary \/ StoreMessage \/ StoreSummary \/ MessageComes \/ SyncArrives
       => UNCHANGED <<down, known, shown>>
  /\ Confirm \/ PushList \/ PushRemoved \/ RecordPushed \/ MessagePushed => UNCHANGED <<known, shown>>
  /\ PressDelete \/ AskForList \/ SendMessage => UNCHANGED <<down, known, shown>>
  /\ \A f, on : FlagElsewhere(f, on) => UNCHANGED <<down, known, shown>>
  /\ \A f : PressFlag(f) => UNCHANGED <<down, known>>
<1> USE DEF app
<1>1. /\ Confirm => Pushes("update", job.view, TRUE) /\ UNCHANGED <<known, shown>>
      /\ PushList => Pushes("list", job.view, job.here) /\ UNCHANGED <<known, shown>>
      /\ PushRemoved => Pushes("removed", {}, FALSE) /\ UNCHANGED <<known, shown>>
      /\ RecordPushed => PushMessage(FALSE) /\ UNCHANGED <<known, shown>>
      /\ MessagePushed => PushMessage(event.pinned) /\ UNCHANGED <<known, shown>>
  BY Zenon DEF Confirm, PushList, PushRemoved, RecordPushed, MessagePushed
<1>2. TakeFrame \/ SendAppState \/ SetColumn \/ Unpin \/ ReadFlags \/ ReadList => UNCHANGED <<down, known, shown>>
  BY Zenon DEF TakeFrame, SendAppState, Accepted, Rejected, AcceptedButError, SetColumn, Unpin, ReadFlags, ReadList
<1>3. DropMessages \/ DropRow \/ RecordMessage \/ RecordSummary => UNCHANGED <<down, known, shown>>
  BY Zenon DEF DropMessages, DropRow, RecordMessage, RecordSummary
<1>4. StoreMessage \/ StoreSummary \/ MessageComes \/ SyncArrives => UNCHANGED <<down, known, shown>>
  BY Zenon DEF StoreMessage, StoreSummary, MessageComes, SyncArrives
<1>5. PressDelete \/ AskForList \/ SendMessage => UNCHANGED <<down, known, shown>>
  BY Zenon DEF PressDelete, AskForList, SendMessage, Key
<1>6. \A f, on : FlagElsewhere(f, on) => UNCHANGED <<down, known, shown>>
  BY Zenon DEF FlagElsewhere
<1>7. \A f : PressFlag(f) => UNCHANGED <<down, known>>
  BY Zenon DEF PressFlag, Key
<1> QED BY <1>1, <1>2, <1>3, <1>4, <1>5, <1>6, <1>7, Zenon

\* One frame more.
LEMMA PushFacts ==
  ASSUME TypeInv, NEW kind, NEW view, NEW here, Pushes(kind, view, here)
  PROVE  \A i \in 1..Len(down') :
           \/ i = Len(down) + 1 /\ down'[i] = [kind |-> kind, view |-> view, here |-> here]
           \/ i \in 1..Len(down) /\ down'[i] = down[i]
<1> DEFINE m == [kind |-> kind, view |-> view, here |-> here]
           s == down
<1>1. s \in Seq(Reports \cup {m}) /\ m \in Reports \cup {m} /\ down' = Append(s, m)
  BY DEF Pushes, TypeInv
<1> HIDE DEF m, s
<1>2. \A i \in 1..Len(Append(s, m)) :
        (i = Len(s) + 1 /\ Append(s, m)[i] = m) \/ (i \in 1..Len(s) /\ Append(s, m)[i] = s[i])
  BY <1>1, AppendFacts
<1> QED BY <1>1, <1>2 DEF m, s

\* A message's frame says only whether the chat is pinned.
LEMMA PinOnlyStep ==
  ASSUME TypeInv, MessagesPinOnly, Next
  PROVE  MessagesPinOnly'
<1>1. ASSUME NEW kind, NEW view, NEW here, Pushes(kind, view, here), kind = "message" => view \subseteq {"pinned"}
      PROVE  MessagesPinOnly'
  <2>1. SUFFICES ASSUME NEW i \in 1..Len(down'), down'[i].kind = "message" PROVE down'[i].view \subseteq {"pinned"}
    BY DEF MessagesPinOnly
  <2>2. \/ i = Len(down) + 1 /\ down'[i] = [kind |-> kind, view |-> view, here |-> here]
        \/ i \in 1..Len(down) /\ down'[i] = down[i]
    BY <1>1, PushFacts
  <2>3. CASE down'[i] = [kind |-> kind, view |-> view, here |-> here]
    <3>1. down'[i].kind = kind /\ down'[i].view = view
      BY <2>3
    <3> QED BY <1>1, <2>1, <3>1
  <2>4. CASE i \in 1..Len(down) /\ down'[i] = down[i]
    BY <2>1, <2>4 DEF MessagesPinOnly
  <2> QED BY <2>2, <2>3, <2>4
<1>2. ASSUME Hear
      PROVE  MessagesPinOnly'
  <2>1. down # <<>> /\ down' = Tail(down)
    BY <1>2 DEF Hear, HearMessage, HearUpdate, HearRemoved, HearList, Hears
  <2>2. \A i \in 1..Len(Tail(down)) : i + 1 \in 1..Len(down) /\ Tail(down)[i] = down[i + 1]
    BY <2>1, TailFacts DEF TypeInv
  <2> QED BY <2>1, <2>2 DEF MessagesPinOnly
<1>3. down' = down => MessagesPinOnly'
  BY DEF MessagesPinOnly
<1>4. ASSUME NEW p, PushMessage(p)
      PROVE  MessagesPinOnly'
  <2>1. Pushes("message", IF p THEN {"pinned"} ELSE {}, TRUE)
    BY <1>4 DEF PushMessage
  <2>2. (IF p THEN {"pinned"} ELSE {}) \subseteq {"pinned"}
    OBVIOUS
  <2> QED BY <1>1, <2>1, <2>2
<1>5. JobStep => MessagesPinOnly'
  <2>1. "update" # "message" /\ "list" # "message" /\ "removed" # "message"
    OBVIOUS
  <2> QED BY <1>1, <1>3, <1>4, <2>1, DownStages, Zenon DEF JobStep
<1> QED BY <1>2, <1>3, <1>4, <1>5, DownStages, Zenon DEF Next, EventStep

\* What the daemon's events and the app do leaves the router's work alone.
LEMMA OtherSteps ==
  ASSUME Next, ~JobStep
  PROVE  UNCHANGED job
<1>1. EventStep \/ MessageComes \/ SyncArrives => UNCHANGED job
  BY DEF EventStep, StoreMessage, StoreSummary, MessagePushed, MessageComes, SyncArrives
<1>2. AppStep => UNCHANGED job
  BY DEF AppStep, Hear, HearMessage, HearUpdate, HearRemoved, HearList, PressDelete, AskForList,
         SendMessage, PressFlag, Key
<1>3. \A f, on : FlagElsewhere(f, on) => UNCHANGED job
  BY Zenon DEF FlagElsewhere
<1> QED BY <1>1, <1>2, <1>3 DEF Next, AppStep

\* A view that was read is the account's.
LEMMA ViewStep ==
  ASSUME TypeInv, StagesApart, Unset, SettingsAgree, ViewAgrees, Next
  PROVE  ViewAgrees'
<1>1. CASE ReadFlags
  <2>1. job'.at = "confirm" /\ job'.view = settings /\ behind' = Unsynced /\ account' = account
    BY <1>1, JobMoves, ViewIs DEF ReadFlags, accountSide
  <2> QED BY <2>1 DEF ViewAgrees, Unsynced
<1>2. CASE ReadList
  <2>1. job'.view = settings /\ job'.here = row /\ account' = account
    BY <1>2, JobMoves, ViewIs DEF ReadList, accountSide
  <2>2. behind' = IF row THEN Unsynced ELSE Flags
    BY <1>2 DEF ReadList
  <2>3. \A f \in Flags \ behind' : f \in job'.view <=> f \in account'
    BY <2>1, <2>2 DEF Unsynced
  <2>4. ~job'.here => Flags \subseteq behind'
    BY <2>1, <2>2
  <2> QED BY <2>3, <2>4 DEF ViewAgrees
<1>3. CASE Excused /\ UNCHANGED job
  <2>1. SUFFICES ASSUME Read PROVE ViewAgrees'
    BY <1>3 DEF Read, ViewAgrees
  <2>2. \A f \in Flags \ behind' : f \in job'.view <=> f \in account'
    BY <1>3, <2>1 DEF Excused, ViewAgrees
  <2>3. job'.at = "listed" /\ ~job'.here => Flags \subseteq behind'
    BY <1>3, <2>1 DEF Excused, ViewAgrees
  <2> QED BY <2>2, <2>3 DEF ViewAgrees
<1>4. JobStep => ReadFlags \/ ReadList \/ ~Read'
  <2>1. TakeFrame => ~Read'
    BY FlagAssumption DEF TakeFrame, Idle, Read
  <2>2. SendAppState \/ SetColumn \/ Unpin \/ Confirm \/ PushList => ~Read'
    BY JobStages, JobMoves DEF Read, SendAppState
  <2>3. DropMessages \/ DropRow \/ PushRemoved => ~Read'
    BY JobStages, JobMoves DEF Read
  <2>4. RecordMessage \/ RecordSummary \/ RecordPushed => ~Read'
    BY JobStages, JobMoves DEF Read
  <2> QED BY <2>1, <2>2, <2>3, <2>4 DEF JobStep
<1>5. ~JobStep => UNCHANGED job /\ Excused
  BY OtherSteps, ExcusedStep DEF JobStep, SendAppState
<1> QED BY <1>1, <1>2, <1>3, <1>4, <1>5 DEF ViewAgrees

\* What the app will show of a flag is not changed by what leaves the app, its
\* frames and that flag of the account alone.
LEMMA WillShowKept ==
  ASSUME NEW f, WillShow(f), UNCHANGED <<down, known, shown>>, f \in account' <=> f \in account
  PROVE  WillShow(f)'
BY DEF WillShow

\* A frame that speaks of a flag decides it.
LEMMA PushedShows ==
  ASSUME TypeInv, NEW f \in Flags, NEW kind \in {"message", "update", "list", "removed"},
         NEW view \in SUBSET Flags, NEW here \in BOOLEAN,
         Pushes(kind, view, here), UNCHANGED <<known, shown>>, f \in account' <=> f \in account,
         Speaks([kind |-> kind, view |-> view, here |-> here], f) =>
           kind = "removed" \/ (f \in view <=> f \in account),
         Speaks([kind |-> kind, view |-> view, here |-> here], f) \/ WillShow(f)
  PROVE  WillShow(f)'
<1> DEFINE m == [kind |-> kind, view |-> view, here |-> here]
<1>1. m \in Reports /\ down \in Seq(Reports) /\ m.kind = kind /\ m.view = view
  BY DEF Reports, TypeInv
<1>2. down' = Append(down, m)
  BY DEF Pushes
<1>3. Speaks(m, f) => m.kind = "removed" \/ (f \in m.view <=> f \in account)
  BY <1>1
<1>4. Speaks(m, f) \/ WillShow(f)
  OBVIOUS
<1> HIDE DEF m
<1>5. CASE Speaks(m, f)
  <2>1. ~Silent(down', f)
    BY <1>1, <1>2, <1>5, LastWordAppend
  <2>2. \A i \in 1..Len(down') : HasLastWord(down', i, f) => down'[i] = m
    BY <1>1, <1>2, <1>5, LastWordAppend
  <2> QED BY <1>3, <1>5, <2>1, <2>2 DEF WillShow
<1>6. CASE ~Speaks(m, f)
  <2>1. Silent(down', f) => Silent(down, f)
    BY <1>1, <1>2, <1>6, LastWordAppend
  <2>2. \A i \in 1..Len(down') : HasLastWord(down', i, f) =>
          i \in 1..Len(down) /\ HasLastWord(down, i, f) /\ down'[i] = down[i]
    BY <1>1, <1>2, <1>6, LastWordAppend
  <2>3. WillShow(f)
    BY <1>4, <1>6
  <2> QED BY <2>1, <2>2, <2>3 DEF WillShow
<1> QED BY <1>5, <1>6

\* The frame of a message.
LEMMA MessageShows ==
  ASSUME TypeInv, Unset, SettingsAgree, NEW p \in BOOLEAN, PushMessage(p), NEW f \in Flags \ behind',
         WillShow(f), UNCHANGED <<known, shown, account>>
  PROVE  WillShow(f)'
<1> DEFINE view == IF p THEN {"pinned"} ELSE {}
           m == [kind |-> "message", view |-> view, here |-> TRUE]
<1>1. view \in SUBSET Flags
  BY FlagAssumption
<1>2. Pushes("message", view, TRUE)
  BY DEF PushMessage
<1>3. m.kind = "message"
  OBVIOUS
<1>4. Speaks(m, f) => f = "pinned"
  <2> HIDE DEF m
  <2> QED BY <1>3, FlagAssumption DEF Speaks
<1>5. ASSUME f = "pinned"
      PROVE  f \in view <=> f \in account
  <2>1. f \in view <=> p
    BY <1>5
  <2>2. p <=> "pinned" \in View
    BY <1>5 DEF PushMessage
  <2>3. f \notin behind
    BY DEF PushMessage
  <2>4. f \in settings <=> f \in account
    BY <2>3 DEF SettingsAgree, Unsynced
  <2> QED BY <1>5, <2>1, <2>2, <2>4, ViewIs
<1>6. "message" \in {"message", "update", "list", "removed"} /\ TRUE \in BOOLEAN
  OBVIOUS
<1>7. f \in account' <=> f \in account
  OBVIOUS
<1>8. Speaks(m, f) => "message" = "removed" \/ (f \in view <=> f \in account)
  BY <1>4, <1>5, Zenon
<1>9. Speaks(m, f) \/ WillShow(f)
  OBVIOUS
<1>10. UNCHANGED <<known, shown>> /\ f \in Flags
  OBVIOUS
<1> HIDE DEF view
<1> QED BY <1>1, <1>2, <1>6, <1>7, <1>8, <1>9, <1>10, PushedShows, Zenon

\* A frame is heard.
LEMMA HeardShows ==
  ASSUME TypeInv, MessagesPinOnly, Hear, NEW f \in Flags \ behind', WillShow(f)
  PROVE  WillShow(f)'
<1> DEFINE m == down[1]
<1>0. down # <<>> /\ down' = Tail(down) /\ Head(down) = m /\ down \in Seq(Reports) /\ m \in Reports
      /\ 1 \in 1..Len(down)
  BY TailFacts DEF Hear, HearMessage, HearUpdate, HearRemoved, HearList, Hears, TypeInv
<1>1. account' = account
  BY DEF Hear, HearMessage, HearUpdate, HearRemoved, HearList, accountSide
<1>2. \A i \in 1..Len(down') : HasLastWord(down', i, f) =>
        down'[i].kind = "removed" \/ (f \in down'[i].view <=> f \in account')
  <2>1. SUFFICES ASSUME NEW i \in 1..Len(down'), HasLastWord(down', i, f)
                 PROVE  down'[i].kind = "removed" \/ (f \in down'[i].view <=> f \in account')
    OBVIOUS
  <2>2. HasLastWord(down, i + 1, f) /\ i + 1 \in 1..Len(down) /\ down'[i] = down[i + 1]
    BY <1>0, <2>1, LastWordTail
  <2> QED BY <1>1, <2>2 DEF WillShow
<1>3. Silent(down', f) /\ Speaks(m, f) => m.kind = "removed" \/ (f \in m.view <=> f \in account)
  BY <1>0, LastWordTail DEF WillShow
<1>4. Silent(down', f) /\ ~Speaks(m, f) /\ known => (f \in shown <=> f \in account)
  BY <1>0, LastWordTail DEF WillShow
<1>f. f # "row"
  BY FlagAssumption
<1>5. SUFFICES ASSUME Silent(down', f), known' PROVE f \in shown' <=> f \in account
  BY <1>1, <1>2 DEF WillShow
<1> HIDE DEF m
<1>6. CASE HearMessage
  <2>1. m.kind = "message" /\ shown' = m.view \cup (shown \ {"pinned"})
    BY <1>0, <1>6 DEF HearMessage, Hears, HeardView
  <2>2. m.view \subseteq {"pinned"}
    BY <1>0, <2>1 DEF MessagesPinOnly, m
  <2>3. CASE f = "pinned"
    <3>1. Speaks(m, f)
      BY <2>1, <2>3 DEF Speaks
    <3> QED BY <1>3, <1>5, <2>1, <2>3, <3>1
  <2>4. CASE f # "pinned"
    <3>1. ~Speaks(m, f)
      BY <1>f, <2>1, <2>4 DEF Speaks
    <3>2. known
      BY <1>6, <2>4 DEF HearMessage
    <3> QED BY <1>4, <1>5, <2>1, <2>2, <2>4, <3>1, <3>2
  <2> QED BY <2>3, <2>4
<1>7. CASE HearUpdate
  <2>1. m.kind = "update" /\ known' = known /\ shown' = IF known THEN m.view ELSE shown
    BY <1>0, <1>7 DEF HearUpdate, Hears, HeardView
  <2>2. Speaks(m, f)
    BY <1>f, <2>1 DEF Speaks
  <2> QED BY <1>3, <1>5, <2>1, <2>2
<1>8. CASE HearRemoved
  <2>1. known' = FALSE
    BY <1>8 DEF HearRemoved
  <2> QED BY <1>5, <2>1
<1>9. CASE HearList
  <2>1. m.kind = "list" /\ known' = (known \/ m.here) /\ shown' = IF m.here THEN m.view ELSE shown
    BY <1>0, <1>9 DEF HearList, Hears, HeardView
  <2>2. CASE m.here
    <3>1. Speaks(m, f) /\ shown' = m.view
      BY <2>1, <2>2 DEF Speaks
    <3> QED BY <1>3, <1>5, <2>1, <3>1
  <2>3. CASE ~m.here
    <3>1. ~Speaks(m, f)
      BY <2>1, <2>3 DEF Speaks
    <3>2. known /\ shown' = shown
      BY <1>5, <2>1, <2>3
    <3> QED BY <1>4, <1>5, <3>1, <3>2
  <2> QED BY <2>2, <2>3
<1> QED BY <1>6, <1>7, <1>8, <1>9 DEF Hear

\* A key takes no request away, and a flag's key is one.
LEMMA KeyLooks ==
  ASSUME TypeInv
  PROVE  /\ Next /\ ~JobStep /\ Looks(up) => Looks(up')
         /\ (\E f \in Flags : PressFlag(f)) => Looks(up')
<1>1. ASSUME NEW kind, NEW on, NEW n, Key(kind, on, n)
      PROVE  /\ Looks(up) => Looks(up')
             /\ kind \in Flags \cup {"getchats"} => Looks(up')
  <2> DEFINE a == [kind |-> kind, on |-> on, n |-> n]
             s == up
  <2>1. s \in Seq(Asks \cup {a}) /\ a \in Asks \cup {a} /\ up' = Append(s, a) /\ a.kind = kind
    BY <1>1 DEF Key, TypeInv
  <2> HIDE DEF a, s
  <2>2. /\ Looks(s) => Looks(Append(s, a))
        /\ a.kind \in Flags \cup {"getchats"} => Looks(Append(s, a))
    BY <2>1, LooksAppend
  <2> QED BY <2>1, <2>2 DEF s
<1>2. PressDelete \/ AskForList \/ SendMessage => (Looks(up) => Looks(up'))
  BY <1>1, Zenon DEF PressDelete, AskForList, SendMessage
<1>3. \A f \in Flags : PressFlag(f) => (Looks(up) => Looks(up')) /\ Looks(up')
  BY <1>1, Zenon DEF PressFlag
<1>4. Hear \/ EventStep \/ MessageComes \/ SyncArrives => up' = up
  BY Zenon DEF Hear, HearMessage, HearUpdate, HearRemoved, HearList,
     EventStep, StoreMessage, StoreSummary, MessagePushed, MessageComes, SyncArrives
<1>5. \A f, on : FlagElsewhere(f, on) => up' = up
  BY Zenon DEF FlagElsewhere
<1> QED BY <1>2, <1>3, <1>4, <1>5 DEF Next

\* A view that is due stays due until it is read.
LEMMA RefreshKept ==
  ASSUME TypeInv, StagesApart, Next, Refreshing
  PROVE  Refreshing' \/ Read'
<1> USE DEF AtJob
<1>1. CASE TakeFrame
  <2>1. Looks(up) /\ up # <<>> /\ up' = Tail(up)
    BY <1>1 DEF TakeFrame, Refreshing
  <2>2. Looks(up') \/ Head(up).kind \in Flags \cup {"getchats"}
    BY <2>1, LooksTail DEF TypeInv
  <2>3. Head(up).kind \in Flags => job'.at = "send" /\ job'.flag # "delete"
    BY <1>1, FlagAssumption DEF TakeFrame, Idle
  <2>4. Head(up).kind = "getchats" => job'.at = "list"
    BY <1>1, FlagAssumption DEF TakeFrame, Idle
  <2> QED BY <2>2, <2>3, <2>4 DEF Refreshing
<1>2. JobStep => TakeFrame \/ up' = up
  BY Zenon DEF JobStep, SendAppState, Accepted, Rejected, AcceptedButError, SetColumn, Unpin, ReadFlags, Confirm,
         ReadList, PushList, DropMessages, DropRow, PushRemoved, RecordMessage, RecordSummary, RecordPushed
<1>3. CASE Looks(up) /\ up' = up
  BY <1>3 DEF Refreshing
<1>4. JobStep /\ ~Looks(up) => Refreshing' \/ Read'
  <2>1. TakeFrame => Looks(up)
    BY DEF TakeFrame, Refreshing
  <2>2. SendAppState \/ SetColumn \/ Unpin => Refreshing' \/ Read' \/ Looks(up)
    BY JobStages, JobMoves DEF Refreshing, SendAppState
  <2>3. Confirm \/ PushList \/ DropMessages \/ DropRow \/ PushRemoved \/ RecordMessage \/ RecordSummary
          \/ RecordPushed => Looks(up)
    BY JobStages DEF Refreshing, StagesApart
  <2>4. ReadFlags \/ ReadList => Read'
    BY JobMoves DEF Read
  <2> QED BY <2>1, <2>2, <2>3, <2>4 DEF JobStep
<1>5. CASE JobStep
  BY <1>1, <1>2, <1>3, <1>4, <1>5
<1>6. CASE ~JobStep
  <2>1. UNCHANGED job
    BY <1>6, OtherSteps
  <2>2. Looks(up) => Looks(up')
    BY <1>6, OtherSteps, KeyLooks
  <2> QED BY <2>1, <2>2 DEF Refreshing
<1> QED BY <1>5, <1>6

\* What the app is going to show.
LEMMA FlagsStep ==
  ASSUME TypeInv, StagesApart, Unset, SettingsAgree, MessagesPinOnly, ViewAgrees, FlagsAgree, Next
  PROVE  FlagsAgree'
<1>1. SUFFICES ASSUME ~Refreshing', ~Read', NEW f \in Flags \ behind' PROVE WillShow(f)'
  BY DEF FlagsAgree
<1>2. ~Refreshing
  BY <1>1, RefreshKept
<1>3. ~ReadFlags /\ ~ReadList
  BY <1>1, JobMoves DEF Read
<1>4. CASE Accepted
  <2>1. job.flag = "delete"
    BY <1>1, <1>4, JobStages, JobMoves DEF Refreshing
  <2>2. ~Read
    BY <1>4, JobStages DEF AtJob, Read
  <2>3. account' = account /\ behind' = behind
    BY <1>4, <2>1 DEF Accepted
  <2>4. WillShow(f)
    BY <1>1, <1>2, <2>2, <2>3 DEF FlagsAgree
  <2>5. UNCHANGED <<down, known, shown>>
    BY <1>4, DownStages DEF SendAppState
  <2> QED BY <2>3, <2>4, <2>5, WillShowKept
<1>5. CASE Confirm
  <2>1. Read /\ account' = account /\ behind' = behind /\ Pushes("update", job.view, TRUE) /\ UNCHANGED <<known, shown>>
    BY <1>5, JobStages, DownStages DEF AtJob, Read, Confirm, accountSide
  <2>2. f \in job.view <=> f \in account
    BY <1>1, <2>1 DEF ViewAgrees
  <2>3. f # "row"
    BY <1>1, FlagAssumption
  <2>4. Speaks([kind |-> "update", view |-> job.view, here |-> TRUE], f)
    BY <2>3 DEF Speaks
  <2>5. "update" \in {"message", "update", "list", "removed"} /\ TRUE \in BOOLEAN /\ job.view \in SUBSET Flags
    BY StageTypes
  <2>6. f \in account' <=> f \in account
    BY <2>1
  <2> QED BY <1>1, <2>1, <2>2, <2>4, <2>5, <2>6, PushedShows, Zenon
<1>6. CASE PushList
  <2>1. Read /\ account' = account /\ behind' = behind /\ Pushes("list", job.view, job.here) /\ UNCHANGED <<known, shown>>
    BY <1>6, JobStages, DownStages DEF AtJob, Read, PushList, accountSide
  <2>2. f \in job.view <=> f \in account
    BY <1>1, <2>1 DEF ViewAgrees
  <2>3. job.here
    BY <1>1, <1>6, <2>1, JobStages DEF AtJob, ViewAgrees
  <2>4. Speaks([kind |-> "list", view |-> job.view, here |-> job.here], f)
    BY <2>3 DEF Speaks
  <2>5. "list" \in {"message", "update", "list", "removed"} /\ job.here \in BOOLEAN /\ job.view \in SUBSET Flags
    BY StageTypes
  <2>6. f \in account' <=> f \in account
    BY <2>1
  <2> QED BY <1>1, <2>1, <2>2, <2>4, <2>5, <2>6, PushedShows, Zenon
<1>7. CASE ~Accepted /\ ~Confirm /\ ~PushList
  <2>1. Excused
    BY <1>3, <1>7, ExcusedStep
  <2>2. (f \in account' <=> f \in account) /\ f \in Flags \ behind
    BY <1>1, <2>1 DEF Excused
  <2>3. ~Read
    <3>1. CASE JobStep
      <4>1. job.at # "confirm" /\ job.at # "listed"
        <5>1. TakeFrame => job.at = "idle"
          BY DEF TakeFrame, AtJob
        <5>2. Rejected \/ AcceptedButError \/ SetColumn \/ Unpin \/ DropMessages \/ DropRow => job.at \notin {"confirm", "listed"}
          BY JobStages DEF AtJob
        <5>3. PushRemoved \/ RecordMessage \/ RecordSummary \/ RecordPushed => job.at \notin {"confirm", "listed"}
          BY JobStages DEF AtJob
        <5> QED BY <1>3, <1>7, <3>1, <5>1, <5>2, <5>3 DEF JobStep, SendAppState
      <4> QED BY <4>1 DEF Read
    <3>2. CASE ~JobStep
      BY <1>1, <3>2, OtherSteps DEF Read
    <3> QED BY <3>1, <3>2
  <2>4. WillShow(f)
    BY <1>2, <2>2, <2>3 DEF FlagsAgree
  <2>5. CASE UNCHANGED <<down, known, shown>>
    BY <2>2, <2>4, <2>5, WillShowKept
  <2>6. CASE PushRemoved
    <3>1. Pushes("removed", {}, FALSE) /\ UNCHANGED <<known, shown>>
      BY <2>6, DownStages
    <3>2. "removed" \in {"message", "update", "list", "removed"} /\ FALSE \in BOOLEAN /\ {} \in SUBSET Flags
      OBVIOUS
    <3> QED BY <2>2, <2>4, <3>1, <3>2, PushedShows, Zenon
  <2>7. CASE RecordPushed
    <3>1. PushMessage(FALSE) /\ UNCHANGED <<known, shown>> /\ FALSE \in BOOLEAN
      BY <2>7, DownStages, Zenon
    <3>2. UNCHANGED account
      BY <2>7, Zenon DEF RecordPushed, accountSide
    <3> QED BY <1>1, <2>4, <3>1, <3>2, MessageShows, Zenon
  <2>8. CASE MessagePushed
    <3>1. PushMessage(event.pinned) /\ UNCHANGED <<known, shown>>
      BY <2>8, DownStages, Zenon
    <3>2. UNCHANGED account
      BY <2>8, Zenon DEF MessagePushed, accountSide
    <3>3. event.pinned \in BOOLEAN
      BY DEF TypeInv, Events
    <3> QED BY <1>1, <2>4, <3>1, <3>2, <3>3, MessageShows, Zenon
  <2>9. CASE Hear
    BY <1>1, <2>4, <2>9, HeardShows
  <2>10. ASSUME NEW g \in Flags, PressFlag(g) PROVE FALSE
    <3>1. Looks(up')
      BY <2>10, KeyLooks
    <3> QED BY <1>1, <3>1 DEF Refreshing
  <2>11. JobStep => PushRemoved \/ RecordPushed \/ UNCHANGED <<down, known, shown>>
    BY <1>7, DownStages, Zenon DEF JobStep
  <2>12. \/ Hear \/ MessagePushed \/ PushRemoved \/ RecordPushed \/ UNCHANGED <<down, known, shown>>
         \/ \E g \in Flags : PressFlag(g)
    BY <2>11, DownStages, Zenon DEF Next, EventStep
  <2> QED BY <2>5, <2>6, <2>7, <2>8, <2>9, <2>10, <2>12
<1> QED BY <1>4, <1>5, <1>6, <1>7

-----------------------------------------------------------------------------
(* Deleting                                                                *)

\* Who handles a message event.
LEMMA EventAlone ==
  ASSUME Next
  PROVE  /\ JobStep => event' = event
         /\ ~EventStep /\ ~MessageComes => event' = event
<1>1. JobStep => event' = event
  BY Zenon DEF JobStep, SendAppState, TakeFrame, Accepted, Rejected, AcceptedButError, SetColumn, Unpin, ReadFlags,
         Confirm, ReadList, PushList, DropMessages, DropRow, PushRemoved, RecordMessage, RecordSummary, RecordPushed
<1>2. AppStep \/ SyncArrives => event' = event
  BY Zenon DEF AppStep, Hear, HearMessage, HearUpdate, HearRemoved, HearList, PressDelete, AskForList,
       SendMessage, PressFlag, Key, SyncArrives
<1>3. \A f, on : FlagElsewhere(f, on) => event' = event
  BY Zenon DEF FlagElsewhere
<1> QED BY <1>1, <1>2, <1>3 DEF Next, AppStep

\* Who makes the row, and who takes it away.
LEMMA RowAlone ==
  ASSUME Next
  PROVE  DropRow \/ RecordSummary \/ StoreSummary \/ row' = row
<1> USE DEF tables
<1>1. JobStep => DropRow \/ RecordSummary \/ row' = row
  BY Zenon DEF JobStep, SendAppState, TakeFrame, Accepted, Rejected, AcceptedButError, SetColumn, Unpin, ReadFlags,
         Confirm, ReadList, PushList, DropMessages, PushRemoved, RecordMessage, RecordPushed
<1>2. EventStep \/ MessageComes \/ SyncArrives => StoreSummary \/ row' = row
  BY Zenon DEF EventStep, StoreMessage, MessagePushed, MessageComes, SyncArrives
<1>3. AppStep => row' = row
  BY Zenon DEF AppStep, Hear, HearMessage, HearUpdate, HearRemoved, HearList, PressDelete, AskForList,
       SendMessage, PressFlag, Key
<1>4. \A f, on : FlagElsewhere(f, on) => row' = row
  BY Zenon DEF FlagElsewhere
<1> QED BY <1>1, <1>2, <1>3, <1>4, Zenon DEF Next, AppStep

\* A delete and the handling of a message stay apart, or have crossed.
LEMMA ApartStep ==
  ASSUME TypeInv, StagesApart, DeleteApart, Next, ~crossed'
  PROVE  DeleteApart'
<1>1. CASE TakeFrame
  <2>1. Head(up).kind = "delete" => event.at = "idle"
    BY <1>1 DEF TakeFrame
  <2>2. Head(up).kind # "delete" => ~Deleting'
    BY <1>1, FlagAssumption DEF TakeFrame, Deleting, Idle
  <2>3. event' = event
    BY <1>1 DEF TakeFrame
  <2> QED BY <2>1, <2>2, <2>3 DEF DeleteApart
<1>2. JobStep => event' = event
  BY EventAlone
<1>3. JobStep => TakeFrame \/ (Deleting' => Deleting)
  <2>1. SendAppState => (Deleting' => Deleting)
    BY JobStages, JobMoves DEF SendAppState, Deleting, AtJob
  <2>2. SetColumn \/ Unpin \/ ReadFlags \/ Confirm \/ ReadList \/ PushList => ~Deleting'
    BY JobStages, JobMoves DEF Deleting
  <2>3. DropMessages \/ DropRow \/ PushRemoved => (Deleting' => Deleting)
    BY JobStages, JobMoves DEF Deleting, AtJob
  <2>4. RecordMessage \/ RecordSummary \/ RecordPushed => ~Deleting'
    BY JobStages, JobMoves DEF Deleting
  <2> QED BY <2>1, <2>2, <2>3, <2>4 DEF JobStep
<1>4. CASE MessageComes
  <2>1. ~Deleting /\ job' = job
    BY <1>4 DEF MessageComes
  <2> QED BY <2>1 DEF Deleting, DeleteApart
<1>5. Next /\ ~JobStep /\ ~MessageComes => event' = event \/ event.at # "idle"
  <2>1. EventStep => event.at # "idle"
    BY DEF EventStep, StoreMessage, StoreSummary, MessagePushed
  <2> QED BY <2>1, EventAlone
<1>6. Next /\ ~JobStep => (Deleting' => Deleting)
  BY OtherSteps DEF Deleting
<1> QED BY <1>1, <1>2, <1>3, <1>4, <1>5, <1>6 DEF DeleteApart

\* What leaves the messages of the account and of the table alone.
LEMMA KeptAlone ==
  ASSUME Next
  PROVE  \/ TakeFrame \/ Accepted \/ AcceptedButError \/ DropMessages \/ RecordMessage \/ StoreMessage \/ MessageComes
         \/ UNCHANGED <<kept, stored, lost>>
<1> USE DEF accountSide, tables
<1>1. JobStep => \/ TakeFrame \/ Accepted \/ AcceptedButError \/ DropMessages \/ RecordMessage
                 \/ UNCHANGED <<kept, stored, lost>>
  BY Zenon DEF JobStep, SendAppState, Rejected, SetColumn, Unpin, ReadFlags, Confirm,
         ReadList, PushList, DropRow, PushRemoved, RecordSummary, RecordPushed
<1>2. EventStep \/ SyncArrives => StoreMessage \/ UNCHANGED <<kept, stored, lost>>
  BY Zenon DEF EventStep, StoreSummary, MessagePushed, SyncArrives
<1>3. AppStep => UNCHANGED <<kept, stored, lost>>
  BY Zenon DEF AppStep, Hear, HearMessage, HearUpdate, HearRemoved, HearList, PressDelete, AskForList,
         SendMessage, PressFlag, Key
<1>4. \A f, on : FlagElsewhere(f, on) => UNCHANGED <<kept, stored, lost>>
  BY Zenon DEF FlagElsewhere
<1> QED BY <1>1, <1>2, <1>3, <1>4, Zenon DEF Next, AppStep

\* The table has the messages of the account.
LEMMA KeptStep ==
  ASSUME TypeInv, StagesApart, DeleteApart, Kept, Next, ~crossed'
  PROVE  Kept'
<1>0. job \in Jobs /\ event \in Events /\ stored \in SUBSET Msgs
  BY DEF TypeInv
<1>d. ASSUME AtJob("send"), job.flag = "delete"
      PROVE  event.at = "idle" /\ {m \in kept : m > job.n} = {}
  <2>1. event.at = "idle"
    BY <1>d DEF DeleteApart, Deleting, AtJob
  <2>2. kept \subseteq stored /\ \A m \in stored : m <= job.n
    BY <1>d, <2>1 DEF Kept, Due, AtJob
  <2>3. job.n \in Nat /\ stored \subseteq Nat
    BY <1>0, BoundAssumption DEF Jobs, Msgs
  <2>4. SUFFICES ASSUME NEW m \in kept, m > job.n PROVE FALSE
    BY <2>1
  <2>5. m \in Nat /\ m <= job.n
    BY <2>2, <2>3
  <2> QED BY <2>3, <2>4, <2>5
<1>1. CASE TakeFrame
  <2>0. AtJob("idle") /\ stored' = stored /\ event' = event /\ lost' = lost
    BY <1>1 DEF TakeFrame, tables
  <2> DEFINE due == IF event.at = "message" THEN {event.n} ELSE {}
  <2>1. kept \subseteq stored \cup due /\ due \subseteq kept /\ stored \ kept \subseteq lost
    BY <2>0 DEF Kept, Due, AtJob
  <2>2. CASE Head(up).kind \in Flags \cup {"delete"}
    <3>1. job'.at = "send" /\ job'.n = Newest(stored) /\ kept' = kept
      BY <1>1, <2>2, FlagAssumption DEF TakeFrame, Newest, Idle
    <3>2. \A m \in stored : m <= Newest(stored)
      BY <1>0, NewestIs
    <3> QED BY <2>0, <2>1, <3>1, <3>2 DEF Kept, Due
  <2>3. CASE Head(up).kind = "getchats"
    <3>1. job'.at = "list" /\ kept' = kept
      BY <1>1, <2>3, FlagAssumption DEF TakeFrame, Idle
    <3> QED BY <2>0, <2>1, <3>1 DEF Kept, Due
  <2>4. CASE Head(up).kind = "send"
    <3>1. job'.at = "record" /\ job'.n = Head(up).n /\ kept' = kept \cup {Head(up).n}
      BY <1>1, <2>4, FlagAssumption DEF TakeFrame, Idle
    <3> QED BY <2>0, <2>1, <3>1 DEF Kept, Due
  <2> QED BY <1>1, <2>2, <2>3, <2>4 DEF TakeFrame
<1>2. CASE Accepted
  <2>0. AtJob("send") /\ stored' = stored /\ event' = event /\ lost' = lost
    BY <1>2 DEF Accepted, tables
  <2>1. CASE job.flag = "delete"
    <3>1. kept' = {m \in kept : m > job.n} /\ job'.at = "messages"
      BY <1>2, <2>1, JobMoves DEF Accepted
    <3>2. {m \in kept : m > job.n} = {}
      BY <2>0, <2>1, <1>d
    <3> QED BY <3>1, <3>2 DEF Kept
  <2>2. CASE job.flag # "delete"
    <3>1. kept' = kept /\ job'.at = "column"
      BY <1>2, <2>2, JobMoves DEF Accepted
    <3> QED BY <2>0, <3>1 DEF Kept, Due, AtJob
  <2> QED BY <2>1, <2>2
<1>3. CASE DropMessages
  <2>1. /\ AtJob("messages") /\ job'.at = "chat" /\ stored' = {} /\ kept' = kept /\ event' = event
        /\ lost' = lost
    BY <1>3, JobStages, JobMoves DEF DropMessages, accountSide
  <2>2. event.at = "idle" /\ kept = {}
    BY <2>1 DEF AtJob, DeleteApart, Deleting, StagesApart, Kept
  <2> QED BY <2>1, <2>2 DEF Kept, Due
<1>4. CASE RecordMessage
  <2>1. /\ AtJob("record") /\ job'.at = "recorded" /\ stored' = stored \cup {job.n} /\ kept' = kept /\ event' = event
        /\ lost' = lost
    BY <1>4, JobStages, JobMoves DEF RecordMessage, Stores, accountSide
  <2> QED BY <2>1 DEF Kept, Due, AtJob
<1>5. CASE StoreMessage
  <2>1. /\ event.at = "message" /\ event'.at = "summary" /\ stored' = stored \cup {event.n} /\ kept' = kept /\ job' = job
        /\ lost' = lost
    BY <1>0, <1>5 DEF StoreMessage, Stores, Events, accountSide
  <2>2. ~Deleting
    BY <2>1 DEF DeleteApart
  <2> QED BY <2>1, <2>2 DEF Kept, Due, Deleting, StagesApart
<1>6. CASE MessageComes
  <2>1. /\ event.at = "idle" /\ event'.at = "message" /\ event'.n = last + 1 /\ stored' = stored
        /\ kept' = kept \cup {last + 1} /\ job' = job /\ lost' = lost
    BY <1>6 DEF MessageComes, tables
  <2>2. ~Deleting
    BY <1>6 DEF MessageComes
  <2> QED BY <2>1, <2>2 DEF Kept, Due, Deleting, StagesApart
<1>7. CASE AcceptedButError
  <2>0. AtJob("send") /\ stored' = stored /\ event' = event /\ job'.at = "list"
    BY <1>7, JobStages, JobMoves DEF AcceptedButError, tables
  <2>1. CASE job.flag = "delete"
    <3>1. kept' = {} /\ lost' = lost \cup kept
      BY <1>7, <1>d, <2>0, <2>1 DEF AcceptedButError
    <3>2. event.at = "idle" /\ stored \ kept \subseteq lost
      BY <1>d, <2>0, <2>1 DEF Kept, AtJob
    <3> QED BY <2>0, <3>1, <3>2 DEF Kept, Due
  <2>2. CASE job.flag # "delete"
    <3>1. kept' = kept /\ lost' = lost
      BY <1>7, <2>2 DEF AcceptedButError
    <3> QED BY <2>0, <3>1 DEF Kept, Due, AtJob
  <2> QED BY <2>1, <2>2
<1>8. CASE /\ UNCHANGED <<kept, stored, lost>>
           /\ ~(TakeFrame \/ Accepted \/ AcceptedButError \/ DropMessages \/ RecordMessage \/ StoreMessage \/ MessageComes)
  <2>1. CASE JobStep
    <3>1. event' = event
      BY <2>1, EventAlone
    <3>2. /\ job.at \notin {"record", "messages"} /\ job'.at \notin {"record", "messages", "send"}
          /\ job'.at \in {"chat", "removed"} => job.at \in {"chat", "removed"}
      <4> USE DEF AtJob
      <4>1. Rejected \/ SetColumn \/ Unpin \/ Confirm \/ PushList =>
              /\ job.at \notin {"record", "messages"}
              /\ job'.at \notin {"record", "messages", "send", "chat", "removed"}
        BY JobStages, JobMoves
      <4>2. ReadFlags \/ ReadList =>
              /\ job.at \notin {"record", "messages"}
              /\ job'.at \notin {"record", "messages", "send", "chat", "removed"}
        BY JobMoves DEF ReadFlags, ReadList
      <4>3. DropRow \/ PushRemoved =>
              /\ job.at \in {"chat", "removed"} /\ job'.at \notin {"record", "messages", "send"}
        BY JobStages, JobMoves
      <4>4. RecordSummary \/ RecordPushed =>
              /\ job.at \notin {"record", "messages"}
              /\ job'.at \notin {"record", "messages", "send", "chat", "removed"}
        BY JobStages, JobMoves
      <4> QED BY <1>8, <2>1, <4>1, <4>2, <4>3, <4>4 DEF JobStep, SendAppState
    <3> QED BY <1>8, <3>1, <3>2 DEF Kept, Due
  <2>2. CASE ~JobStep
    <3>1. job' = job
      BY <2>2, OtherSteps
    <3>2. event' = event \/ (event.at # "message" /\ event'.at # "message")
      <4>1. StoreSummary \/ MessagePushed => event.at # "message" /\ event'.at # "message"
        BY <1>0 DEF StoreSummary, MessagePushed, Events
      <4> QED BY <1>8, <2>2, <4>1, EventAlone DEF EventStep
    <3> QED BY <1>8, <3>1, <3>2 DEF Kept, Due
  <2> QED BY <2>1, <2>2
<1> QED BY <1>1, <1>2, <1>3, <1>4, <1>5, <1>6, <1>7, <1>8, KeptAlone

\* A chat with messages has its row, or is about to.
LEMMA StoredStep ==
  ASSUME TypeInv, StagesApart, DeleteApart, Kept, StoredHasRow, Next, ~crossed'
  PROVE  StoredHasRow'
<1>0. job \in Jobs /\ event \in Events
  BY DEF TypeInv
<1>1. CASE DropRow
  <2>1. AtJob("chat") /\ stored' = stored
    BY <1>1, JobStages, Zenon DEF DropRow
  <2> QED BY <2>1 DEF Kept, AtJob, StoredHasRow
<1>2. CASE DropMessages
  BY <1>2 DEF DropMessages, StoredHasRow
<1>3. CASE RecordMessage
  BY <1>3, JobStages, JobMoves DEF StoredHasRow
<1>4. CASE StoreMessage
  BY <1>0, <1>4 DEF StoreMessage, StoredHasRow, Events
<1>5. CASE RecordSummary \/ StoreSummary
  <2>1. row' = TRUE
    BY <1>5 DEF RecordSummary, StoreSummary, Upsert
  <2> QED BY <2>1 DEF StoredHasRow
<1>6. CASE /\ UNCHANGED <<row, stored>>
           /\ ~(DropRow \/ DropMessages \/ RecordMessage \/ StoreMessage \/ RecordSummary \/ StoreSummary)
  <2>1. event.at = "summary" => event'.at = "summary"
    <3>1. MessageComes \/ MessagePushed => event.at # "summary"
      BY DEF MessageComes, MessagePushed
    <3>2. JobStep \/ event' = event \/ MessageComes \/ MessagePushed
      BY <1>6, EventAlone DEF EventStep
    <3> QED BY <3>1, <3>2, EventAlone
  <2>2. job.at = "recorded" => job'.at = "recorded"
    <3>1. CASE JobStep
      <4> USE DEF AtJob
      <4>1. TakeFrame \/ ReadFlags \/ ReadList => job.at # "recorded"
        BY DEF TakeFrame, ReadFlags, ReadList
      <4>2. SendAppState \/ SetColumn \/ Unpin \/ Confirm \/ PushList \/ PushRemoved \/ RecordPushed => job.at # "recorded"
        BY JobStages DEF SendAppState
      <4> QED BY <1>6, <3>1, <4>1, <4>2 DEF JobStep
    <3>2. CASE ~JobStep
      BY <3>2, OtherSteps
    <3> QED BY <3>1, <3>2
  <2> QED BY <1>6, <2>1, <2>2 DEF StoredHasRow
<1>7. \/ UNCHANGED <<row, stored>> \/ DropRow \/ DropMessages \/ RecordMessage \/ StoreMessage
      \/ RecordSummary \/ StoreSummary
  BY RowAlone, KeptAlone DEF TakeFrame, Accepted, AcceptedButError, MessageComes, tables
<1> QED BY <1>1, <1>2, <1>3, <1>4, <1>5, <1>6, <1>7

\* What is about to be said of the row is so.
LEMMA AnnouncedStep ==
  ASSUME TypeInv, StagesApart, DeleteApart, Announced, Next, ~crossed'
  PROVE  Announced'
<1>0. job \in Jobs /\ event \in Events
  BY DEF TypeInv
<1>1. CASE DropRow
  <2>1. AtJob("chat") /\ job'.at = "removed" /\ row' = FALSE
    BY <1>1, JobStages, JobMoves DEF DropRow
  <2>2. event.at = "idle" /\ event' = event
    BY <1>1, <2>1, EventAlone DEF JobStep, AtJob, DeleteApart, Deleting, StagesApart
  <2> QED BY <2>1, <2>2 DEF Announced
<1>2. CASE RecordSummary
  <2>1. job'.at = "sent" /\ row' = TRUE
    BY <1>2, JobStages, JobMoves DEF RecordSummary, Upsert
  <2> QED BY <2>1 DEF Announced
<1>3. CASE StoreSummary
  <2>1. row' = TRUE /\ event.at # "idle" /\ job' = job
    BY <1>3 DEF StoreSummary, Upsert
  <2>2. job.at # "removed"
    BY <2>1 DEF DeleteApart, Deleting, StagesApart
  <2> QED BY <2>1, <2>2 DEF Announced
<1>4. CASE ReadList
  <2>1. job'.at = "listed" /\ job'.here = row /\ row' = row /\ event' = event
    BY <1>4, JobMoves DEF ReadList, tables
  <2> QED BY <2>1 DEF Announced
<1>5. CASE row' = row /\ ~(DropRow \/ RecordSummary \/ StoreSummary \/ ReadList)
  <2>1. event'.at = "push" => event.at = "push"
    <3>1. StoreMessage \/ MessageComes \/ MessagePushed => event'.at # "push"
      BY <1>0 DEF StoreMessage, MessageComes, MessagePushed, Events
    <3> QED BY <1>5, <3>1, EventAlone DEF EventStep
  <2>2. job'.at \notin {"sent", "removed", "listed"} \/ job' = job
    <3>1. CASE JobStep
      <4>1. TakeFrame => job'.at \notin {"sent", "removed", "listed"}
        BY FlagAssumption DEF TakeFrame, Idle
      <4>2. SendAppState \/ SetColumn \/ Unpin \/ ReadFlags \/ Confirm \/ PushList =>
              job'.at \notin {"sent", "removed", "listed"}
        BY JobStages, JobMoves DEF SendAppState
      <4>3. DropMessages \/ PushRemoved \/ RecordMessage \/ RecordPushed =>
              job'.at \notin {"sent", "removed", "listed"}
        BY JobStages, JobMoves
      <4> QED BY <1>5, <3>1, <4>1, <4>2, <4>3 DEF JobStep
    <3>2. CASE ~JobStep
      BY <3>2, OtherSteps
    <3> QED BY <3>1, <3>2
  <2> QED BY <1>5, <2>1, <2>2 DEF Announced
<1> QED BY <1>1, <1>2, <1>3, <1>4, <1>5, RowAlone

\* A frame that speaks of the row decides it.
LEMMA PushedHas ==
  ASSUME TypeInv, NEW kind \in {"message", "update", "list", "removed"},
         NEW view \in SUBSET Flags, NEW here \in BOOLEAN,
         Pushes(kind, view, here), UNCHANGED <<known, row>>,
         Speaks([kind |-> kind, view |-> view, here |-> here], "row") => (kind # "removed" <=> row),
         Speaks([kind |-> kind, view |-> view, here |-> here], "row") \/ WillHave
  PROVE  WillHave'
<1> DEFINE m == [kind |-> kind, view |-> view, here |-> here]
<1>1. m \in Reports /\ down \in Seq(Reports) /\ m.kind = kind
  BY DEF Reports, TypeInv
<1>2. down' = Append(down, m)
  BY DEF Pushes
<1>3. Speaks(m, "row") => (m.kind # "removed" <=> row)
  BY <1>1
<1>4. Speaks(m, "row") \/ WillHave
  OBVIOUS
<1> HIDE DEF m
<1>5. CASE Speaks(m, "row")
  <2>1. ~Silent(down', "row")
    BY <1>1, <1>2, <1>5, LastWordAppend
  <2>2. \A i \in 1..Len(down') : HasLastWord(down', i, "row") => down'[i] = m
    BY <1>1, <1>2, <1>5, LastWordAppend
  <2> QED BY <1>3, <1>5, <2>1, <2>2 DEF WillHave
<1>6. CASE ~Speaks(m, "row")
  <2>1. Silent(down', "row") => Silent(down, "row")
    BY <1>1, <1>2, <1>6, LastWordAppend
  <2>2. \A i \in 1..Len(down') : HasLastWord(down', i, "row") =>
          i \in 1..Len(down) /\ HasLastWord(down, i, "row") /\ down'[i] = down[i]
    BY <1>1, <1>2, <1>6, LastWordAppend
  <2>3. WillHave
    BY <1>4, <1>6
  <2> QED BY <2>1, <2>2, <2>3 DEF WillHave
<1> QED BY <1>5, <1>6

\* The frame of a message, and of a chat removed.
LEMMA MessageHas ==
  ASSUME TypeInv, UNCHANGED <<known, row>>,
         \/ row /\ \E p \in BOOLEAN : PushMessage(p)
         \/ ~row /\ Pushes("removed", {}, FALSE)
  PROVE  WillHave'
<1>1. ASSUME row, NEW p \in BOOLEAN, PushMessage(p)
      PROVE  WillHave'
  <2> DEFINE view == IF p THEN {"pinned"} ELSE {}
  <2>1. view \in SUBSET Flags
    BY FlagAssumption
  <2>2. Pushes("message", view, TRUE)
    BY <1>1 DEF PushMessage
  <2>3. Speaks([kind |-> "message", view |-> view, here |-> TRUE], "row")
    BY DEF Speaks
  <2>4. "message" \in {"message", "update", "list", "removed"} /\ TRUE \in BOOLEAN /\ "message" # "removed"
    OBVIOUS
  <2> HIDE DEF view
  <2> QED BY <1>1, <2>1, <2>2, <2>3, <2>4, PushedHas, Zenon
<1>2. ASSUME ~row, Pushes("removed", {}, FALSE)
      PROVE  WillHave'
  <2>1. "removed" \in {"message", "update", "list", "removed"} /\ FALSE \in BOOLEAN /\ {} \in SUBSET Flags
    OBVIOUS
  <2>2. Speaks([kind |-> "removed", view |-> {}, here |-> FALSE], "row")
    BY DEF Speaks
  <2> QED BY <1>2, <2>1, <2>2, PushedHas, Zenon
<1> QED BY <1>1, <1>2

\* A frame is heard.
LEMMA HeardHas ==
  ASSUME TypeInv, Hear, WillHave
  PROVE  WillHave'
<1> DEFINE m == down[1]
<1>0. down # <<>> /\ down' = Tail(down) /\ Head(down) = m /\ down \in Seq(Reports) /\ m \in Reports
      /\ 1 \in 1..Len(down)
  BY TailFacts DEF Hear, HearMessage, HearUpdate, HearRemoved, HearList, Hears, TypeInv
<1>1. row' = row
  BY DEF Hear, HearMessage, HearUpdate, HearRemoved, HearList, tables
<1>2. \A i \in 1..Len(down') : HasLastWord(down', i, "row") => (down'[i].kind # "removed" <=> row')
  <2>1. SUFFICES ASSUME NEW i \in 1..Len(down'), HasLastWord(down', i, "row")
                 PROVE  down'[i].kind # "removed" <=> row'
    OBVIOUS
  <2>2. HasLastWord(down, i + 1, "row") /\ i + 1 \in 1..Len(down) /\ down'[i] = down[i + 1]
    BY <1>0, <2>1, LastWordTail
  <2> QED BY <1>1, <2>2 DEF WillHave
<1>3. Silent(down', "row") /\ Speaks(m, "row") => (m.kind # "removed" <=> row)
  BY <1>0, LastWordTail DEF WillHave
<1>4. Silent(down', "row") /\ ~Speaks(m, "row") => (known <=> row)
  BY <1>0, LastWordTail DEF WillHave
<1>5. SUFFICES ASSUME Silent(down', "row") PROVE known' <=> row
  BY <1>1, <1>2 DEF WillHave
<1> HIDE DEF m
<1>6. CASE HearMessage
  <2>1. m.kind = "message" /\ known' = TRUE
    BY <1>0, <1>6 DEF HearMessage, Hears
  <2>2. Speaks(m, "row")
    BY <2>1 DEF Speaks
  <2> QED BY <1>3, <1>5, <2>1, <2>2
<1>7. CASE HearUpdate
  <2>1. m.kind = "update" /\ known' = known
    BY <1>0, <1>7 DEF HearUpdate, Hears
  <2>2. ~Speaks(m, "row")
    BY <2>1 DEF Speaks
  <2> QED BY <1>4, <1>5, <2>1, <2>2
<1>8. CASE HearRemoved
  <2>1. m.kind = "removed" /\ known' = FALSE
    BY <1>0, <1>8 DEF HearRemoved, Hears
  <2>2. Speaks(m, "row")
    BY <2>1 DEF Speaks
  <2> QED BY <1>3, <1>5, <2>1, <2>2
<1>9. CASE HearList
  <2>1. m.kind = "list" /\ known' = (known \/ m.here)
    BY <1>0, <1>9 DEF HearList, Hears
  <2>2. Speaks(m, "row") <=> m.here
    BY <2>1 DEF Speaks
  <2> QED BY <1>3, <1>4, <1>5, <2>1, <2>2
<1> QED BY <1>6, <1>7, <1>8, <1>9 DEF Hear

\* Once the frames under way are heard, the app has a row where the daemon has.
LEMMA RowStep ==
  ASSUME TypeInv, StagesApart, DeleteApart, Announced, RowAgrees, Next, ~crossed'
  PROVE  RowAgrees'
<1>1. SUFFICES ASSUME event'.at # "push", job'.at \notin {"sent", "removed"} PROVE WillHave'
  BY DEF RowAgrees
<1>2. CASE PushRemoved \/ RecordPushed \/ MessagePushed
  <2>1. UNCHANGED <<known, row>>
    BY <1>2, DownStages DEF PushRemoved, RecordPushed, MessagePushed, tables
  <2>2. PushRemoved => ~row /\ Pushes("removed", {}, FALSE)
    BY JobStages, DownStages, Zenon DEF Announced, AtJob
  <2>3. RecordPushed => row /\ PushMessage(FALSE) /\ FALSE \in BOOLEAN
    BY JobStages, DownStages, Zenon DEF Announced, AtJob
  <2>4. MessagePushed => row /\ PushMessage(event.pinned)
    BY DownStages, Zenon DEF Announced, MessagePushed
  <2>5. event.pinned \in BOOLEAN
    BY DEF TypeInv, Events
  <2> QED BY <1>2, <2>1, <2>2, <2>3, <2>4, <2>5, MessageHas, Zenon
<1>3. CASE ~(PushRemoved \/ RecordPushed \/ MessagePushed)
  <2>1. row' = row
    <3>1. DropRow => job'.at = "removed"
      BY JobStages, JobMoves
    <3>2. RecordSummary => job'.at = "sent"
      BY JobStages, JobMoves
    <3>3. StoreSummary => event'.at = "push"
      BY DEF StoreSummary, TypeInv, Events
    <3> QED BY <1>1, <3>1, <3>2, <3>3, RowAlone
  <2>2. event.at # "push"
    <3>1. StoreMessage \/ StoreSummary \/ MessageComes => event.at # "push"
      BY DEF StoreMessage, StoreSummary, MessageComes
    <3> QED BY <1>1, <1>3, <3>1, EventAlone DEF EventStep
  <2>3. job.at \notin {"sent", "removed"}
    <3>1. CASE JobStep
      <4> USE DEF AtJob
      <4>1. TakeFrame \/ ReadFlags \/ ReadList => job.at \notin {"sent", "removed"}
        BY DEF TakeFrame, ReadFlags, ReadList
      <4>2. SendAppState \/ SetColumn \/ Unpin \/ Confirm \/ PushList => job.at \notin {"sent", "removed"}
        BY JobStages DEF SendAppState
      <4>3. DropMessages \/ DropRow \/ RecordMessage \/ RecordSummary => job.at \notin {"sent", "removed"}
        BY JobStages
      <4> QED BY <1>3, <3>1, <4>1, <4>2, <4>3 DEF JobStep
    <3>2. CASE ~JobStep
      BY <1>1, <3>2, OtherSteps
    <3> QED BY <3>1, <3>2
  <2>4. WillHave
    BY <2>2, <2>3 DEF RowAgrees
  <2>5. CASE Confirm
    <3>1. Pushes("update", job.view, TRUE) /\ UNCHANGED <<known, row>>
      BY <2>1, <2>5, DownStages
    <3>2. ~Speaks([kind |-> "update", view |-> job.view, here |-> TRUE], "row")
      BY DEF Speaks
    <3>3. "update" \in {"message", "update", "list", "removed"} /\ TRUE \in BOOLEAN /\ job.view \in SUBSET Flags
      BY StageTypes
    <3> QED BY <2>4, <3>1, <3>2, <3>3, PushedHas, Zenon
  <2>6. CASE PushList
    <3>1. Pushes("list", job.view, job.here) /\ UNCHANGED <<known, row>>
      BY <2>1, <2>6, DownStages
    <3>2. Speaks([kind |-> "list", view |-> job.view, here |-> job.here], "row") => row
      BY <2>6, JobStages DEF AtJob, Announced, Speaks
    <3>3. "list" \in {"message", "update", "list", "removed"} /\ job.here \in BOOLEAN /\ job.view \in SUBSET Flags
          /\ "list" # "removed"
      BY StageTypes
    <3> QED BY <2>4, <3>1, <3>2, <3>3, PushedHas, Zenon
  <2>7. CASE Hear
    BY <2>4, <2>7, HeardHas
  <2>8. CASE UNCHANGED <<down, known>>
    BY <2>1, <2>4, <2>8 DEF WillHave
  <2>9. Confirm \/ PushList \/ Hear \/ UNCHANGED <<down, known>>
    <3>1. JobStep => Confirm \/ PushList \/ UNCHANGED <<down, known>>
      BY <1>3, DownStages, Zenon DEF JobStep
    <3> QED BY <1>3, <3>1, DownStages, Zenon DEF Next, EventStep
  <2> QED BY <2>5, <2>6, <2>7, <2>8, <2>9
<1> QED BY <1>2, <1>3

-----------------------------------------------------------------------------
(* The theorems                                                            *)

\* The invariant holds at first.
LEMMA InvInit == Init => IInv
<1> SUFFICES ASSUME Init PROVE IInv
  OBVIOUS
<1> USE DEF Init
<1>0. {} \in SUBSET Flags /\ "pinned" \in Flags /\ 1 \in Msgs /\ 0 \in 0..MaxKeys /\ 0 \in 0..MaxFar
      /\ 0 \in 0..(MaxMsgs + 1)
  BY FlagAssumption, BoundAssumption DEF Msgs
<1>1. Idle \in Jobs /\ Idle.at = "idle"
  BY <1>0 DEF Idle, Jobs, Stages
<1>2. event \in Events /\ event.at = "idle" /\ event.pinned = FALSE
  BY <1>0 DEF Events
<1>3. up \in Seq(Asks) /\ down \in Seq(Reports) /\ Len(up) = 0 /\ Len(down) = 0
  OBVIOUS
<1>4. Numbered(up) /\ ~Looks(up)
  BY <1>3 DEF Numbered, Looks
<1>5. TypeInv
  BY <1>0, <1>1, <1>2, <1>3, <1>4 DEF TypeInv
<1>6. StagesApart /\ ~Read /\ ~Refreshing /\ ~Deleting
  BY <1>1, <1>4 DEF StagesApart, Read, Refreshing, Deleting
<1>7. Unset
  BY <1>1, <1>2 DEF Unset
<1>8. SettingsAgree
  BY DEF SettingsAgree, Unsynced
<1>9. MessagesPinOnly /\ ViewAgrees
  BY <1>3, <1>6 DEF MessagesPinOnly, ViewAgrees
<1>10. FlagsAgree
  BY <1>3 DEF FlagsAgree, WillShow
<1>11. DeleteApart /\ Kept /\ StoredHasRow /\ Announced
  BY <1>1, <1>2, <1>6 DEF DeleteApart, Kept, Due, StoredHasRow, Announced
<1>12. RowAgrees
  BY <1>3 DEF RowAgrees, WillHave
<1> QED BY <1>5, <1>6, <1>7, <1>8, <1>9, <1>10, <1>11, <1>12 DEF IInv, Deletion

\* That a message was handled while the chat was deleted is not forgotten.
LEMMA CrossedStays ==
  ASSUME Next
  PROVE  crossed => crossed'
<1>1. JobStep => (crossed => crossed')
  BY Zenon DEF JobStep, SendAppState, TakeFrame, Accepted, Rejected, AcceptedButError, SetColumn, Unpin, ReadFlags,
         Confirm, ReadList, PushList, DropMessages, DropRow, PushRemoved, RecordMessage, RecordSummary, RecordPushed
<1>2. EventStep \/ MessageComes \/ SyncArrives => (crossed => crossed')
  BY Zenon DEF EventStep, StoreMessage, StoreSummary, MessagePushed, MessageComes, SyncArrives
<1>3. AppStep => (crossed => crossed')
  BY Zenon DEF AppStep, Hear, HearMessage, HearUpdate, HearRemoved, HearList, PressDelete, AskForList,
       SendMessage, PressFlag, Key
<1>4. \A f, on : FlagElsewhere(f, on) => (crossed => crossed')
  BY Zenon DEF FlagElsewhere
<1> QED BY <1>1, <1>2, <1>3, <1>4, Zenon DEF Next, AppStep

\* It is kept by every step.
LEMMA InvStep == IInv /\ [Next]_vars => IInv'
<1>1. ASSUME IInv, Next
      PROVE  IInv'
  <2> USE <1>1 DEF IInv
  <2>1. TypeInv'
    BY JobTypes, EventTypes, AppTypes DEF Next
  <2>2. StagesApart' /\ Unset' /\ SettingsAgree'
    BY StagesStep, UnsetStep, SettingsStep
  <2>3. MessagesPinOnly' /\ ViewAgrees'
    BY PinOnlyStep, ViewStep
  <2>4. FlagsAgree'
    BY FlagsStep
  <2>5. ASSUME ~crossed'
        PROVE  Deletion'
    <3>1. Deletion
      BY <2>5, CrossedStays
    <3>2. DeleteApart' /\ Kept' /\ StoredHasRow'
      BY <2>5, <3>1, ApartStep, KeptStep, StoredStep DEF Deletion
    <3>3. Announced' /\ RowAgrees'
      BY <2>5, <3>1, AnnouncedStep, RowStep DEF Deletion
    <3> QED BY <3>2, <3>3 DEF Deletion
  <2> QED BY <2>1, <2>2, <2>3, <2>4, <2>5
<1>2. IInv /\ UNCHANGED vars => IInv'
  <2> SUFFICES ASSUME IInv, UNCHANGED vars PROVE IInv'
    OBVIOUS
  <2> USE DEF vars, accountSide, tables, app
  <2>1. TypeInv' /\ StagesApart' /\ Unset'
    BY DEF IInv, TypeInv, StagesApart, Unset
  <2>2. SettingsAgree' /\ MessagesPinOnly'
    BY DEF IInv, SettingsAgree, Unsynced, MessagesPinOnly
  <2>3. ViewAgrees' /\ FlagsAgree'
    BY DEF IInv, ViewAgrees, Read, FlagsAgree, Refreshing, WillShow
  <2>4. ~crossed' => DeleteApart' /\ Kept' /\ StoredHasRow'
    BY DEF IInv, Deletion, DeleteApart, Deleting, Kept, Due, StoredHasRow
  <2>5. ~crossed' => Announced' /\ RowAgrees'
    BY DEF IInv, Deletion, Announced, RowAgrees, WillHave
  <2> QED BY <2>1, <2>2, <2>3, <2>4, <2>5 DEF IInv, Deletion
<1> QED BY <1>1, <1>2

\* So it is an invariant.
LEMMA Invariance == Spec => []IInv
BY InvInit, InvStep, PTL DEF Spec

\* The state of a chat, its frames and its jobs keep their types.
THEOREM RowTypeCorrect == Spec => []TypeOK
<1>1. IInv => TypeOK
  BY TypeOKIs DEF IInv
<1> QED BY <1>1, Invariance, PTL

\* When nothing is under way the app shows the flags the account has, whatever
\* keys were pressed ahead of their answers and whichever were rejected.
THEOREM RowIsTrueInvariant == Spec => []RowIsTrue
<1>1. IInv => RowIsTrue
  <2>1. SUFFICES ASSUME IInv, Quiet, known, NEW f \in Flags \ behind
                 PROVE  f \in shown <=> f \in account
    BY DEF RowIsTrue
  <2>2. ~Refreshing /\ ~Read
    BY <2>1 DEF Quiet, Refreshing, Read, Looks
  <2>3. WillShow(f)
    BY <2>1, <2>2 DEF IInv, FlagsAgree
  <2>4. Silent(down, f)
    BY <2>1 DEF Quiet, Silent
  <2> QED BY <2>1, <2>3, <2>4 DEF WillShow
<1> QED BY <1>1, Invariance, PTL

\* A delete takes the chat out of the account, the tables and the app, or out of
\* none of them, unless a message crossed it or the daemon was told that it had
\* failed.
THEOREM DeletedEverywhereInvariant == Spec => []DeletedEverywhere
<1>1. IInv => DeletedEverywhere
  <2>1. SUFFICES ASSUME IInv, Quiet, ~crossed
                 PROVE  kept \subseteq stored /\ stored \ kept \subseteq lost /\ (stored # {} => row) /\ (known <=> row)
    BY DEF DeletedEverywhere
  <2>2. job.at = "idle" /\ event.at = "idle"
    BY <2>1 DEF Quiet
  <2>3. Kept /\ StoredHasRow /\ RowAgrees
    BY <2>1 DEF IInv, Deletion
  <2>4. kept \subseteq stored /\ stored \ kept \subseteq lost
    BY <2>2, <2>3 DEF Kept, Due
  <2>5. stored # {} => row
    BY <2>2, <2>3 DEF StoredHasRow
  <2>6. Silent(down, "row")
    BY <2>1 DEF Quiet, Silent
  <2>7. known <=> row
    BY <2>2, <2>3, <2>6 DEF RowAgrees, WillHave
  <2> QED BY <2>4, <2>5, <2>7
<1> QED BY <1>1, Invariance, PTL

=============================================================================
