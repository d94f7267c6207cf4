---------------------------- MODULE LiveLocation ----------------------------
(***************************************************************************)
(* A live location share: the state the app keeps of it (app.js), the      *)
(* frames between them, which are never queued through an outage, and the  *)
(* daemon's table of running shares (sendloc.go, main.go).                 *)
(*                                                                         *)
(* The app knows one share, the daemon one per chat.  Each start the app   *)
(* makes takes a GPS watch and an interval timer, known together by the    *)
(* number of the start.  After a reconnect the handler of the old          *)
(* connection may still be waiting for WhatsApp while that of the new one  *)
(* handles the next frame: each changes the table under its lock and        *)
(* tells the phone afterwards.  A fix is a place or, as 0,0, a failed one. *)
(***************************************************************************)
EXTENDS Naturals, Sequences

CONSTANTS
  Chats,
  NoChat,
  NumConns,   \* bound: connections the phone makes, one after the other
  MaxStarts,  \* bound: starts by the user
  MaxSends    \* bound: starts and updates together

ASSUME ChatAssumption == NoChat \notin Chats
ASSUME BoundAssumption == MaxStarts \in Nat /\ MaxSends \in Nat /\ NumConns \in Nat \ {0}

Conns == 1..NumConns
Starts == 1..MaxStarts
Frames == [act : {"start", "update", "stop"}, chat : Chats, good : BOOLEAN]
Idle == [at |-> "idle"]
NoShare == [id |-> 0]
ShareOK(s) ==
  \/ s = NoShare
  \/ s \in [id : Starts, broken : BOOLEAN, over : BOOLEAN]

VARIABLES
  wanted,    \* chats a duration was chosen for and whose first fix is awaited
  active, pending, chat, over,  \* liveShare on the phone; over: past endsAt
  confirm,   \* its confirmTimer is armed
  cur,       \* its watchId and timer, 0 for null
  running,   \* the GPS watches and timers that run
  begun,     \* starts made
  ticks,     \* updates sent
  conn,      \* the phone's connection
  up,        \* frames to the daemon, per connection
  down,      \* frames to the phone
  job,       \* the handler of each connection
  share,     \* liveShares.m
  opened,    \* opening messages WhatsApp has accepted
  overtaken, \* a share was opened while another handler still had to report
             \* the end of the one before it (history)
  calm       \* so far no frame was lost, every fix was a place, and every start
             \* was accepted and confirmed before the app or the user lost patience

liveShare == <<active, pending, chat, over, confirm, cur>>
app == <<wanted, liveShare, running, begun, ticks>>
daemon == <<job, share, opened>>
vars == <<app, conn, up, down, daemon, overtaken, calm>>

TypeOK ==
  /\ wanted \subseteq Chats
  /\ {active, pending, over, confirm} \subseteq BOOLEAN
  /\ chat \in Chats \cup {NoChat}
  /\ cur \in Starts \cup {0} /\ running \subseteq Starts /\ begun \in Starts \cup {0} /\ ticks \in 0..MaxSends
  /\ conn \in Conns
  /\ \A n \in Conns : up[n] \in Seq(Frames)
  /\ down \in Seq([chat : Chats, active : BOOLEAN])
  /\ \A n \in Conns : job[n].at \in {"idle", "start", "update", "tell"}
  /\ \A c \in Chats : ShareOK(share[c])
  /\ opened \in 0..begun
  /\ overtaken \in BOOLEAN /\ calm \in BOOLEAN

Init ==
  /\ wanted = {}
  /\ active = FALSE /\ pending = FALSE /\ chat = NoChat /\ over = FALSE
  /\ confirm = FALSE /\ cur = 0
  /\ running = {} /\ begun = 0 /\ ticks = 0
  /\ conn = 1
  /\ up = [n \in Conns |-> <<>>]
  /\ down = <<>>
  /\ job = [n \in Conns |-> Idle]
  /\ share = [c \in Chats |-> NoShare]
  /\ opened = 0
  /\ overtaken = FALSE /\ calm = TRUE

\* Wire.send on a connection that is up; one that is going down loses it.
Sends(act, c, good) ==
  \/ /\ up' = [up EXCEPT ![conn] = Append(@, [act |-> act, chat |-> c, good |-> good])]
     /\ calm' = (calm /\ good)
  \/ UNCHANGED up /\ calm' = FALSE

-----------------------------------------------------------------------------
(* The app                                                                 *)

ChooseDuration(c) ==
  /\ ~active
  /\ wanted' = wanted \cup {c}
  /\ calm' = (calm /\ ~pending /\ wanted = {})
  /\ UNCHANGED <<liveShare, running, begun, ticks, conn, up, down, daemon, overtaken>>

\* The first fix: what an earlier start still holds is not released.
BeginLiveShare(c, good) ==
  /\ c \in wanted /\ begun < MaxStarts /\ begun + ticks < MaxSends
  /\ wanted' = wanted \ {c}
  /\ begun' = begun + 1
  /\ pending' = TRUE /\ chat' = c /\ over' = FALSE /\ confirm' = TRUE
  /\ cur' = begun + 1
  /\ running' = running \cup {begun + 1}
  /\ Sends("start", c, good)
  /\ UNCHANGED <<active, ticks, conn, down, daemon, overtaken>>

\* stopLiveLocation, for a share that is active or pending.
BugStops ==
  /\ Sends("stop", chat, TRUE)
  /\ active' = FALSE /\ pending' = FALSE /\ confirm' = FALSE
  /\ running' = running /\ cur' = 0
  /\ UNCHANGED <<wanted, chat, over, begun, ticks>>

Stops ==
  /\ Sends("stop", chat, TRUE)
  /\ active' = FALSE /\ pending' = FALSE /\ confirm' = FALSE
  /\ running' = running \ {cur} /\ cur' = 0
  /\ UNCHANGED <<wanted, chat, over, begun, ticks>>

UserStops ==
  /\ active
  /\ Stops
  /\ UNCHANGED <<conn, down, daemon, overtaken>>

\* The timer clears pending and calls stopLiveLocation, which returns at once:
\* the share is neither active nor pending.
ConfirmTimesOut ==
  /\ confirm /\ pending /\ ~active
  /\ pending' = FALSE /\ confirm' = FALSE /\ calm' = FALSE
  /\ UNCHANGED <<wanted, active, chat, over, cur, running, begun, ticks, conn, up, down, daemon, overtaken>>

\* One tick of an interval timer that runs.
PumpUpdates(good) ==
  /\ running # {} /\ active /\ ~over
  /\ begun + ticks < MaxSends
  /\ ticks' = ticks + 1
  /\ Sends("update", chat, good)
  /\ UNCHANGED <<wanted, liveShare, running, begun, conn, down, daemon, overtaken>>

PumpEnds ==
  /\ running # {} /\ active /\ over
  /\ Stops
  /\ UNCHANGED <<conn, down, daemon, overtaken>>

\* The phone's clock passes endsAt.
PhoneClock ==
  /\ cur # 0 /\ ~over
  /\ over' = TRUE
  /\ UNCHANGED <<wanted, active, pending, chat, confirm, cur, running, begun, ticks, conn, up, down, daemon, overtaken, calm>>

\* The LIVELOCSTATE handler.
HearsEnded ==
  /\ down # <<>> /\ ~Head(down).active
  /\ down' = Tail(down)
  /\ IF active /\ chat = Head(down).chat THEN Stops ELSE UNCHANGED <<app, up, calm>>
  /\ UNCHANGED <<conn, daemon, overtaken>>

HearsActive ==
  /\ down # <<>> /\ Head(down).active
  /\ down' = Tail(down)
  /\ IF chat = Head(down).chat /\ (pending \/ active)
     THEN active' = TRUE /\ pending' = FALSE /\ confirm' = FALSE /\ over' = FALSE
     ELSE UNCHANGED <<active, pending, confirm, over>>
  /\ UNCHANGED <<wanted, chat, cur, running, begun, ticks, up, conn, daemon, overtaken, calm>>

\* The socket is replaced: frames to the phone are gone, those the daemon has
\* received on the old connection are still handled.
Reconnect ==
  /\ conn + 1 \in Conns
  /\ conn' = conn + 1
  /\ \E k \in 0..Len(up[conn]) : up' = [up EXCEPT ![conn] = SubSeq(@, 1, k)]
  /\ down' = <<>>
  /\ calm' = (calm /\ up' = up /\ down = <<>>)
  /\ UNCHANGED <<app, daemon, overtaken>>

-----------------------------------------------------------------------------
(* The daemon                                                              *)

Takes(n, act) ==
  /\ job[n].at = "idle"
  /\ up[n] # <<>>
  /\ Head(up[n]).act = act
  /\ up' = [up EXCEPT ![n] = Tail(@)]
Frame(n) == Head(up[n])

Report(c, on) == [at |-> "tell", chat |-> c, on |-> on]

\* hub.PushT, to whatever connection the phone has by then.
Tell(n) ==
  /\ job[n].at = "tell"
  /\ \/ down' = Append(down, [chat |-> job[n].chat, active |-> job[n].on]) /\ UNCHANGED calm
     \/ UNCHANGED down /\ calm' = FALSE
  /\ job' = [job EXCEPT ![n] = Idle]
  /\ UNCHANGED <<app, conn, up, share, opened, overtaken>>

\* checkCoords, and then the opening message goes out.
TakeStart(n) ==
  /\ Takes(n, "start")
  /\ Frame(n).good
  /\ job' = [job EXCEPT ![n] = [at |-> "start", chat |-> Frame(n).chat]]
  /\ UNCHANGED <<app, conn, down, share, opened, overtaken, calm>>

\* A start that is refused reports an error, which the app only shows.
RefuseStart(n) ==
  /\ Takes(n, "start")
  /\ ~Frame(n).good
  /\ UNCHANGED <<app, conn, down, daemon, overtaken, calm>>

\* A share still running in that chat is replaced.
EndUntold(c) == \E m \in Conns : job[m].at = "tell" /\ ~job[m].on /\ job[m].chat = c
StartAccepted(n) ==
  /\ job[n].at = "start"
  /\ opened' = opened + 1
  /\ share' = [share EXCEPT ![job[n].chat] =
                [id |-> opened + 1, broken |-> FALSE, over |-> FALSE]]
  /\ overtaken' = (overtaken \/ EndUntold(job[n].chat))
  /\ job' = [job EXCEPT ![n] = Report(job[n].chat, TRUE)]
  /\ UNCHANGED <<app, conn, up, down, calm>>

StartFails(n) ==
  /\ job[n].at = "start"
  /\ job' = [job EXCEPT ![n] = Idle]
  /\ calm' = FALSE
  /\ UNCHANGED <<app, conn, up, down, share, opened, overtaken>>

Running(c) == share[c].id # 0

\* The daemon's clock passes endsAt.
DaemonClock(c) ==
  /\ Running(c) /\ ~share[c].over
  /\ share' = [share EXCEPT ![c].over = TRUE]
  /\ UNCHANGED <<app, conn, up, down, job, opened, overtaken, calm>>

\* UpdateLiveLocation, up to the call of SendMessage.
TakeUpdate(n) ==
  /\ Takes(n, "update")
  /\ Frame(n).good
  /\ LET c == Frame(n).chat IN
       /\ Running(c) /\ ~share[c].over /\ ~share[c].broken
       /\ job' = [job EXCEPT ![n] = [at |-> "update", chat |-> c, id |-> share[c].id]]
  /\ UNCHANGED <<app, conn, down, share, opened, overtaken, calm>>

\* An update was refused before: nothing is sent and nothing reported.
SkipUpdate(n) ==
  /\ Takes(n, "update")
  /\ Frame(n).good
  /\ LET s == share[Frame(n).chat] IN s.id # 0 /\ ~s.over /\ s.broken
  /\ UNCHANGED <<app, conn, down, daemon, overtaken, calm>>

\* Not running any more, or not a place: the app will be told that it is over.
BugUpdateRefused(n) ==
  /\ Takes(n, "update")
  /\ job' = [job EXCEPT ![n] = Report(Frame(n).chat, FALSE)]
  /\ UNCHANGED <<app, conn, down, share, opened, overtaken, calm>>

UpdateRefused(n) ==
  /\ Takes(n, "update")
  /\ LET c == Frame(n).chat IN
       /\ \/ (~Frame(n).good \/ ~Running(c)) /\ UNCHANGED share
          \/ /\ Frame(n).good /\ Running(c) /\ share[c].over
             /\ share' = [share EXCEPT ![c] = NoShare]
       /\ job' = [job EXCEPT ![n] = Report(c, FALSE)]
  /\ UNCHANGED <<app, conn, down, opened, overtaken, calm>>

UpdateSent(n) ==
  /\ job[n].at = "update"
  /\ job' = [job EXCEPT ![n] = Idle]
  /\ UNCHANGED <<app, conn, up, down, share, opened, overtaken, calm>>

\* Refused by WhatsApp: the share now running in the chat is marked.
UpdateFails(n) ==
  /\ job[n].at = "update"
  /\ share' = IF Running(job[n].chat) THEN [share EXCEPT ![job[n].chat].broken = TRUE] ELSE share
  /\ job' = [job EXCEPT ![n] = Idle]
  /\ UNCHANGED <<app, conn, up, down, opened, overtaken, calm>>

BugTakeStop(n) ==
  /\ Takes(n, "stop")
  /\ job' = [job EXCEPT ![n] = Report(Frame(n).chat, FALSE)]
  /\ UNCHANGED <<app, conn, down, share, opened, overtaken, calm>>

TakeStop(n) ==
  /\ Takes(n, "stop")
  /\ share' = [share EXCEPT ![Frame(n).chat] = NoShare]
  /\ job' = [job EXCEPT ![n] = Report(Frame(n).chat, FALSE)]
  /\ UNCHANGED <<app, conn, down, opened, overtaken, calm>>

-----------------------------------------------------------------------------
Pump == PumpEnds \/ \E g \in BOOLEAN : PumpUpdates(g)
Hears == HearsEnded \/ HearsActive
Handles(n) ==
  \/ TakeStart(n) \/ RefuseStart(n) \/ StartAccepted(n) \/ StartFails(n)
  \/ TakeUpdate(n) \/ SkipUpdate(n) \/ UpdateRefused(n) \/ UpdateSent(n) \/ UpdateFails(n)
  \/ TakeStop(n) \/ Tell(n)

Next ==
  \/ \E c \in Chats :
       ChooseDuration(c) \/ (\E g \in BOOLEAN : BeginLiveShare(c, g)) \/ DaemonClock(c)
  \/ UserStops \/ ConfirmTimesOut \/ Pump \/ PhoneClock \/ Hears \/ Reconnect
  \/ \E n \in Conns : Handles(n)

Spec == Init /\ [][Next]_vars

\* A timer that runs keeps ticking, and frames are handled.
Fairness == WF_vars(PumpEnds) /\ WF_vars(Hears) /\ \A n \in Conns : WF_vars(Handles(n))
FairSpec == Spec /\ Fairness

-----------------------------------------------------------------------------
(* Properties                                                              *)

\* app.js:2928, "A share that is running with nothing on screen to say so is a
\* battery leak the user can't see": no GPS watch outlives its share.
NoLeakedWatch == running # {} => running = {cur} /\ (active \/ pending)

\* Which is so as long as nothing goes wrong on the way, for a share in one chat
\* after another, stopped from either side and at either clock.
NoHiddenWatch == calm => NoLeakedWatch

\* The bar and the GPS go only when the daemon runs no share in that chat: what
\* it reports is the "state of an outgoing live share" (protocol.go:46).
EndedMeansNotRunning == [][calm /\ HearsEnded /\ active /\ ~active' => ~Running(chat)]_vars

\* Which is so unless a handler was overtaken between its change of the table and
\* its report (main.go:357-358) by one of a later connection that opened a share
\* in the same chat: for two clocks, frames and reports under way, and a share
\* stopped and started again across a reconnect.
EndedUnlessOvertaken ==
  [][calm /\ ~overtaken /\ HearsEnded /\ active /\ ~active' => ~Running(chat)]_vars

\* One failed update ends the updates of its own share and of no other
\* (sendloc.go:101, "One failure ends the updates for this share").
BrokenIsItsOwn ==
  [][\A n \in Conns : UpdateFails(n) /\ Running(job[n].chat) =>
       share[job[n].chat].id = job[n].id]_vars

\* "the share stops itself at the chosen duration even if the app is never
\* reopened" (app.js:2820): once the phone's clock is past the end, the GPS watch
\* and the timer of the share on the screen are cleared, whatever was lost.  One
\* that another start has replaced (NoLeakedWatch) is not in liveShare any more.
GpsGoesOff ==
  \A s \in Starts : active /\ over /\ cur = s ~> s \notin running \/ ~over

\* A share that was stopped on the phone is not kept by the daemon: the table
\* empties when no share is wanted, unless the share simply runs out.
StopReachesDaemon ==
  \A c \in Chats :
    calm /\ ~active /\ ~pending /\ Running(c) ~> ~Running(c) \/ active \/ pending \/ ~calm
=============================================================================
