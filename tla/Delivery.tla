------------------------------ MODULE Delivery ------------------------------
(***************************************************************************)
(* How the phone learns of an incoming message: the end of handleMsg       *)
(* (client.go), the doorbell (push.go), the service worker it wakes        *)
(* (sw.js), and the alert of an app that still holds its socket (app.js).  *)
(*                                                                         *)
(* Messages of a chat are numbered, and all that matters of a chat is its  *)
(* newest one.  A bubble is the number of the newest message it reports, 0 *)
(* for none; what it says ("3 new messages") is the summary it was drawn   *)
(* from.  The link is "dead" when the daemon still counts the phone as     *)
(* attached and nothing arrives there any more; the hub and the socket     *)
(* have modules of their own.  Sending MARKREAD over a link that is up is  *)
(* one step with its handler (MessageStore has the steps of MarkChatRead). *)
(***************************************************************************)
EXTENDS Naturals, Sequences, Functions

CONSTANTS
  Chats,
  NoChat,
  MaxMsgs,     \* bound: messages
  MaxSubs,     \* bound: endpoints the phone is given, one after the other
  MaxMoves,    \* bound: things the user does, on this phone or elsewhere
  MaxBreaks    \* bound: links that break, posts, wakes and fetches that fail

ASSUME ChatAssumption == NoChat \notin Chats
ASSUME BoundAssumption == {MaxMsgs, MaxMoves, MaxBreaks} \subseteq Nat /\ MaxSubs \in Nat \ {0}

Endpoints == 1..MaxSubs
Nothing == [c \in Chats |-> 0]

VARIABLES
  arrived, unread,   \* rows of the store: incoming messages, chats with unread ones
  account,           \* the synced mute: "unset", "loud" or "muted"
  column,            \* chats whose stored muted column is set
  recent,            \* push.last: chats woken for within pushCoalesce
  subs,              \* push_subs
  handling,          \* handleMsg: the message, and where it is
  posts,             \* POSTs on their way, per endpoint
  link, down,        \* the socket, and the message frames on it
  page, screen,      \* the app: "closed", "hidden", "front"; currentJID
  seen,              \* history: chats whose newest message the user had in view
  rowMuted,          \* chats[].muted of the app
  owed, offer,       \* the outbox: MARKREADs and endpoints
  mine, issued,      \* the endpoint that works, and those given so far
  config,            \* the worker's CONFIG is set
  answers,           \* worker runs that have an answer, in the order of these
  bubble, vague,     \* notifications, and the chats the generic one stands for
  hush,              \* history: chats muted since before their newest message
  missed,            \* history: chats whose newest message something excuses
  moves, breaks

store == <<arrived, unread, account, column>>
daemon == <<recent, subs, handling, posts>>
app == <<link, down, page, screen, seen, rowMuted, owed, offer>>
worker == <<config, answers, bubble, vague>>
pushService == <<mine, issued>>
vars == <<store, daemon, app, worker, pushService, hush, missed, moves, breaks>>

Moves == moves < MaxMoves /\ moves' = moves + 1
Idle == [at |-> "idle"]
Handlings == [at : {"push", "wake"}, chat : Chats, muted : BOOLEAN, sent : BOOLEAN]
Counts == [Chats -> Nat]

StoreOK ==
  /\ arrived \in Counts
  /\ unread \subseteq Chats /\ column \subseteq Chats
  /\ account \in [Chats -> {"unset", "loud", "muted"}]

DaemonOK ==
  /\ recent \subseteq Chats
  /\ subs \subseteq Endpoints
  /\ handling \in Handlings \cup {Idle}
  /\ posts \in [Endpoints -> Nat]

AppOK ==
  /\ link \in {"off", "on", "dead"} /\ page \in {"closed", "hidden", "front"}
  /\ down \in Seq([chat : Chats, n : Nat, muted : BOOLEAN])
  /\ screen \in Chats \cup {NoChat}
  /\ seen \subseteq Chats /\ rowMuted \subseteq Chats
  /\ owed \subseteq Chats /\ offer \subseteq Endpoints

WorkerOK ==
  /\ config \in BOOLEAN
  /\ answers \in Seq([sum : Counts, late : BOOLEAN])
  /\ bubble \in Counts /\ vague \subseteq Chats

RestOK ==
  /\ mine \in Endpoints \cup {0} /\ issued \in Endpoints
  /\ hush \subseteq Chats /\ missed \subseteq Chats
  /\ moves \in 0..MaxMoves /\ breaks \in 0..MaxBreaks

TypeOK == StoreOK /\ DaemonOK /\ AppOK /\ WorkerOK /\ RestOK

\* The app was opened and registered its worker and its endpoint; since then
\* its link has gone.
Init ==
  /\ arrived = Nothing /\ unread = {} /\ seen = {}
  /\ account = [c \in Chats |-> "unset"] /\ column = {}
  /\ recent = {} /\ handling = Idle
  /\ mine = 1 /\ issued = 1 /\ subs = {1} /\ offer = {}
  /\ posts = [e \in Endpoints |-> 0]
  /\ link = "off" /\ down = <<>> /\ page = "front" /\ screen = NoChat
  /\ rowMuted = {} /\ owed = {}
  /\ config = TRUE /\ answers = <<>>
  /\ bubble = Nothing /\ vague = {}
  /\ hush = {} /\ missed = {}
  /\ moves = 0 /\ breaks = 0

-----------------------------------------------------------------------------
(* What the daemon says of a chat                                          *)

\* chatListWithFlags: where the account has settings, they hide the column.
ListedMuted(c) == account[c] = "muted" \/ (account[c] = "unset" /\ c \in column)

BugSummary == [c \in Chats |-> IF c \in unread /\ c \notin column THEN arrived[c] ELSE 0]

\* The answer to /notify-summary.
Summary == [c \in Chats |-> IF c \in unread /\ ~ListedMuted(c) THEN arrived[c] ELSE 0]

Told(c) == c \in seen \cup vague \/ bubble[c] = arrived[c]
Untold == {c \in Chats : ~Told(c)}

\* A summary is still to be taken for the phone.
LookIsComing == mine # 0 /\ posts[mine] > 0

Overtaken(ans) == [i \in 1..Len(ans) |-> [ans[i] EXCEPT !.late = TRUE]]

-----------------------------------------------------------------------------
(* handleMsg                                                               *)

\* The message is stored; whether the chat is muted goes with the frame.
PutMessage(c) ==
  /\ handling = Idle /\ SumFunction(arrived) < MaxMsgs
  /\ arrived' = [arrived EXCEPT ![c] = @ + 1]
  /\ unread' = unread \cup {c} /\ seen' = seen \ {c} /\ vague' = vague \ {c}
  /\ handling' = [at |-> "push", chat |-> c, muted |-> account[c] = "muted", sent |-> FALSE]
  /\ hush' = IF account[c] = "muted" THEN hush \cup {c} ELSE hush \ {c}
  /\ missed' = IF ListedMuted(c) THEN missed \cup {c} ELSE missed \ {c}
  /\ UNCHANGED <<account, column, recent, subs, posts, link, down, page, screen, rowMuted, owed, offer,
                 config, answers, bubble, pushService, moves, breaks>>

PushMessage ==
  /\ handling.at = "push"
  /\ handling' = [handling EXCEPT !.at = "wake", !.sent = link = "on"]
  /\ down' = IF link = "on"
             THEN Append(down, [chat |-> handling.chat, n |-> arrived[handling.chat], muted |-> handling.muted])
             ELSE down
  /\ UNCHANGED <<store, recent, subs, posts, link, page, screen, seen, rowMuted, owed, offer,
                 worker, pushService, hush, missed, moves, breaks>>

\* HasClient says yes.  The frame may have been pushed before this client came.
SomebodyHome ==
  /\ handling.at = "wake" /\ link # "off"
  /\ handling' = Idle
  /\ missed' = IF handling.sent THEN missed ELSE missed \cup (Untold \cap {handling.chat})
  /\ UNCHANGED <<store, recent, subs, posts, app, worker, pushService, hush, moves, breaks>>

BugNotifyPush ==
  /\ handling.at = "wake" /\ link = "off"
  /\ handling' = Idle
  /\ LET c == handling.chat IN
     \/ /\ c \in column
        /\ missed' = missed \cup {c}
        /\ UNCHANGED <<recent, posts>>
     \/ /\ c \notin column /\ recent # {}
        /\ missed' = IF LookIsComing \/ c \notin recent THEN missed ELSE missed \cup {c}
        /\ UNCHANGED <<recent, posts>>
     \/ /\ c \notin column /\ recent = {}
        /\ recent' = recent \cup {c}
        /\ posts' = [e \in Endpoints |-> IF e \in subs THEN posts[e] + 1 ELSE posts[e]]
        /\ missed' = IF mine \in subs \/ LookIsComing THEN missed ELSE missed \cup {c}
  /\ UNCHANGED <<store, subs, app, worker, pushService, hush, moves, breaks>>

\* Nothing for a chat whose column is muted, nor within the chat's window.
NotifyPush ==
  /\ handling.at = "wake" /\ link = "off"
  /\ handling' = Idle
  /\ LET c == handling.chat IN
     \/ /\ c \in column
        /\ missed' = missed \cup {c}
        /\ UNCHANGED <<recent, posts>>
     \/ /\ c \notin column /\ c \in recent
        /\ missed' = IF LookIsComing THEN missed ELSE missed \cup {c}
        /\ UNCHANGED <<recent, posts>>
     \/ /\ c \notin column /\ c \notin recent
        /\ recent' = recent \cup {c}
        /\ posts' = [e \in Endpoints |-> IF e \in subs THEN posts[e] + 1 ELSE posts[e]]
        /\ missed' = IF mine \in subs \/ LookIsComing THEN missed ELSE missed \cup {c}
  /\ UNCHANGED <<store, subs, app, worker, pushService, hush, moves, breaks>>

WindowPasses(c) ==
  /\ c \in recent
  /\ recent' = recent \ {c}
  /\ UNCHANGED <<store, subs, handling, posts, app, worker, pushService, hush, missed, moves, breaks>>

-----------------------------------------------------------------------------
(* sendPush, and the push service                                          *)

Takes(e) == posts[e] > 0 /\ posts' = [posts EXCEPT ![e] = @ - 1]

\* What is untold and will not be looked at again is missed.
Excused == missed' = IF LookIsComing' THEN missed ELSE missed \cup Untold

\* 404 or 410: the phone has another endpoint by now, or none.
PostGone(e) ==
  /\ e # mine /\ Takes(e)
  /\ subs' = subs \ {e}
  /\ UNCHANGED <<store, recent, handling, app, worker, pushService, hush, missed, moves, breaks>>

\* A transport error or any other status is logged, and that is all; or the push
\* service gives up on a phone it does not reach within the TTL.
PostFails(e) ==
  /\ breaks < MaxBreaks /\ breaks' = breaks + 1
  /\ Takes(e)
  /\ UNCHANGED mine /\ Excused
  /\ UNCHANGED <<store, recent, subs, handling, app, worker, issued, hush, moves>>

EndpointExpires ==
  /\ mine # 0 /\ issued < MaxSubs /\ breaks < MaxBreaks /\ breaks' = breaks + 1
  /\ mine' = 0
  /\ UNCHANGED posts /\ Excused
  /\ UNCHANGED <<store, recent, subs, handling, app, worker, issued, hush, moves>>

-----------------------------------------------------------------------------
(* The service worker                                                      *)

NotifyGeneric ==
  /\ vague' = Chats
  /\ answers' = Overtaken(answers)

\* The push event in a worker that has its CONFIG: the daemon answers
\* /notify-summary, now, and the worker will show the answer.
SummaryForNotification ==
  /\ mine # 0 /\ Takes(mine)
  /\ config
  /\ answers' = Append(answers, [sum |-> Summary, late |-> FALSE])
  /\ UNCHANGED <<store, recent, subs, handling, app, config, bubble, vague, pushService, hush, missed, moves, breaks>>

\* A worker that has lost it, or whose fetch fails.
ShowGeneric ==
  /\ mine # 0 /\ Takes(mine)
  /\ \/ ~config /\ UNCHANGED breaks
     \/ config /\ breaks < MaxBreaks /\ breaks' = breaks + 1
  /\ NotifyGeneric
  /\ UNCHANGED <<store, recent, subs, handling, app, config, bubble, pushService, hush, missed, moves>>

\* One notification per chat of the answer, every other one is closed.  An
\* answer that is shown after a later one takes that one's bubbles away.
ShowSummary(i) ==
  /\ i \in 1..Len(answers)
  /\ bubble' = answers[i].sum
  /\ vague' = {}
  /\ answers' = Overtaken(SubSeq(answers, 1, i - 1)) \o SubSeq(answers, i + 1, Len(answers))
  /\ missed' = IF answers[i].late THEN Chats ELSE missed
  /\ UNCHANGED <<store, daemon, app, config, pushService, hush, moves, breaks>>

\* The browser stops a worker that has nothing to do, and its variables go.
WorkerStops ==
  /\ config /\ ~LookIsComing /\ answers = <<>>
  /\ config' = FALSE
  /\ UNCHANGED <<store, daemon, app, answers, bubble, vague, pushService, hush, missed, moves, breaks>>

-----------------------------------------------------------------------------
(* The app                                                                 *)

\* register(): the worker is given its CONFIG, the endpoint goes to the outbox.
PageLoads ==
  /\ Moves
  /\ page = "closed"
  /\ page' = "front" /\ screen' = NoChat /\ rowMuted' = {}
  /\ config' = TRUE
  /\ \/ mine # 0 /\ UNCHANGED <<mine, issued>>
     \/ mine = 0 /\ mine' = issued + 1 /\ issued' = issued + 1
  /\ offer' = offer \cup {mine'}
  /\ UNCHANGED <<store, daemon, link, down, seen, owed, answers, bubble, vague, hush, missed, breaks>>

MarkRead(cs) == unread' = unread \ cs
Sees(cs) == seen' = seen \cup cs
OnScreen == Chats \cap {screen}
Lost(fs) == missed \cup {fs[i].chat : i \in 1..Len(fs)}

\* onopen: the outbox is flushed, the open thread is marked read, and the chat
\* list is asked for.
Connect ==
  /\ page # "closed" /\ link # "on"
  /\ link' = "on" /\ down' = <<>>
  /\ subs' = subs \cup offer /\ offer' = {}
  /\ MarkRead(owed \cup OnScreen) /\ owed' = {}
  /\ Sees(IF page = "front" THEN Chats ELSE {})
  /\ rowMuted' = {c \in Chats : ListedMuted(c)}
  /\ UNCHANGED <<arrived, account, column, recent, handling, posts, page, screen, worker, pushService,
                 hush, missed, moves, breaks>>

\* The phone leaves its network, and the daemon does not know.
LinkDies ==
  /\ link = "on" /\ breaks < MaxBreaks /\ breaks' = breaks + 1
  /\ link' = "dead" /\ down' = <<>>
  /\ missed' = Lost(down)
  /\ UNCHANGED <<store, daemon, page, screen, seen, rowMuted, owed, offer, worker, pushService, hush, moves>>

Detach ==
  /\ link = "dead"
  /\ link' = "off"
  /\ UNCHANGED <<store, daemon, down, page, screen, seen, rowMuted, owed, offer, worker, pushService,
                 hush, missed, moves, breaks>>

\* Closed by the user or killed by the system; the system closes its socket.
AppEnds ==
  /\ Moves
  /\ page # "closed"
  /\ page' = "closed" /\ screen' = NoChat
  /\ link' = (IF link = "on" THEN "off" ELSE link) /\ down' = <<>>
  /\ missed' = Lost(down)
  /\ UNCHANGED <<store, daemon, seen, rowMuted, owed, offer, worker, pushService, hush, breaks>>

Hide ==
  /\ Moves
  /\ page = "front" /\ page' = "hidden"
  /\ UNCHANGED <<store, daemon, link, down, screen, seen, rowMuted, owed, offer, worker, pushService,
                 hush, missed, breaks>>

BackOnScreen == IF link = "on" THEN MarkRead(OnScreen) /\ UNCHANGED owed
                               ELSE owed' = owed \cup OnScreen /\ UNCHANGED unread

\* wakeUp: the thread that was open is opened again, or the list is entered.
Show ==
  /\ Moves
  /\ page = "hidden" /\ page' = "front"
  /\ BackOnScreen
  /\ Sees(IF link = "on" THEN Chats ELSE {})
  /\ rowMuted' = IF link = "on" THEN {c \in Chats : ListedMuted(c)} ELSE rowMuted
  /\ UNCHANGED <<arrived, account, column, daemon, link, down, screen, offer, worker, pushService,
                 hush, missed, breaks>>

OpenThread(c) ==
  /\ Moves
  /\ page = "front" /\ screen # c
  /\ screen' = c
  /\ \/ link = "on" /\ MarkRead({c}) /\ Sees({c}) /\ UNCHANGED owed
     \/ link # "on" /\ owed' = owed \cup {c} /\ UNCHANGED <<unread, seen>>
  /\ UNCHANGED <<arrived, account, column, daemon, link, down, page, rowMuted, offer, worker, pushService,
                 hush, missed, breaks>>

EnterListScreen ==
  /\ Moves
  /\ page = "front" /\ screen # NoChat
  /\ screen' = NoChat
  /\ UNCHANGED <<store, daemon, link, down, page, seen, rowMuted, owed, offer, worker, pushService,
                 hush, missed, breaks>>

BugHearMessage ==
  /\ down # <<>> /\ page = "front"
  /\ down' = Tail(down)
  /\ LET m == Head(down) IN
     /\ MarkRead(OnScreen \cap {m.chat})
     /\ \/ /\ page = "front"
           /\ seen' = seen \cup {c \in {m.chat} : m.n = arrived[c]}
           /\ UNCHANGED <<bubble, answers, missed>>
        \/ /\ page = "hidden" /\ (screen = m.chat \/ m.muted \/ m.chat \in rowMuted)
           /\ missed' = missed \cup {m.chat}
           /\ UNCHANGED <<seen, bubble, answers>>
        \/ /\ page = "hidden" /\ screen # m.chat /\ ~m.muted /\ m.chat \notin rowMuted
           /\ bubble' = [bubble EXCEPT ![m.chat] = m.n]
           /\ answers' = Overtaken(answers)
           /\ UNCHANGED <<seen, missed>>
  /\ UNCHANGED <<arrived, account, column, daemon, link, page, screen, rowMuted, owed, offer,
                 config, vague, pushService, hush, moves, breaks>>

\* W.on MESSAGE: pushMsg reports the open thread read, whether or not the app
\* is in sight; alertForMessage stays quiet for it, and for a muted chat.
HearMessage ==
  /\ down # <<>>
  /\ down' = Tail(down)
  /\ LET m == Head(down) IN
     /\ MarkRead(OnScreen \cap {m.chat})
     /\ \/ /\ page = "front"
           /\ seen' = seen \cup {c \in {m.chat} : m.n = arrived[c]}
           /\ UNCHANGED <<bubble, answers, missed>>
        \/ /\ page = "hidden" /\ (screen = m.chat \/ m.muted \/ m.chat \in rowMuted)
           /\ missed' = missed \cup {m.chat}
           /\ UNCHANGED <<seen, bubble, answers>>
        \/ /\ page = "hidden" /\ screen # m.chat /\ ~m.muted /\ m.chat \notin rowMuted
           /\ bubble' = [bubble EXCEPT ![m.chat] = m.n]
           /\ answers' = Overtaken(answers)
           /\ UNCHANGED <<seen, missed>>
  /\ UNCHANGED <<arrived, account, column, daemon, link, page, screen, rowMuted, owed, offer,
                 config, vague, pushService, hush, moves, breaks>>

-----------------------------------------------------------------------------
(* The account                                                             *)

\* A receipt of type read-self: read on another device.
ReadElsewhere(c) ==
  /\ Moves
  /\ c \in unread
  /\ MarkRead({c})
  /\ UNCHANGED <<arrived, account, column, daemon, app, worker, pushService, hush, missed, breaks>>

SetTo(c, on) ==
  /\ Moves
  /\ account' = [account EXCEPT ![c] = IF on THEN "muted" ELSE "loud"]
  /\ hush' = IF on THEN hush ELSE hush \ {c}
  /\ missed' = IF on THEN missed \cup {c} ELSE missed

\* From another device: the synced settings change, and nothing else.
MuteElsewhere(c, on) ==
  /\ SetTo(c, on)
  /\ UNCHANGED <<arrived, unread, column, daemon, app, worker, pushService, breaks>>

\* From this app, accepted (ChatRow has what else may happen to it).
SetMute(c, on) ==
  /\ page = "front" /\ link = "on"
  /\ SetTo(c, on)
  /\ column' = IF on THEN column \cup {c} ELSE column \ {c}
  /\ rowMuted' = IF on THEN rowMuted \cup {c} ELSE rowMuted \ {c}
  /\ UNCHANGED <<arrived, unread, daemon, link, down, page, screen, seen, owed, offer, worker, pushService, breaks>>

-----------------------------------------------------------------------------
Next ==
  \/ PushMessage \/ SomebodyHome \/ NotifyPush
  \/ EndpointExpires \/ SummaryForNotification \/ ShowGeneric \/ WorkerStops
  \/ PageLoads \/ Connect \/ LinkDies \/ Detach \/ AppEnds
  \/ Hide \/ Show \/ EnterListScreen \/ HearMessage
  \/ \E c \in Chats :
       \/ PutMessage(c) \/ WindowPasses(c) \/ OpenThread(c) \/ ReadElsewhere(c)
       \/ \E on \in BOOLEAN : MuteElsewhere(c, on) \/ SetMute(c, on)
  \/ \E e \in Endpoints : PostGone(e) \/ PostFails(e)
  \/ \E i \in 1..Len(answers) : ShowSummary(i)

Spec == Init /\ [][Next]_vars

\* The daemon and the worker go on with what they have begun: a POST is given
\* up after 15 seconds at the latest, an accepted push is delivered or expires,
\* a fetch is answered or fails.  Nothing is assumed of the user, the network
\* or the push service's endpoint.
Fairness ==
  /\ WF_vars(PushMessage) /\ WF_vars(SomebodyHome) /\ WF_vars(NotifyPush)
  /\ \A e \in Endpoints : WF_vars(PostGone(e))
  /\ WF_vars(SummaryForNotification \/ ShowGeneric)
  /\ WF_vars(\E i \in 1..Len(answers) : ShowSummary(i))
  /\ WF_vars(HearMessage)

FairSpec == Spec /\ Fairness

-----------------------------------------------------------------------------
(* Properties                                                              *)

Settled ==
  /\ handling = Idle /\ down = <<>> /\ answers = <<>>
  /\ ~LookIsComing

Loud(c) == ~ListedMuted(c) /\ c \notin column

\* When nothing is on its way any more, the phone tells of every chat with
\* unread messages that is not muted, up to its newest message, or the user
\* has seen it: whatever came in between, reads and wakes of other chats,
\* messages folded into a window, the app coming and going.  Excused are the
\* chats of which a POST, a wake-up or a frame was lost, or that were folded
\* into a wake-up whose summary had been taken.
NobodyIsLeftOut ==
  Settled => \A c \in Chats \ missed :
    c \in unread /\ Loud(c) => Told(c)

\* A mute, from whichever device it was set, is kept by what a notification
\* reports of a chat: neither a summary nor the app's alert shows a message that
\* came while the account had its chat muted, however old the answer or the
\* frame.  It says nothing of the wake-up and of the generic notification, which
\* name no chat: a mute that was set elsewhere stops neither.
MuteIsKept == \A c \in hush : bubble[c] < arrived[c]

\* "A mute should mean the phone stays quiet, not just that the app draws a
\* small icon" (push.go:81): no message of a chat that the account had muted
\* wakes the phone.  It does not hold: notifyPush asks the column alone, which
\* a mute set on another device leaves as it was.
MutedNeverRings ==
  [][NotifyPush /\ handling.chat \in hush => UNCHANGED posts]_vars

\* Again and again, hence also in the end, there is nobody left to be told of:
\* every chat has been reported, or is read, muted or excused.
EverybodyIsTold ==
  []<>(\A c \in Chats : c \in missed \/ c \notin unread \/ ~Loud(c) \/ Told(c))

\* "It arrived while the user is looking at the chat, so it's read now"
\* (app.js:3622): this phone reports as read only what its user has had in
\* view.  It does not hold: the thread stays open while the app is hidden.
ReadMeansSeen ==
  [][\A c \in unread \ unread' : c \in seen' \/ ReadElsewhere(c)]_vars

=============================================================================
