-------------------------------- MODULE Wire --------------------------------
(***************************************************************************)
(* The phone's half of the link (wire.js): one socket at a time, a single  *)
(* retry timer, kicks when the network or the screen comes back, and the   *)
(* outbox, which is queued while the socket is down, kept in localStorage  *)
(* and flushed when a socket opens.  The process may be killed at any time *)
(* and started again.                                                      *)
(*                                                                         *)
(* A frame is the number of the send that made it; Ask stands for a        *)
(* request that is never queued (getchats, gethistory, watch).  Frames     *)
(* like it leave no trace while the socket is down and are left out.  A    *)
(* socket is "closing" from close() or the loss of the connection until    *)
(* its close event has run, and "idle" before and after its life.          *)
(***************************************************************************)
EXTENDS Naturals, Sequences, Functions

CONSTANTS
  Socks,      \* bound: sockets that exist at a time
  NoSock,
  Big,        \* the sends whose frame is over MAX_FRAME_BYTES
  Marks,      \* the sends that mark a chat as read
  OutboxMax,
  Earlier,    \* bound: sends of sessions before the first
  MaxFrames,  \* bound: sends
  MaxBreaks,  \* bound: dials and connections that fail
  MaxCrashes  \* bound: kills of the process

ASSUME SocketAssumption == NoSock \notin Socks
ASSUME OutboxAssumption == OutboxMax \in Nat \ {0}
ASSUME MarkAssumption == Marks \cap Big = {}
ASSUME BoundAssumption ==
  MaxFrames \in Nat /\ Earlier \in 0..MaxFrames /\ MaxBreaks \in Nat /\ MaxCrashes \in Nat
ASSUME EarlierAssumption == Earlier <= OutboxMax

Ask == 0
Sends == 1..MaxFrames

VARIABLES
  alive,     \* the app runs
  state,     \* readyState of each socket
  ws,        \* the current socket
  muted,     \* sockets whose onclose was taken away
  retry,     \* retryTimer is armed
  asks,      \* a GETCHATS timer is armed
  status,    \* what the listeners were last told
  again,     \* everConnected (app.js)
  outbox,
  stored,    \* localStorage[OUTBOX_KEY]
  durable,   \* does localStorage take every write?
  made,      \* sends so far
  line,      \* frames on their way to the daemon, per socket
  got,       \* history: frames the daemon received, in order
  queued,    \* history: sends that have been in the outbox
  lost,      \* history: sends that are gone for good
  breaks, crashes

socket == <<state, ws, muted, retry, asks, status, again>>
ledger == <<got, queued, lost>>
rest == <<durable, breaks, crashes>>
wireVars == <<alive, socket, outbox, stored, made, line, ledger, rest>>

WireTypeOK ==
  /\ {alive, retry, asks, again, durable} \subseteq BOOLEAN
  /\ state \in [Socks -> {"idle", "connecting", "open", "closing"}]
  /\ ws \in Socks \cup {NoSock} /\ muted \subseteq Socks
  /\ status \in {"closed", "connecting", "open"}
  /\ outbox \in Seq(Sends) /\ Len(outbox) <= OutboxMax
  /\ stored \in Seq(Sends) /\ Len(stored) <= OutboxMax
  /\ made \in 0..MaxFrames
  /\ line \in [Socks -> Seq(Sends \cup {Ask})]
  /\ got \in Seq(Sends) /\ queued \subseteq Sends /\ lost \subseteq Sends
  /\ breaks \in 0..MaxBreaks /\ crashes \in 0..MaxCrashes

\* The app is about to start, with nothing stored or with frames of an earlier
\* session, which may be too big: older builds stored those.
WireInit ==
  /\ alive = FALSE
  /\ state = [s \in Socks |-> "idle"] /\ ws = NoSock /\ muted = {}
  /\ retry = FALSE /\ asks = FALSE /\ status = "closed" /\ again = FALSE
  /\ outbox = <<>>
  /\ stored \in {<<>>, [i \in 1..Earlier |-> i]}
  /\ made = Earlier
  /\ durable \in BOOLEAN
  /\ line = [s \in Socks |-> <<>>]
  /\ got = <<>> /\ queued = {} /\ lost = (1..Earlier) \ Range(stored)
  /\ breaks = 0 /\ crashes = 0

IsOpen == ws # NoSock /\ state[ws] = "open"
OnLine == UNION {Range(line[s]) : s \in Socks}

\* A constructor that throws counts as a failure of the network.
Throws == breaks < MaxBreaks /\ breaks' = breaks + 1
Works == UNCHANGED breaks

\* saveOutbox: emptying never fails for want of room.
Saves(frames) == stored' = frames \/ (~durable /\ frames # <<>> /\ UNCHANGED stored)

-----------------------------------------------------------------------------
(* The socket                                                              *)

BugLive(st, w) == w # NoSock /\ st[w] = "open"
Live(st, w) == w # NoSock /\ st[w] \in {"connecting", "open"}

\* connect, from a state in which the sockets are st, the current one is w and
\* the retry timer is armed or not.
Connects(st, w, armed) ==
  IF Live(st, w)
  THEN state' = st /\ ws' = w /\ retry' = armed /\ UNCHANGED status /\ Works
  ELSE /\ status' = "connecting"
       /\ \/ \E s \in Socks \ {w} :
               /\ st[s] = "idle" /\ line[s] = <<>>
               /\ ws' = s /\ state' = [st EXCEPT ![s] = "connecting"]
               /\ retry' = FALSE
               /\ Works
          \/ Throws /\ ws' = w /\ state' = st /\ retry' = TRUE

\* Anything that calls connect: the network is back, the app is visible again.
Kick ==
  /\ alive /\ ~Live(state, ws)
  /\ Connects(state, ws, retry)
  /\ UNCHANGED <<alive, muted, asks, again, outbox, stored, made, line, ledger, durable, crashes>>

RetryFires ==
  /\ alive /\ retry
  /\ Connects(state, ws, FALSE)
  /\ UNCHANGED <<alive, muted, asks, again, outbox, stored, made, line, ledger, durable, crashes>>

\* Wire.reconnect, for a new address.
Reconnect ==
  /\ alive
  /\ LET st == IF Live(state, ws) THEN [state EXCEPT ![ws] = "closing"] ELSE state IN
       Connects(st, NoSock, FALSE)
  /\ muted' = IF ws # NoSock /\ state[ws] # "idle" THEN muted \cup {ws} ELSE muted
  /\ UNCHANGED <<alive, asks, again, outbox, stored, made, line, ledger, durable, crashes>>

BugCloseEvent(s) ==
  /\ alive /\ state[s] = "closing"
  /\ state' = [state EXCEPT ![s] = "idle"]
  /\ IF s \in muted \/ s # ws THEN UNCHANGED <<status, retry>>
     ELSE status' = "closed" /\ UNCHANGED retry
  /\ muted' = muted \ {s}
  /\ UNCHANGED <<alive, ws, asks, again, outbox, stored, made, line, ledger, rest>>

\* onclose, unless it was taken away: whichever socket is the current one.
CloseEvent(s) ==
  /\ alive /\ state[s] = "closing"
  /\ state' = [state EXCEPT ![s] = "idle"]
  /\ IF s \in muted THEN UNCHANGED <<status, retry>> ELSE status' = "closed" /\ retry' = TRUE
  /\ muted' = muted \ {s}
  /\ UNCHANGED <<alive, ws, asks, again, outbox, stored, made, line, ledger, rest>>

\* flushOutbox, onto a socket that has just opened: the outbox is emptied and
\* saved before its frames are sent.  (ws.send throws only on a socket that is
\* connecting, so the code never puts a frame back.)
BugFlush(first) ==
  /\ outbox' = <<>> /\ UNCHANGED stored
  /\ line' = [line EXCEPT ![ws] = @ \o first \o outbox]

Flush(first) ==
  /\ outbox' = <<>>
  /\ stored' = IF outbox = <<>> THEN stored ELSE <<>>
  /\ line' = [line EXCEPT ![ws] = @ \o first \o outbox]

\* What the status listener sends first: on a reconnect, with the thread of a
\* chat open, it asks for the history, marks the chat as read, and watches the
\* presence of a contact.
Threads == {"none", "group", "contact"}
Repulls(thread) == again /\ thread # "none"

Greeting(thread) ==
  IF ~Repulls(thread) THEN <<>>
  ELSE <<Ask, made + 1>> \o (IF thread = "contact" THEN <<Ask>> ELSE <<>>)

\* onopen: the status listeners run, and then the outbox goes.
BugOpens(thread) ==
  /\ alive /\ ws # NoSock /\ state[ws] = "connecting"
  /\ state' = [state EXCEPT ![ws] = "open"]
  /\ status' = "open" /\ again' = TRUE /\ asks' = TRUE
  /\ UNCHANGED <<alive, ws, muted, retry, outbox, stored, line, made, ledger, rest>>

Opens(thread) ==
  /\ alive /\ ws # NoSock /\ state[ws] = "connecting"
  /\ state' = [state EXCEPT ![ws] = "open"]
  /\ status' = "open" /\ again' = TRUE /\ asks' = TRUE
  /\ Repulls(thread) => made < MaxFrames /\ made + 1 \in Marks
  /\ made' = IF Repulls(thread) THEN made + 1 ELSE made
  /\ Flush(Greeting(thread))
  /\ UNCHANGED <<alive, ws, muted, retry, ledger, rest>>

\* The timer of an onopen, 400 ms later.
AsksForChats ==
  /\ alive /\ asks
  /\ asks' = FALSE
  /\ line' = IF IsOpen THEN [line EXCEPT ![ws] = Append(@, Ask)] ELSE line
  /\ UNCHANGED <<alive, state, ws, muted, retry, status, again, outbox, stored, made, ledger,
                 rest>>

-----------------------------------------------------------------------------
(* Sending                                                                 *)

BugSendNow ==
  /\ alive /\ IsOpen /\ made < MaxFrames
  /\ made' = made + 1
  /\ line' = [line EXCEPT ![ws] = <<made + 1>> \o @]
  /\ UNCHANGED <<alive, socket, outbox, stored, ledger, rest>>

SendNow ==
  /\ alive /\ IsOpen /\ made < MaxFrames
  /\ made' = made + 1
  /\ line' = [line EXCEPT ![ws] = Append(@, made + 1)]
  /\ UNCHANGED <<alive, socket, outbox, stored, ledger, rest>>

\* A frame the daemon would refuse is not queued.
Refuse ==
  /\ alive /\ ~IsOpen /\ made < MaxFrames
  /\ made + 1 \in Big
  /\ made' = made + 1
  /\ lost' = lost \cup {made + 1}
  /\ UNCHANGED <<alive, socket, outbox, stored, line, got, queued, rest>>

\* The oldest goes when the outbox is full.
BugCapped(frames) == SubSeq(frames, 1, OutboxMax)
Capped(frames) == IF Len(frames) > OutboxMax THEN Tail(frames) ELSE frames

Queue ==
  /\ alive /\ ~IsOpen /\ made < MaxFrames
  /\ made + 1 \notin Big
  /\ made' = made + 1
  /\ outbox' = Capped(Append(outbox, made + 1))
  /\ Saves(outbox')
  /\ queued' = queued \cup {made + 1}
  /\ lost' = lost \cup (Range(outbox) \ Range(outbox'))
  /\ UNCHANGED <<alive, socket, line, got, rest>>

\* "Discard stuck messages" in the settings.
ClearOutbox ==
  /\ alive /\ outbox # <<>>
  /\ outbox' = <<>> /\ Saves(<<>>)
  /\ lost' = lost \cup Range(outbox)
  /\ UNCHANGED <<alive, socket, made, line, got, queued, rest>>

-----------------------------------------------------------------------------
(* The network, the daemon and the platform                                *)

Down(s) == IF state[s] \in {"connecting", "open"} THEN "closing" ELSE state[s]

\* A dial fails, or a connection is lost with part of what was sent on it.
Breaks(s) ==
  /\ breaks < MaxBreaks
  /\ state[s] # "idle" \/ line[s] # <<>>
  /\ breaks' = breaks + 1
  /\ state' = [state EXCEPT ![s] = Down(s)]
  /\ \E k \in 0..Len(line[s]) :
       /\ line' = [line EXCEPT ![s] = SubSeq(@, 1, k)]
       /\ lost' = lost \cup (Range(SubSeq(line[s], k + 1, Len(line[s]))) \ {Ask})
  /\ UNCHANGED <<alive, ws, muted, retry, asks, status, again, outbox, stored, made, got, queued,
                 durable, crashes>>

Receives(s) ==
  /\ line[s] # <<>> /\ Head(line[s]) \notin Big
  /\ line' = [line EXCEPT ![s] = Tail(@)]
  /\ got' = IF Head(line[s]) = Ask THEN got ELSE Append(got, Head(line[s]))
  /\ UNCHANGED <<alive, socket, outbox, stored, made, queued, lost, rest>>

\* The daemon closes the connection over a frame that is too big (hub.go).
ClosesOver(s) ==
  /\ line[s] # <<>> /\ Head(line[s]) \in Big
  /\ line' = [line EXCEPT ![s] = <<>>]
  /\ lost' = lost \cup (Range(line[s]) \ {Ask})
  /\ state' = [state EXCEPT ![s] = Down(s)]
  /\ UNCHANGED <<alive, ws, muted, retry, asks, status, again, outbox, stored, made, got, queued,
                 rest>>

\* The process is killed, or the app closed: only localStorage stays.  What the
\* daemon is already being sent may still arrive.
Killed ==
  /\ alive /\ crashes < MaxCrashes
  /\ crashes' = crashes + 1
  /\ alive' = FALSE
  /\ state' = [s \in Socks |-> "idle"] /\ ws' = NoSock /\ muted' = {}
  /\ retry' = FALSE /\ asks' = FALSE /\ status' = "closed" /\ again' = FALSE
  /\ outbox' = <<>>
  /\ lost' = lost \cup (Range(outbox) \ Range(stored))
  /\ UNCHANGED <<stored, made, line, got, queued, breaks, durable>>

\* loadOutbox: what is not too big, in the order it was stored in.
Fitting(frames) ==
  LET upTo[n \in 0..Len(frames)] ==
        IF n = 0 THEN <<>>
        ELSE IF frames[n] \in Big THEN upTo[n - 1] ELSE Append(upTo[n - 1], frames[n])
  IN  upTo[Len(frames)]

BugLoadOutbox == stored
LoadOutbox == Fitting(stored)

\* The app starts, and the first connect.
Starts ==
  /\ ~alive
  /\ alive' = TRUE
  /\ outbox' = LoadOutbox
  /\ stored' = LoadOutbox
  /\ queued' = queued \cup Range(LoadOutbox)
  /\ lost' = lost \cup (Range(stored) \ Range(LoadOutbox))
  /\ Connects(state, NoSock, FALSE)
  /\ UNCHANGED <<muted, asks, again, made, line, got, durable, crashes>>

-----------------------------------------------------------------------------
WireNext ==
  \/ Kick \/ RetryFires \/ Reconnect \/ AsksForChats
  \/ \E thread \in Threads : Opens(thread)
  \/ SendNow \/ Refuse \/ Queue \/ ClearOutbox
  \/ Killed \/ Starts
  \/ \E s \in Socks : CloseEvent(s) \/ Breaks(s) \/ Receives(s) \/ ClosesOver(s)

WireSpec == WireInit /\ [][WireNext]_wireVars

\* Timers fire, events are delivered, and what the network does not lose
\* arrives; the network loses MaxBreaks things at most.
WireFairness ==
  /\ WF_wireVars(RetryFires)
  /\ WF_wireVars(\E thread \in Threads : Opens(thread))
  /\ \A s \in Socks : WF_wireVars(CloseEvent(s)) /\ WF_wireVars(Receives(s)) /\ WF_wireVars(ClosesOver(s))
WireFairSpec == WireSpec /\ WireFairness

-----------------------------------------------------------------------------
(* Properties                                                              *)

\* "Exactly one dial may be in flight" (wire.js:159): whatever kicks, retry
\* timers and new addresses there are, only the current socket is up or dialled.
OneSocket == \A s \in Socks : state[s] \in {"connecting", "open"} => s = ws

\* While there is no connection something is bound to dial: the retry timer, or
\* a close event that will arm it.
NeverStranded ==
  alive => Live(state, ws) \/ retry \/ \E s \in Socks \ muted : state[s] = "closing"

\* Nothing reaches the daemon twice, through any number of kills: a message the
\* user wrote once is not sent again from an outbox left behind.
NothingTwice == \A i, j \in DOMAIN got : i # j => got[i] # got[j]

\* What was made first leaves first, on every connection, the outbox of an
\* earlier session included.  Only a mark-read may be ahead of older frames: the
\* status listener sends one before the outbox is flushed.
OlderGoesFirst ==
  \A s \in Socks : \A i, j \in DOMAIN line[s] :
    i < j /\ line[s][i] \notin Marks \cup {Ask} /\ line[s][j] # Ask => line[s][i] < line[s][j]

\* Every send is waiting, under way, received, or gone in one of the ways that
\* may lose a frame (a lost connection, the cap, the size, the user, a disk that
\* does not take it): no step of the outbox forgets one.
NothingForgotten ==
  1..made \subseteq Range(outbox) \cup Range(stored) \cup OnLine \cup Range(got) \cup lost

\* "Refusing it here costs one message; queueing it costs every message after
\* it" (wire.js:348-349): the daemon closing the connection over a frame that is
\* too big costs no frame that was queued.
OversizeSparesQueued ==
  [][(\E s \in Socks : ClosesOver(s)) => queued \cap lost' = queued \cap lost]_wireVars

\* "Frames that matter are queued while the socket is down and flushed on
\* reconnect.  Without this ... it would simply never exist" (wire.js:263-266):
\* the network failing loses no frame that was queued.
QueuedIsKept == [][(\E s \in Socks : Breaks(s)) => queued \cap lost' = queued \cap lost]_wireVars

\* "Anything typed while offline goes out before we ask for state"
\* (wire.js:189-190): no request for state is ahead of a queued frame.
AsksAfterFlush ==
  \A s \in Socks : \A i, j \in DOMAIN line[s] :
    i < j /\ line[s][i] = Ask => line[s][j] \notin queued

\* When the network stops failing, an app that runs gets its connection back
\* and what has been waiting goes out.
OutboxDrains == outbox # <<>> ~> outbox = <<>>
=============================================================================
