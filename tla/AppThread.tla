------------------------------ MODULE AppThread ------------------------------
(***************************************************************************)
(* The thread of one chat on the phone (app.js) against the messages the   *)
(* daemon has stored.  The app learns of messages in two ways: frames for  *)
(* live messages, and pages of history that it asks for, the newest when a *)
(* chat is opened or the connection comes back, and older ones when the    *)
(* user reaches the top.                                                   *)
(*                                                                         *)
(* The daemon stores a message and then pushes it on one goroutine, and    *)
(* reads a page and then pushes it on another; what it pushes while the    *)
(* phone is away is gone.  A message is the number of its place in the     *)
(* order of timestamps; what it says, its ticks, its reactions and its     *)
(* deletion are left out.                                                  *)
(***************************************************************************)
EXTENDS Naturals, Sequences, FiniteSets, Functions

CONSTANTS
  MaxMsgs,    \* bound: messages of the chat
  PerSecond,  \* messages that share a timestamp
  Page,       \* messages on a page of history (40 in the code)
  MaxWire,    \* bound: frames on their way, in each direction
  MaxBreaks   \* bound: losses of the connection

ASSUME PageAssumption == Page \in Nat \ {0} /\ PerSecond \in Nat \ {0}
ASSUME BoundAssumption ==
  MaxMsgs \in Nat /\ MaxWire \in Nat \ {0} /\ MaxBreaks \in Nat

Messages == 1..MaxMsgs
Second(m) == (m + PerSecond - 1) \div PerSecond

VARIABLES
  arr,           \* threads[jid]: its messages, in the order shown
  loadedHistory, noMoreHistory,
  open,          \* currentJID is this chat
  loadingOlder, pendingOlder,  \* pendingOlderFor is this chat
  selectIdx, selectMsgID,      \* 0 in compose mode
  up,            \* GETHISTORY frames under way: the timestamps to go before, 0 for none
  down,          \* frames under way to the phone
  connected,
  stored,        \* the messages with a row
  event,         \* the live message stored and not yet pushed, or 0
  page,          \* the page read and not yet pushed: <<>> or <<its messages>>
  breaks,
  orderly        \* history: so far the connection held, messages were stored in
                 \* the order of their timestamps, and no two requests overlapped

thread == <<arr, loadedHistory, noMoreHistory>>
paging == <<loadingOlder, pendingOlder>>
select == <<selectIdx, selectMsgID>>
phone == <<thread, open, paging, select>>
daemon == <<stored, event, page>>
threadVars == <<phone, up, down, connected, daemon, breaks, orderly>>

Shown == Range(arr)
Frames == [live : BOOLEAN, msgs : Seq(Messages)]

ThreadTypeOK ==
  /\ arr \in Seq(Messages)
  /\ {loadedHistory, noMoreHistory, open, loadingOlder, pendingOlder} \subseteq BOOLEAN
  /\ selectIdx \in Nat /\ selectMsgID \in Messages \cup {0} /\ (selectIdx = 0 <=> selectMsgID = 0)
  /\ up \in Seq(Nat) /\ down \in Seq(Frames)
  /\ {connected, orderly} \subseteq BOOLEAN
  /\ stored \subseteq Messages /\ event \in Messages \cup {0}
  /\ page \in Seq(Seq(Messages)) /\ Len(page) <= 1
  /\ breaks \in 0..MaxBreaks

\* The app has just started; the daemon has had some messages before.
ThreadInit ==
  /\ arr = <<>> /\ loadedHistory = FALSE /\ noMoreHistory = FALSE
  /\ open = FALSE
  /\ loadingOlder = FALSE /\ pendingOlder = FALSE
  /\ selectIdx = 0 /\ selectMsgID = 0
  /\ up = <<>> /\ down = <<>> /\ connected = TRUE
  /\ \E k \in 0..MaxMsgs : stored = 1..k
  /\ event = 0 /\ page = <<>>
  /\ breaks = 0 /\ orderly = TRUE

-----------------------------------------------------------------------------
(* The phone asks                                                          *)

\* A request is not worth queueing: without a connection it is dropped.
Asks(before) ==
  up' = IF connected THEN Append(up, before) ELSE up
Asked == page # <<>> \/ up # <<>> \/ \E i \in 1..Len(down) : ~down[i].live

SetSelect(i) == selectIdx' = i /\ selectMsgID' = IF i = 0 THEN 0 ELSE arr[i]

\* From the list or from a notification, which may be of the chat on the screen.
OpenThread ==
  /\ Len(up) < MaxWire
  /\ open' = TRUE
  /\ loadingOlder' = FALSE /\ pendingOlder' = FALSE
  /\ SetSelect(0)
  /\ IF loadedHistory THEN UNCHANGED up ELSE Asks(0)
  /\ orderly' = (orderly /\ (loadedHistory \/ ~Asked))
  /\ UNCHANGED <<thread, down, connected, daemon, breaks>>

\* To the list, or by a notification to another chat, where all starts afresh.
LeaveThread ==
  /\ open
  /\ open' = FALSE
  /\ \/ selectIdx = 0 /\ UNCHANGED <<paging, select>>
     \/ loadingOlder' = FALSE /\ pendingOlder' = FALSE /\ SetSelect(0)
  /\ UNCHANGED <<thread, up, down, connected, daemon, breaks, orderly>>

MayRequestOlder == open /\ ~loadingOlder /\ arr # <<>> /\ ~noMoreHistory /\ Len(up) < MaxWire

BugRequestOlderHistory ==
  /\ MayRequestOlder
  /\ loadingOlder' = TRUE /\ pendingOlder' = TRUE
  /\ Asks(Second(arr[Len(arr)]))
  /\ orderly' = (orderly /\ ~Asked)
  /\ UNCHANGED <<thread, open, down, connected, daemon, breaks>>

RequestOlderHistory ==
  /\ MayRequestOlder
  /\ loadingOlder' = TRUE /\ pendingOlder' = TRUE
  /\ Asks(Second(arr[1]))
  /\ orderly' = (orderly /\ ~Asked)
  /\ UNCHANGED <<thread, open, down, connected, daemon, breaks>>

\* The scroll listener at the top.
ScrollsToTop == RequestOlderHistory /\ UNCHANGED select

-----------------------------------------------------------------------------
(* Select mode                                                             *)

EnterSelectMode ==
  /\ open /\ selectIdx = 0 /\ arr # <<>>
  /\ SetSelect(Len(arr))
  /\ UNCHANGED <<thread, open, paging, up, down, connected, daemon, breaks, orderly>>

\* Up from the oldest message asks for an older page.
MoveUp ==
  /\ selectIdx > 0
  /\ \/ /\ selectIdx > 1
        /\ SetSelect(selectIdx - 1)
        /\ UNCHANGED <<thread, open, paging, up, down, connected, daemon, breaks, orderly>>
     \/ selectIdx = 1 /\ RequestOlderHistory /\ SetSelect(1)

\* Cancel and Back go back to the composer, ...
EnterComposeMode ==
  /\ selectIdx > 0
  /\ SetSelect(0)
  /\ UNCHANGED <<thread, open, paging, up, down, connected, daemon, breaks, orderly>>

\* ... and so does Down from the newest message.
MoveDown ==
  /\ selectIdx > 0
  /\ SetSelect(IF selectIdx < Len(arr) THEN selectIdx + 1 ELSE 0)
  /\ UNCHANGED <<thread, open, paging, up, down, connected, daemon, breaks, orderly>>

-----------------------------------------------------------------------------
(* The phone hears                                                         *)

\* pushMsg appends, whatever the timestamp.
HearsMessage ==
  /\ down # <<>> /\ Head(down).live
  /\ down' = Tail(down)
  /\ arr' = arr \o Head(down).msgs
  /\ UNCHANGED <<loadedHistory, noMoreHistory, open, paging, select, up, connected, daemon, breaks,
                 orderly>>

\* The elements of s at the places I, in a stable sort by timestamp: the k-th is
\* the one that k of them do not come after.
Sorted(s, I) ==
  [k \in 1..Cardinality(I) |-> s[CHOOSE i \in I : k = Cardinality({j \in I :
     Second(s[j]) < Second(s[i]) \/ (Second(s[j]) = Second(s[i]) /\ j <= i)})]]

\* The selection is put back on the message it was on.
BugReanchors == UNCHANGED select
Reanchors ==
  /\ UNCHANGED selectMsgID
  /\ selectIdx' = IF open /\ selectIdx > 0 /\ selectMsgID \in Range(arr')
                  THEN CHOOSE i \in 1..Len(arr') :
                         arr'[i] = selectMsgID /\ \A j \in 1..(i - 1) : arr'[j] # arr'[i]
                  ELSE selectIdx

\* Any page answers the request for an older one.
BugEndsRequest(added) == UNCHANGED <<paging, noMoreHistory>>
EndsRequest(added) ==
  IF pendingOlder
  THEN /\ pendingOlder' = FALSE /\ loadingOlder' = FALSE
       /\ noMoreHistory' = (noMoreHistory \/ added = {})
  ELSE UNCHANGED <<paging, noMoreHistory>>

HearsHistory ==
  /\ down # <<>> /\ ~Head(down).live
  /\ down' = Tail(down)
  /\ \E both \in {arr \o Head(down).msgs} :
       LET added == {i \in (Len(arr) + 1)..Len(both) : both[i] \notin Shown} IN
       /\ arr' = Sorted(both, 1..Len(arr) \cup added)
       /\ EndsRequest(added)
  /\ loadedHistory' = TRUE
  /\ Reanchors
  /\ UNCHANGED <<open, up, connected, daemon, breaks, orderly>>

-----------------------------------------------------------------------------
(* The daemon                                                              *)

\* Push reaches the phone that is connected.
Pushes(live, msgs) ==
  /\ Len(down) < MaxWire
  /\ down' = IF connected THEN Append(down, [live |-> live, msgs |-> msgs]) ELSE down

InOrder(m) == \A n \in stored : n < m

\* A live message is stored, ...
StoresLive(m) ==
  /\ event = 0 /\ m \notin stored
  /\ event' = m
  /\ stored' = stored \cup {m}
  /\ orderly' = (orderly /\ InOrder(m))
  /\ UNCHANGED <<phone, up, down, connected, page, breaks>>

\* ... and then pushed.
PushesLive ==
  /\ event # 0
  /\ Pushes(TRUE, <<event>>)
  /\ event' = 0
  /\ UNCHANGED <<phone, up, connected, stored, page, breaks, orderly>>

\* A history sync stores what is older than what there is, and pushes no message.
StoresHistory(m) ==
  /\ m \notin stored /\ ~InOrder(m)
  /\ stored' = stored \cup {m}
  /\ orderly' = FALSE
  /\ UNCHANGED <<phone, up, down, connected, event, page, breaks>>

OldestFirst(P) == Sorted([m \in Messages |-> m], P)
Older(before) == {m \in stored : before = 0 \/ Second(m) < before}

\* The newest messages before a timestamp; those of one second in any order.
BugPages(before) ==
  {OldestFirst(P) : P \in {Q \in SUBSET Older(before) :
     /\ Cardinality(Q) <= Page /\ (Cardinality(Q) = Page \/ Q = Older(before))
     /\ \A m \in Q, n \in Older(before) \ Q : Second(m) <= Second(n)}}

Pages(before) ==
  {OldestFirst(P) : P \in {Q \in SUBSET Older(before) :
     /\ Cardinality(Q) <= Page /\ (Cardinality(Q) = Page \/ Q = Older(before))
     /\ \A m \in Q, n \in Older(before) \ Q : Second(m) >= Second(n)}}

\* GETHISTORY: the page is read, ...
TakesGet ==
  /\ page = <<>> /\ connected /\ up # <<>>
  /\ up' = Tail(up)
  /\ \E p \in Pages(Head(up)) : page' = <<p>>
  /\ UNCHANGED <<phone, down, connected, stored, event, breaks, orderly>>

\* ... and then pushed.
PushesHistory ==
  /\ page # <<>>
  /\ Pushes(FALSE, page[1])
  /\ page' = <<>>
  /\ UNCHANGED <<phone, up, connected, stored, event, breaks, orderly>>

-----------------------------------------------------------------------------
(* The connection (Wire.tla and Hub.tla say how it comes and goes)         *)

Breaks ==
  /\ connected /\ breaks < MaxBreaks
  /\ breaks' = breaks + 1
  /\ connected' = FALSE
  /\ up' = <<>> /\ down' = <<>>
  /\ orderly' = FALSE
  /\ UNCHANGED <<phone, daemon>>

\* The status listener asks for the open thread, ahead of the frames that waited.
BugReconnects ==
  /\ ~connected
  /\ connected' = TRUE
  /\ UNCHANGED <<phone, up, down, daemon, breaks, orderly>>

Reconnects ==
  /\ ~connected
  /\ connected' = TRUE
  /\ up' = IF open THEN <<0>> \o up ELSE up
  /\ UNCHANGED <<phone, down, daemon, breaks, orderly>>

Hears == HearsMessage \/ HearsHistory
Handles == TakesGet \/ PushesHistory

ThreadNext ==
  \/ OpenThread \/ LeaveThread \/ ScrollsToTop
  \/ EnterSelectMode \/ EnterComposeMode \/ MoveUp \/ MoveDown
  \/ Hears \/ Handles
  \/ \E m \in Messages : StoresLive(m) \/ StoresHistory(m)
  \/ PushesLive \/ Breaks \/ Reconnects

ThreadSpec == ThreadInit /\ [][ThreadNext]_threadVars

\* Frames are handled, goroutines go on, and the wire gets its connection back.
ThreadFairness == WF_threadVars(Hears) /\ WF_threadVars(Handles) /\ WF_threadVars(PushesLive) /\ WF_threadVars(Reconnects)
ThreadFairSpec == ThreadSpec /\ ThreadFairness

-----------------------------------------------------------------------------
(* Properties                                                              *)

\* The key pressed in select mode acts on the message that is highlighted: the
\* selection stays on its message while pages are put in front of it and
\* messages come in (app.js:797-800, "anchoring on the id is what stops the
\* selection silently jumping to a different message when a page loads").
SelectionStays ==
  selectIdx > 0 => selectIdx \in 1..Len(arr) /\ arr[selectIdx] = selectMsgID

Quiet == up = <<>> /\ down = <<>> /\ event = 0 /\ page = <<>>
CutOff(m) == \E n \in Shown : Second(m) = Second(n)
WithinReach ==
  \A m \in stored \ Shown : (Second(m) < Second(arr[1]) /\ ~noMoreHistory) \/ CutOff(m)

\* Nothing in a thread is out of the user's reach: what it does not show is
\* older than what it shows and can still be asked for, unless a page has ended
\* inside its second and cut it off from messages that are shown, which the
\* strict comparison (history.go:806) never makes good.  This takes a connection
\* that holds, messages stored in order and one request at a time.
HistoryWithinReach == orderly /\ loadedHistory /\ arr # <<>> /\ Quiet => WithinReach

\* app.js:4108, "Nothing came back: this chat's history is exhausted, so stop
\* asking": the app stops asking only when there is nothing older.
EndIsTheEnd ==
  noMoreHistory /\ arr # <<>> /\ Quiet => \A m \in stored \ Shown : Second(m) >= Second(arr[1])

\* app.js:4090, "to avoid duplicates": no message is shown twice.
NothingShownTwice == \A i, j \in 1..Len(arr) : i # j => arr[i] # arr[j]

\* A request for older history never blocks the next one for good, although the
\* answer or the request itself may be lost (app.js:4101-4103).
PagingComesBack == loadingOlder ~> ~loadingOlder \/ ~open

\* What arrives while the phone is away is in the open thread after it is back
\* (app.js:4050-4056, "Re-pull the open thread explicitly"): the newest message
\* at least, for the rest has to fit on the page, as has its second.
Newest == {m \in stored : \A n \in stored \ {m} : Second(n) < Second(m)}
OpenThreadCatchesUp ==
  \A m \in Messages :
    open /\ ~connected /\ m \in Newest ~> ~open \/ (connected /\ (m \in Shown \/ m \notin Newest))
=============================================================================
