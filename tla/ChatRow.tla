------------------------------ MODULE ChatRow ------------------------------
(***************************************************************************)
(* Pin, mute, archive and delete (chatactions.go, the chataction case of   *)
(* main.go): how one chat stands in the account, in the daemon's tables    *)
(* and in the chat list of the app (runChatAction, pushMsg and the handlers*)
(* of CHATLIST and CHATUPDATE in app.js), while messages come and go.      *)
(*                                                                         *)
(* One chat and one phone, whose frames are handled one after the other;   *)
(* WhatsApp's events have a goroutine of their own, so the two statements  *)
(* of putMessage and of dropChat interleave.  The link stays up (Wire has  *)
(* the link).  A message is its number.                                    *)
(***************************************************************************)
EXTENDS Naturals, Sequences

CONSTANTS
  Flags,      \* "pinned", "muted" and "archived", or those of them looked at
  MaxMsgs,    \* bound: messages, in and out, after the first
  MaxKeys,    \* bound: what the user does in the app
  MaxFar      \* bound: changes made on another device

ASSUME FlagAssumption == {"pinned", "archived"} \subseteq Flags /\ Flags \subseteq {"pinned", "muted", "archived"}
ASSUME BoundAssumption == MaxMsgs \in Nat /\ MaxKeys \in Nat /\ MaxFar \in Nat

Msgs == 1..(MaxMsgs + 1)

VARIABLES
  account, kept,   \* the chat in the account: its flags, its messages
  found, settings, \* whatsmeow's ChatSettings: whether there is a row, and its flags
  row, column,     \* the row of chats, and its three columns
  stored,          \* messages: the numbers there are rows of
  last,            \* messages so far
  job,             \* the frame being handled
  event,           \* the message event being handled
  up, down,        \* frames on the socket
  known, shown,    \* app.js: chats[jid], and its flags
  behind,          \* history: flags something excuses
  crossed,         \* history: a message was handled while the chat was deleted
  lost,            \* history: messages the account gave up in a delete reported as an error
  keys, far        \* counters

accountSide == <<account, kept, found, settings>>
tables == <<row, column, stored>>
app == <<known, shown>>
vars == <<accountSide, tables, last, job, event, up, down, app, behind, crossed, lost, keys, far>>

Stages == {"idle", "send", "column", "unpin", "flags", "confirm", "list", "listed",
           "messages", "chat", "removed", "record", "recorded", "sent"}
Idle == [at |-> "idle", flag |-> "pinned", on |-> FALSE, view |-> {}, here |-> FALSE, n |-> 0]

TypeOK ==
  /\ {account, settings, column, shown, behind} \subseteq SUBSET Flags
  /\ {found, row, known, crossed} \subseteq BOOLEAN
  /\ stored \subseteq Msgs /\ kept \subseteq Msgs /\ lost \subseteq Msgs /\ last \in Msgs
  /\ job \in [at : Stages, flag : Flags \cup {"delete"}, on : BOOLEAN, view : SUBSET Flags,
              here : BOOLEAN, n : 0..(MaxMsgs + 1)]
  /\ event \in [at : {"idle", "message", "summary", "push"}, pinned : BOOLEAN, n : Msgs]
  /\ up \in Seq([kind : Flags \cup {"delete", "getchats", "send"}, on : BOOLEAN, n : 0..(MaxMsgs + 1)])
  /\ down \in Seq([kind : {"message", "update", "list", "removed"}, view : SUBSET Flags, here : BOOLEAN])
  /\ keys \in 0..MaxKeys /\ far \in 0..MaxFar

\* A chat with one message, as the app got it with the list.  The account has
\* synced settings of it, or none yet.
Init ==
  /\ account = {} /\ kept = {1} /\ settings = {} /\ found \in BOOLEAN
  /\ row = TRUE /\ column = {} /\ stored = {1} /\ last = 1
  /\ job = Idle /\ event = [at |-> "idle", pinned |-> FALSE, n |-> 1]
  /\ up = <<>> /\ down = <<>>
  /\ known = TRUE /\ shown = {}
  /\ behind = {} /\ crossed = FALSE /\ lost = {}
  /\ keys = 0 /\ far = 0

-----------------------------------------------------------------------------
\* Archiving unpins: in the account (BuildArchive), in the columns and in the app.
Applied(flags, f, on) ==
  IF on THEN (flags \cup {f}) \ (IF f = "archived" THEN {"pinned"} ELSE {}) ELSE flags \ {f}
Touched(f) == IF f = "archived" THEN {"archived", "pinned"} ELSE {f}

\* chatListWithFlags, ChatFlags: where there are settings, they hide the columns.
View == IF found THEN settings ELSE IF row THEN column ELSE {}
Unsynced == {f \in Flags : (f \in settings) # (f \in account)}

(* The user                                                                *)

Key(kind, on, n) ==
  /\ keys < MaxKeys /\ keys' = keys + 1
  /\ up' = Append(up, [kind |-> kind, on |-> on, n |-> n])
  /\ UNCHANGED <<tables, account, found, settings, job, event, down, behind, crossed, lost, far>>

\* runChatAction flips what the row shows, and shows it at once.
PressFlag(f) ==
  /\ known
  /\ Key(f, f \notin shown, 0)
  /\ shown' = Applied(shown, f, f \notin shown)
  /\ UNCHANGED <<known, kept, last>>

PressDelete == known /\ Key("delete", TRUE, 0) /\ UNCHANGED <<app, kept, last>>
AskForList == Key("getchats", TRUE, 0) /\ UNCHANGED <<app, kept, last>>

\* A message for the account: it is in WhatsApp before RecordSent has it.
SendMessage ==
  /\ known /\ last < MaxMsgs + 1 /\ last' = last + 1
  /\ Key("send", TRUE, last')
  /\ UNCHANGED <<app, kept>>

-----------------------------------------------------------------------------
(* The frame router                                                        *)

Becomes(stage) == job' = [job EXCEPT !.at = stage]
Done == job' = Idle
AtJob(stage) == job.at = stage

\* The anchor of a delete is the newest message stored when it is taken.
TakeFrame ==
  /\ AtJob("idle") /\ up # <<>>
  /\ up' = Tail(up)
  /\ LET u == Head(up) IN
     \/ /\ u.kind \in Flags \cup {"delete"}
        /\ job' = [Idle EXCEPT !.at = "send", !.flag = u.kind, !.on = u.on,
                               !.n = IF stored = {} THEN 0 ELSE CHOOSE m \in stored : \A k \in stored : k <= m]
        /\ UNCHANGED kept
     \/ u.kind = "getchats" /\ job' = [Idle EXCEPT !.at = "list"] /\ UNCHANGED kept
     \/ u.kind = "send" /\ job' = [Idle EXCEPT !.at = "record", !.n = u.n] /\ kept' = kept \cup {u.n}
  /\ crossed' = (crossed \/ (Head(up).kind = "delete" /\ event.at # "idle"))
  /\ UNCHANGED <<account, found, settings, tables, last, event, down, app, behind, lost, keys, far>>

\* SendAppState is accepted, and whatsmeow takes the new state in.
Accepted ==
  /\ AtJob("send")
  /\ \/ /\ job.flag = "delete"
        /\ kept' = {m \in kept : m > job.n}
        /\ Becomes("messages")
        /\ UNCHANGED <<account, found, settings>>
     \/ /\ job.flag # "delete"
        /\ account' = Applied(account, job.flag, job.on)
        /\ settings' = Applied(settings, job.flag, job.on) /\ found' = TRUE
        /\ Becomes("column")
        /\ UNCHANGED kept
  /\ UNCHANGED <<tables, last, event, up, down, app, behind, crossed, lost, keys, far>>

BugRejected ==
  /\ AtJob("send")
  /\ Done
  /\ UNCHANGED <<accountSide, tables, last, event, up, down, app, behind, crossed, lost, keys, far>>

\* It fails: nothing is stored, and the app gets an error and the list.
Rejected ==
  /\ AtJob("send")
  /\ Becomes("list")
  /\ UNCHANGED <<accountSide, tables, last, event, up, down, app, behind, crossed, lost, keys, far>>

\* It fails although the account has it: the answer, or the sync after it, is
\* lost.  What the daemon stores stays as it was, a deleted chat too.
AcceptedButError ==
  /\ AtJob("send") /\ far < MaxFar /\ far' = far + 1
  /\ \/ /\ job.flag = "delete"
        /\ kept' = {m \in kept : m > job.n}
        /\ lost' = lost \cup (kept \ kept')
        /\ UNCHANGED <<account, behind>>
     \/ /\ job.flag # "delete"
        /\ account' = Applied(account, job.flag, job.on)
        /\ behind' = behind \cup Touched(job.flag)
        /\ UNCHANGED <<kept, lost>>
  /\ Becomes("list")
  /\ UNCHANGED <<found, settings, tables, last, event, up, down, app, crossed, keys>>

\* setChatFlag, an UPDATE that finds the row or nothing.
Columns(cs) == column' = IF row THEN cs ELSE column

SetColumn ==
  /\ AtJob("column")
  /\ Columns(IF job.on THEN column \cup {job.flag} ELSE column \ {job.flag})
  /\ Becomes(IF job.flag = "archived" /\ job.on THEN "unpin" ELSE "flags")
  /\ UNCHANGED <<accountSide, row, stored, last, event, up, down, app, behind, crossed, lost, keys, far>>

Unpin ==
  /\ AtJob("unpin")
  /\ Columns(column \ {"pinned"})
  /\ Becomes("flags")
  /\ UNCHANGED <<accountSide, row, stored, last, event, up, down, app, behind, crossed, lost, keys, far>>

\* ChatFlags, then the CHATUPDATE.
ReadFlags ==
  /\ AtJob("flags")
  /\ job' = [job EXCEPT !.at = "confirm", !.view = View]
  /\ behind' = Unsynced
  /\ UNCHANGED <<accountSide, tables, last, event, up, down, app, crossed, lost, keys, far>>

Pushes(kind, view, here) == down' = Append(down, [kind |-> kind, view |-> view, here |-> here])

Confirm ==
  /\ AtJob("confirm")
  /\ Pushes("update", job.view, TRUE)
  /\ Done
  /\ UNCHANGED <<accountSide, tables, last, event, up, app, behind, crossed, lost, keys, far>>

\* ListChats, then the CHATLIST.  A list without the chat puts nothing right.
ReadList ==
  /\ AtJob("list")
  /\ job' = [job EXCEPT !.at = "listed", !.view = View, !.here = row]
  /\ behind' = IF row THEN Unsynced ELSE Flags
  /\ UNCHANGED <<accountSide, tables, last, event, up, down, app, crossed, lost, keys, far>>

PushList ==
  /\ AtJob("listed")
  /\ Pushes("list", job.view, job.here)
  /\ Done
  /\ UNCHANGED <<accountSide, tables, last, event, up, app, behind, crossed, lost, keys, far>>

\* dropChat, its two statements, then the CHATUPDATE.
DropMessages ==
  /\ AtJob("messages")
  /\ stored' = {}
  /\ Becomes("chat")
  /\ UNCHANGED <<accountSide, row, column, last, event, up, down, app, behind, crossed, lost, keys, far>>

BugDropRow ==
  /\ AtJob("chat")
  /\ row' = row /\ column' = column
  /\ Becomes("removed")
  /\ UNCHANGED <<accountSide, stored, last, event, up, down, app, behind, crossed, lost, keys, far>>

DropRow ==
  /\ AtJob("chat")
  /\ row' = FALSE /\ column' = {}
  /\ Becomes("removed")
  /\ UNCHANGED <<accountSide, stored, last, event, up, down, app, behind, crossed, lost, keys, far>>

PushRemoved ==
  /\ AtJob("removed")
  /\ Pushes("removed", {}, FALSE)
  /\ Done
  /\ UNCHANGED <<accountSide, tables, last, event, up, app, behind, crossed, lost, keys, far>>

-----------------------------------------------------------------------------
(* putMessage, from an event and from RecordSent                           *)

Stores(n) == stored' = stored \cup {n}

\* The upsert of the chat takes the message's pinned for the column.
Upsert(pinned) ==
  /\ row' = TRUE
  /\ column' = IF pinned THEN column \cup {"pinned"} ELSE column \ {"pinned"}

\* A frame may say otherwise of the pin than the list would.
PushMessage(pinned) ==
  /\ Pushes("message", IF pinned THEN {"pinned"} ELSE {}, TRUE)
  /\ behind' = IF pinned = ("pinned" \in View) THEN behind ELSE behind \cup {"pinned"}

Deleting == job.at \in {"send", "messages", "chat", "removed"} /\ job.flag = "delete"

\* handleMsg: isPinned is read first.
MessageComes ==
  /\ event.at = "idle" /\ last < MaxMsgs + 1 /\ last' = last + 1
  /\ event' = [at |-> "message", pinned |-> found /\ "pinned" \in settings, n |-> last + 1]
  /\ kept' = kept \cup {last + 1}
  /\ crossed' = (crossed \/ Deleting)
  /\ UNCHANGED <<account, found, settings, tables, job, up, down, app, behind, lost, keys, far>>

StoreMessage ==
  /\ event.at = "message"
  /\ Stores(event.n)
  /\ event' = [event EXCEPT !.at = "summary"]
  /\ UNCHANGED <<accountSide, row, column, last, job, up, down, app, behind, crossed, lost, keys, far>>

StoreSummary ==
  /\ event.at = "summary"
  /\ Upsert(event.pinned)
  /\ event' = [event EXCEPT !.at = "push"]
  /\ UNCHANGED <<accountSide, stored, last, job, up, down, app, behind, crossed, lost, keys, far>>

MessagePushed ==
  /\ event.at = "push"
  /\ PushMessage(event.pinned)
  /\ event' = [event EXCEPT !.at = "idle"]
  /\ UNCHANGED <<accountSide, tables, last, job, up, app, crossed, lost, keys, far>>

\* RecordSent: nobody fills in Pinned.
RecordMessage ==
  /\ AtJob("record")
  /\ Stores(job.n)
  /\ Becomes("recorded")
  /\ UNCHANGED <<accountSide, row, column, last, event, up, down, app, behind, crossed, lost, keys, far>>

RecordSummary ==
  /\ AtJob("recorded")
  /\ Upsert(FALSE)
  /\ Becomes("sent")
  /\ UNCHANGED <<accountSide, stored, last, event, up, down, app, behind, crossed, lost, keys, far>>

RecordPushed ==
  /\ AtJob("sent")
  /\ PushMessage(FALSE)
  /\ Done
  /\ UNCHANGED <<accountSide, tables, last, event, up, app, crossed, lost, keys, far>>

-----------------------------------------------------------------------------
(* Another device                                                          *)

\* The settings of the chat change there, and sync here: no frame is pushed.
FlagElsewhere(f, on) ==
  /\ far < MaxFar /\ far' = far + 1
  /\ account' = Applied(account, f, on)
  /\ settings' = Applied(settings, f, on) /\ found' = TRUE
  /\ behind' = behind \cup Touched(f)
  /\ UNCHANGED <<kept, tables, last, job, event, up, down, app, crossed, lost, keys>>

\* What was lost of an accepted patch arrives with a later sync.
SyncArrives ==
  /\ settings # account
  /\ settings' = account /\ found' = TRUE
  /\ behind' = behind \cup Unsynced
  /\ UNCHANGED <<account, kept, tables, last, job, event, up, down, app, crossed, lost, keys, far>>

-----------------------------------------------------------------------------
(* The app                                                                 *)

Hears(kind) == down # <<>> /\ Head(down).kind = kind /\ down' = Tail(down)
HeardView == Head(down).view

\* pushMsg takes the pin of the frame.  A row it makes has no mute and no
\* archive.
HearMessage ==
  /\ Hears("message")
  /\ known' = TRUE /\ shown' = HeardView \cup (shown \ {"pinned"})
  /\ behind' = IF known THEN behind ELSE behind \cup (Flags \ {"pinned"})
  /\ UNCHANGED <<accountSide, tables, last, job, event, up, crossed, lost, keys, far>>

\* A CHATUPDATE of a chat the app does not know is dropped.
HearUpdate ==
  /\ Hears("update")
  /\ shown' = IF known THEN HeardView ELSE shown
  /\ UNCHANGED <<accountSide, tables, last, job, event, up, known, behind, crossed, lost, keys, far>>

HearRemoved ==
  /\ Hears("removed")
  /\ known' = FALSE /\ shown' = {}
  /\ UNCHANGED <<accountSide, tables, last, job, event, up, behind, crossed, lost, keys, far>>

\* A list adds and changes rows, and removes none.
HearList ==
  /\ Hears("list")
  /\ known' = (known \/ Head(down).here)
  /\ shown' = IF Head(down).here THEN HeardView ELSE shown
  /\ UNCHANGED <<accountSide, tables, last, job, event, up, behind, crossed, lost, keys, far>>

-----------------------------------------------------------------------------
SendAppState == Accepted \/ Rejected \/ AcceptedButError
JobStep ==
  \/ TakeFrame \/ SendAppState \/ SetColumn \/ Unpin \/ ReadFlags \/ Confirm \/ ReadList \/ PushList
  \/ DropMessages \/ DropRow \/ PushRemoved \/ RecordMessage \/ RecordSummary \/ RecordPushed
EventStep == StoreMessage \/ StoreSummary \/ MessagePushed
Hear == HearMessage \/ HearUpdate \/ HearRemoved \/ HearList

Next ==
  \/ JobStep \/ EventStep \/ Hear
  \/ MessageComes \/ SyncArrives
  \/ PressDelete \/ AskForList \/ SendMessage
  \/ \E f \in Flags : PressFlag(f) \/ \E on \in BOOLEAN : FlagElsewhere(f, on)

Spec == Init /\ [][Next]_vars

-----------------------------------------------------------------------------
(* Properties                                                              *)

Quiet == job.at = "idle" /\ event.at = "idle" /\ up = <<>> /\ down = <<>>

\* When nothing is under way any more the list shows the chat as the account
\* has it, however many keys were pressed ahead of their answers and whichever
\* of them the account rejected (chatactions.go:26, "a rejected write can't
\* leave the app showing a state the account doesn't have"; main.go:432, "Tell
\* the app so it can roll its optimistic UI back").  Excused are the flags that
\* changed where no frame is pushed, or that a message's frame got wrong.
RowIsTrue ==
  Quiet /\ known =>
    \A f \in Flags \ behind : f \in shown <=> f \in account

\* A delete takes the chat out of the account, the tables and the app alike,
\* or, rejected, out of none of them (history.go:441): no message stored is one
\* the account gave up, none is missing, and tables and app agree about the
\* chat.  Excused are a delete during which a message of the chat was handled,
\* and the messages that went in a delete the daemon was told had failed.
DeletedEverywhere ==
  Quiet /\ ~crossed =>
    /\ kept \subseteq stored /\ stored \ kept \subseteq lost
    /\ stored # {} => row
    /\ known <=> row

\* "The account rejected the write, so our stored state was left untouched"
\* (main.go:431): after an error too, what is stored is what the account has.
\* It does not hold of a delete the account took and whose answer was lost.
ErrorMeansRejected == Quiet /\ ~crossed => stored \subseteq kept

\* "chat is pinned (synced from account)" (protocol.go:84): the pin the app shows
\* is the account's.  It does not hold: RecordSent pushes a message whose Pinned
\* nobody has filled in, so writing in a pinned chat unpins it in the list.
PinIsTheAccounts ==
  Quiet /\ known /\ row => ("pinned" \in shown <=> "pinned" \in account)

=============================================================================
