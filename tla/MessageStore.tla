---------------------------- MODULE MessageStore ----------------------------
(***************************************************************************)
(* One chat in the daemon's history database (history.go) and the handlers *)
(* that write to it (client.go): live messages, messages of a history sync,*)
(* messages sent from the phone, receipts, edits, reading, deleting.       *)
(*                                                                         *)
(* The database has a single connection, so a statement is atomic; a       *)
(* function of several statements is not.  Three goroutines write at the   *)
(* same time: WhatsApp's events, a history sync, and the frames of the     *)
(* phone, whose handlers also wait for WhatsApp between two statements.    *)
(*                                                                         *)
(* A message is known by its timestamp; its body is the number of edits it *)
(* has had.  The preview quotes a message with one of its bodies.          *)
(***************************************************************************)
EXTENDS Naturals, FiniteSets, FiniteSetsExt

CONSTANTS
  Own,         \* messages the user sends from the phone
  Incoming,    \* messages that arrive
  BatchLimit,  \* ids acknowledged in one go (50 in the code)
  MaxEdits,    \* bound: edits in all
  Redelivery,  \* may a history sync bring a message that is stored already?
  MaxCrashes   \* bound: restarts of the daemon

ASSUME MsgAssumption == Own \cup Incoming \subseteq Nat \ {0} /\ Own \cap Incoming = {}
ASSUME LimitAssumption == BatchLimit \in Nat \ {0} /\ MaxEdits \in Nat /\ MaxCrashes \in Nat
ASSUME RedeliveryAssumption == Redelivery \in BOOLEAN

Msgs == Own \cup Incoming
Statuses == {"", "sent", "delivered", "read", "played"}
Goroutines == {"event", "history", "app"}
Bodies == 0..MaxEdits
Idle == [at |-> "idle"]

VARIABLES
  stored,    \* the messages with a row
  status,    \* the status column
  body,      \* the text column
  lastTs,    \* chats.last_ts, 0 before the chat has a row
  preview,   \* chats.preview: the message and the body it quotes
  job,       \* what each goroutine is in the middle of
  arrived,   \* incoming messages WhatsApp has delivered
  accepted,  \* own messages WhatsApp has accepted
  latest,    \* the body the account has
  acked,     \* incoming messages a read receipt of ours named
  crashes

table == <<stored, status, body>>
summary == <<lastTs, preview>>
account == <<arrived, accepted, latest>>
vars == <<table, summary, job, account, acked, crashes>>

At(g, stage) == job[g].at = stage
Becomes(g, j) == job' = [job EXCEPT ![g] = j]
Quiet == \A g \in Goroutines : At(g, "idle")

TypeOK ==
  /\ stored \subseteq Msgs
  /\ status \in [Msgs -> Statuses]
  /\ body \in [Msgs -> Bodies]
  /\ lastTs \in Msgs \cup {0}
  /\ preview \in [msg : Msgs \cup {0}, body : Bodies]
  /\ \A g \in Goroutines :
       job[g].at \in {"idle", "summary", "record", "status", "acking", "marking",
                      "edit", "preview"}
  /\ arrived \subseteq Incoming /\ accepted \subseteq Own
  /\ latest \in [Msgs -> Bodies]
  /\ acked \subseteq arrived
  /\ crashes \in 0..MaxCrashes

Init ==
  /\ stored = {}
  /\ status = [m \in Msgs |-> ""]
  /\ body = [m \in Msgs |-> 0]
  /\ lastTs = 0
  /\ preview = [msg |-> 0, body |-> 0]
  /\ job = [g \in Goroutines |-> Idle]
  /\ arrived = {} /\ accepted = {}
  /\ latest = [m \in Msgs |-> 0]
  /\ acked = {}
  /\ crashes = 0

-----------------------------------------------------------------------------
(* putMessage: a row, and then the chat's summary.                         *)

\* INSERT OR REPLACE names every column but status, which starts afresh.
PutRow(g, m, b) ==
  /\ stored' = stored \cup {m}
  /\ status' = [status EXCEPT ![m] = ""]
  /\ body' = [body EXCEPT ![m] = b]
  /\ Becomes(g, [at |-> "summary", msg |-> m, body |-> b])
  /\ UNCHANGED <<summary, acked, crashes>>

BugUpsert(m, b) ==
  /\ lastTs' = m
  /\ preview' = [msg |-> m, body |-> b]

\* The upsert: the newest timestamp stands, and the preview that goes with it.
Upsert(m, b) ==
  /\ lastTs' = Max({lastTs, m})
  /\ preview' = IF m >= lastTs THEN [msg |-> m, body |-> b] ELSE preview

PutSummary(g) ==
  /\ At(g, "summary")
  /\ Upsert(job[g].msg, job[g].body)
  /\ Becomes(g, Idle)
  /\ UNCHANGED <<table, account, acked, crashes>>

\* A live message, handled on the event goroutine.
LiveMessage(m) ==
  /\ At("event", "idle")
  /\ m \in Incoming \ arrived
  /\ arrived' = arrived \cup {m}
  /\ PutRow("event", m, latest[m])
  /\ UNCHANGED <<accepted, latest>>

\* A message of a history sync: one that was missed, or one that is stored
\* already.  It has the body it was written with or the one it has now.
HistoryMessage(m, b) ==
  /\ At("history", "idle")
  /\ m \in Incoming \cup accepted
  /\ m \in stored \cup arrived \cup accepted => Redelivery
  /\ b \in {0, latest[m]}
  /\ arrived' = arrived \cup ({m} \cap Incoming)
  /\ PutRow("history", m, b)
  /\ UNCHANGED <<accepted, latest>>

-----------------------------------------------------------------------------
(* Sending: SendMessage returns, and then RecordSent stores the row.       *)

SendReturns(m) ==
  /\ At("app", "idle")
  /\ m \in Own \ accepted
  /\ accepted' = accepted \cup {m}
  /\ Becomes("app", [at |-> "record", msg |-> m])
  /\ UNCHANGED <<table, summary, arrived, latest, acked, crashes>>

RecordSent ==
  /\ At("app", "record")
  /\ PutRow("app", job["app"].msg, 0)
  /\ UNCHANGED account

-----------------------------------------------------------------------------
(* Receipts: handleReceipt, and setMessageStatus with its two statements.  *)

Rank(s) == CASE s = "" -> 0 [] s = "sent" -> 1 [] s = "delivered" -> 2
             [] s = "read" -> 3 [] s = "played" -> 4

\* A receipt of a type the daemon draws, for a message it may be about: from
\* the devices of the other side in any order, or from another device of ours.
MayReport(m, s) ==
  \/ m \in accepted /\ s \in {"delivered", "read", "played"}
  \/ m \in arrived /\ s = "read"

\* The select: no row, or nothing new, and the receipt is done with.
BugAdvances(m, s) == m \in stored
Advances(m, s) == m \in stored /\ Rank(s) > Rank(status[m])

HandleReceipt(m, s) ==
  /\ At("event", "idle")
  /\ MayReport(m, s)
  /\ Becomes("event", IF Advances(m, s) THEN [at |-> "status", msg |-> m, new |-> s] ELSE Idle)
  /\ UNCHANGED <<table, summary, account, acked, crashes>>

\* The update.
SetMessageStatus ==
  /\ At("event", "status")
  /\ status' = IF job["event"].msg \in stored
               THEN [status EXCEPT ![job["event"].msg] = job["event"].new]
               ELSE status
  /\ Becomes("event", Idle)
  /\ UNCHANGED <<stored, body, summary, account, acked, crashes>>

-----------------------------------------------------------------------------
(* MarkChatRead                                                            *)

Unread == {m \in stored \cap Incoming : status[m] # "read"}

\* The newest of the unread messages, as many as go into one receipt.
BugBatch == {m \in Unread : Cardinality({n \in Unread : n < m}) < BatchLimit}
Batch == {m \in Unread : Cardinality({n \in Unread : n > m}) < BatchLimit}

MarkChatRead ==
  /\ At("app", "idle")
  /\ Unread # {}
  /\ Becomes("app", [at |-> "acking", ids |-> Batch, seen |-> Unread])
  /\ UNCHANGED <<table, summary, account, acked, crashes>>

MarkReadReturns ==
  /\ At("app", "acking")
  /\ acked' = acked \cup job["app"].ids
  /\ Becomes("app", [job["app"] EXCEPT !.at = "marking"])
  /\ UNCHANGED <<table, summary, account, crashes>>

MarkReadFails ==
  /\ At("app", "acking")
  /\ Becomes("app", Idle)
  /\ UNCHANGED <<table, summary, account, acked, crashes>>

\* markAllRead flags whatever is unread by now.
BugMarkAllRead ==
  /\ At("app", "marking")
  /\ status' = [m \in Msgs |-> IF m \in job["app"].ids THEN "read" ELSE status[m]]
  /\ Becomes("app", Idle)
  /\ UNCHANGED <<stored, body, summary, account, acked, crashes>>

MarkAllRead ==
  /\ At("app", "marking")
  /\ status' = [m \in Msgs |-> IF m \in Unread THEN "read" ELSE status[m]]
  /\ Becomes("app", Idle)
  /\ UNCHANGED <<stored, body, summary, account, acked, crashes>>

-----------------------------------------------------------------------------
(* Edits and deletes                                                       *)

EditsMade == MapThenSumSet(LAMBDA n : latest[n], Msgs)

\* EditMessage once WhatsApp has accepted it, or handleEdit.
EditArrives(g, m) ==
  /\ At(g, "idle")
  /\ (g = "app" /\ m \in accepted) \/ (g = "event" /\ m \in arrived)
  /\ EditsMade < MaxEdits
  /\ latest' = [latest EXCEPT ![m] = @ + 1]
  /\ Becomes(g, [at |-> "edit", msg |-> m, body |-> latest[m] + 1])
  /\ UNCHANGED <<table, summary, arrived, accepted, acked, crashes>>

\* editMessageText, first statement: nothing to do for a message without a row.
EditRow(g) ==
  /\ At(g, "edit")
  /\ body' = IF job[g].msg \in stored THEN [body EXCEPT ![job[g].msg] = job[g].body] ELSE body
  /\ Becomes(g, IF job[g].msg \in stored THEN [job[g] EXCEPT !.at = "preview"] ELSE Idle)
  /\ UNCHANGED <<stored, status, summary, account, acked, crashes>>

\* Second statement: the preview becomes this body when the chat's summary is
\* up to date, whichever message was edited.
EditPreview(g) ==
  /\ At(g, "preview")
  /\ preview' = IF stored # {} /\ lastTs = Max(stored)
                THEN [msg |-> job[g].msg, body |-> job[g].body] ELSE preview
  /\ Becomes(g, Idle)
  /\ UNCHANGED <<table, lastTs, account, acked, crashes>>

\* "Delete for me": the row goes, the summary stays.
DeleteMessage(m) ==
  /\ At("app", "idle")
  /\ m \in stored
  /\ stored' = stored \ {m}
  /\ status' = [status EXCEPT ![m] = ""]
  /\ body' = [body EXCEPT ![m] = 0]
  /\ UNCHANGED <<summary, job, account, acked, crashes>>

-----------------------------------------------------------------------------
\* The daemon dies and comes back: the database is what it was.
Crash ==
  /\ crashes < MaxCrashes
  /\ crashes' = crashes + 1
  /\ job' = [g \in Goroutines |-> Idle]
  /\ UNCHANGED <<table, summary, account, acked>>

Next ==
  \/ \E m \in Incoming : LiveMessage(m)
  \/ \E m \in Msgs :
       \/ \E b \in Bodies : HistoryMessage(m, b)
       \/ \E s \in Statuses : HandleReceipt(m, s)
       \/ DeleteMessage(m)
       \/ \E g \in {"app", "event"} : EditArrives(g, m)
  \/ \E m \in Own : SendReturns(m)
  \/ \E g \in Goroutines : PutSummary(g) \/ EditRow(g) \/ EditPreview(g)
  \/ RecordSent \/ SetMessageStatus
  \/ MarkChatRead \/ MarkReadReturns \/ MarkReadFails \/ MarkAllRead
  \/ Crash

Spec == Init /\ [][Next]_vars

-----------------------------------------------------------------------------
(* Properties                                                              *)

\* A receipt never moves a message backwards, however the receipts of several
\* devices are ordered, and although the state is read in one statement and
\* written in another (history.go:529-531).
ReceiptsOnlyAdvance ==
  [][SetMessageStatus =>
       \A m \in stored : Rank(status'[m]) >= Rank(status[m])]_vars

\* Nothing moves a message backwards: client.go:309, "so the store only ever
\* moves a message forwards", and refetch.go:31 of a redelivered message,
\* "That's safe".
StatusNeverLost ==
  [][\A m \in stored \cap stored' : Rank(status'[m]) >= Rank(status[m])]_vars

\* Every message that was unread when the receipt was made up is covered by it:
\* a receipt means "everything up to here", so the newest of them is named
\* although only BatchLimit of them fit (client.go:484-486).
ReceiptCoversTheBadge ==
  [][MarkAllRead => \A m \in job["app"].seen : \E n \in acked : n >= m]_vars

\* The badge empties: after a successful MarkChatRead nothing it saw is unread
\* any more (client.go:486, "or the unread badge never reaches zero").
BadgeEmpties ==
  [][At("app", "marking") /\ job'["app"] = Idle /\ crashes' = crashes =>
       job["app"].seen \cap stored' \cap {m \in Msgs : status'[m] # "read"} = {}]_vars

\* The chat's timestamp covers every message stored, whichever goroutine stored
\* it and in whatever order they came: a chat never sorts below its messages
\* (putMessage "upserts one normalized message and updates its chat's summary",
\* history.go:174).  A crash between the two statements is what can break it.
SummaryCovers == Quiet /\ crashes = 0 => \A m \in stored : m <= lastTs

\* An edit rewrites the preview because the preview quotes the edited message
\* (history.go:404, "The chat-list preview quotes the message, so it goes stale
\* otherwise"), and so never when it quotes another one.
EditKeepsOtherPreviews ==
  [][\A g \in Goroutines :
       EditPreview(g) => preview' = preview \/ preview.msg = job[g].msg]_vars

\* However live messages, history, sent messages and deletes interleave, the
\* preview is that of the message the chat's timestamp belongs to.  Once there
\* are edits it is not always.
NoEdits == \A m \in Msgs : latest[m] = 0
PreviewQuotesNewest == Quiet /\ NoEdits => preview.msg = lastTs
=============================================================================
