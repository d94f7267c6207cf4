-------------------------------- MODULE Hub --------------------------------
(***************************************************************************)
(* The daemon's websocket fan-out, wad/internal/ws/hub.go.                 *)
(*                                                                         *)
(* Every attached phone has a channel of its own.  Push copies the set of  *)
(* channels under the lock and offers the frame to each of them after the  *)
(* unlock; one writeLoop goroutine per connection drains its channel, and  *)
(* the readLoop, which also runs the frame handler, is the only thing that *)
(* ever detaches a connection.                                             *)
(*                                                                         *)
(* A frame is known by who pushed it and by its number among the pushes of *)
(* that goroutine; what it carries does not matter to the hub.             *)
(***************************************************************************)
EXTENDS Naturals, Sequences, FiniteSets

CONSTANTS
  Conns,      \* connections; each one is adopted at most once
  Events,     \* goroutines that push without being asked (WhatsApp events)
  NoConn,     \* "no connection"
  QueueCap,   \* capacity of a connection's channel (512 in the code)
  MaxPush,    \* bound: pushes by one event goroutine
  MaxReply    \* bound: pushes by the handler of one connection

ASSUME QueueCapAssumption == QueueCap \in Nat \ {0}
ASSUME MaxPushAssumption == MaxPush \in Nat /\ MaxReply \in Nat
ASSUME ProcAssumption == NoConn \notin Conns /\ Conns \cap Events = {}

\* The readLoop of a connection runs the handler, which pushes replies.
Procs == Conns \cup Events
Bound(p) == IF p \in Events THEN MaxPush ELSE MaxReply
Frame == [by : Procs, n : Nat \ {0}]

VARIABLES
  clients,    \* Hub.clients: the connections attached
  queue,      \* the channel of each connection
  reader,     \* its readLoop: "none", "reading", "handling", "done"
  writer,     \* its writeLoop: "none", "running", "done"
  hand,       \* the frame the writeLoop has taken and not yet written
  sent,       \* history: the frames written to each socket
  count,      \* pushes each goroutine has begun
  stage,      \* where its Push is
  todo,       \* the channels of its snapshot not served yet
  target,     \* the connection whose full channel it is making room in
  overflowed, \* history: connections one of whose pushes found the queue full
  offered,    \* history: the frames offered to each connection
  woken       \* the frames a push notification was sent for

connVars == <<clients, reader>>
pushVars == <<count, stage, todo, target>>
writeVars == <<writer, hand, sent>>
history == <<overflowed, offered>>
vars == <<connVars, pushVars, writeVars, history, queue, woken>>

Stages == {"idle", "send", "drop", "retry", "notify"}

TypeOK ==
  /\ clients \subseteq Conns
  /\ queue \in [Conns -> Seq(Frame)]
  /\ \A c \in Conns : Len(queue[c]) <= QueueCap
  /\ reader \in [Conns -> {"none", "reading", "handling", "done"}]
  /\ writer \in [Conns -> {"none", "running", "done"}]
  /\ hand \in [Conns -> Seq(Frame)]
  /\ \A c \in Conns : Len(hand[c]) <= 1
  /\ sent \in [Conns -> Seq(Frame)]
  /\ count \in [Procs -> Nat]
  /\ stage \in [Procs -> Stages]
  /\ todo \in [Procs -> SUBSET Conns]
  /\ target \in [Procs -> Conns \cup {NoConn}]
  /\ overflowed \subseteq Conns
  /\ offered \in [Conns -> SUBSET Frame]
  /\ woken \subseteq Frame

Init ==
  /\ clients = {}
  /\ queue = [c \in Conns |-> <<>>]
  /\ reader = [c \in Conns |-> "none"]
  /\ writer = [c \in Conns |-> "none"]
  /\ hand = [c \in Conns |-> <<>>]
  /\ sent = [c \in Conns |-> <<>>]
  /\ count = [p \in Procs |-> 0]
  /\ stage = [p \in Procs |-> "idle"]
  /\ todo = [p \in Procs |-> {}]
  /\ target = [p \in Procs |-> NoConn]
  /\ overflowed = {}
  /\ offered = [c \in Conns |-> {}]
  /\ woken = {}

HasClient == clients # {}
Attached(c) == c \in clients

-----------------------------------------------------------------------------
(* A connection: adopt registers it and starts both loops.                 *)

Adopt(c) ==
  /\ reader[c] = "none"
  /\ clients' = clients \cup {c}
  /\ reader' = [reader EXCEPT ![c] = "reading"]
  /\ writer' = [writer EXCEPT ![c] = "running"]
  /\ UNCHANGED <<pushVars, hand, sent, history, queue, woken>>

\* readLoop hands a frame to the handler and does not read while it runs.
ReadFrame(c) ==
  /\ reader[c] = "reading"
  /\ reader' = [reader EXCEPT ![c] = "handling"]
  /\ UNCHANGED <<clients, pushVars, writeVars, history, queue, woken>>

HandlerReturns(c) ==
  /\ reader[c] = "handling"
  /\ stage[c] = "idle"
  /\ reader' = [reader EXCEPT ![c] = "reading"]
  /\ UNCHANGED <<clients, pushVars, writeVars, history, queue, woken>>

\* The one place a connection leaves the map.
ReadError(c) ==
  /\ reader[c] = "reading"
  /\ clients' = clients \ {c}
  /\ reader' = [reader EXCEPT ![c] = "done"]
  /\ UNCHANGED <<pushVars, writeVars, history, queue, woken>>

-----------------------------------------------------------------------------
(* Push: snapshot, then pushTo for each channel in any order.              *)

Pushing(p) == [by |-> p, n |-> count[p]]
HasRoom(c) == Len(queue[c]) < QueueCap

BeginPush(p) ==
  /\ stage[p] = "idle"
  /\ p \in Conns => reader[p] = "handling"
  /\ count[p] < Bound(p)
  /\ count' = [count EXCEPT ![p] = @ + 1]
  /\ stage' = [stage EXCEPT ![p] = "send"]
  /\ todo' = [todo EXCEPT ![p] = clients]
  /\ UNCHANGED <<connVars, target, writeVars, history, queue, woken>>

\* What a successful send leaves in c's channel.
BugEnqueued(p, c) == [queue EXCEPT ![c] = <<Pushing(p)>> \o @]
Enqueued(p, c) == [queue EXCEPT ![c] = Append(@, Pushing(p))]

\* p has done with c, whether or not its frame got in.
Served(p, c) ==
  /\ todo' = [todo EXCEPT ![p] = @ \ {c}]
  /\ offered' = [offered EXCEPT ![c] = @ \cup {Pushing(p)}]
  /\ stage' = [stage EXCEPT ![p] = "send"]
  /\ target' = [target EXCEPT ![p] = NoConn]

TrySend(p, c) ==
  /\ stage[p] = "send"
  /\ c \in todo[p]
  /\ HasRoom(c)
  /\ queue' = Enqueued(p, c)
  /\ Served(p, c)
  /\ UNCHANGED <<connVars, count, writeVars, overflowed, woken>>

FoundFull(p, c) ==
  /\ stage[p] = "send"
  /\ c \in todo[p]
  /\ ~HasRoom(c)
  /\ overflowed' = overflowed \cup {c}
  /\ stage' = [stage EXCEPT ![p] = "drop"]
  /\ target' = [target EXCEPT ![p] = c]
  /\ UNCHANGED <<connVars, count, todo, writeVars, offered, queue, woken>>

\* The queues after the second select: the oldest frame of that client goes.
BugWithoutOldest(c) ==
  [d \in Conns |-> IF queue[d] = <<>> THEN <<>> ELSE Tail(queue[d])]
WithoutOldest(c) ==
  [queue EXCEPT ![c] = IF @ = <<>> THEN <<>> ELSE Tail(@)]

DropOldest(p) ==
  /\ stage[p] = "drop"
  /\ queue' = WithoutOldest(target[p])
  /\ stage' = [stage EXCEPT ![p] = "retry"]
  /\ UNCHANGED <<connVars, count, todo, target, writeVars, history, woken>>

\* The third select: another pusher may have taken the room meanwhile, and
\* then it is the new frame that is given up.
Retry(p) ==
  /\ stage[p] = "retry"
  /\ queue' = IF HasRoom(target[p]) THEN Enqueued(p, target[p]) ELSE queue
  /\ Served(p, target[p])
  /\ UNCHANGED <<connVars, count, writeVars, overflowed, woken>>

\* handleMsg goes on from PushT to the question whether to wake the phone.
EndPush(p) ==
  /\ stage[p] = "send"
  /\ todo[p] = {}
  /\ stage' = [stage EXCEPT ![p] = IF p \in Events THEN "notify" ELSE "idle"]
  /\ UNCHANGED <<connVars, count, todo, target, writeVars, history, queue, woken>>

Notify(p) ==
  /\ stage[p] = "notify"
  /\ stage' = [stage EXCEPT ![p] = "idle"]
  /\ woken' = IF HasClient THEN woken ELSE woken \cup {Pushing(p)}
  /\ UNCHANGED <<connVars, count, todo, target, writeVars, history, queue>>

-----------------------------------------------------------------------------
(* writeLoop                                                               *)

WriterTakes(c) ==
  /\ writer[c] = "running"
  /\ hand[c] = <<>>
  /\ queue[c] # <<>>
  /\ hand' = [hand EXCEPT ![c] = <<Head(queue[c])>>]
  /\ queue' = [queue EXCEPT ![c] = Tail(@)]
  /\ UNCHANGED <<connVars, pushVars, writer, sent, history, woken>>

WriterSends(c) ==
  /\ writer[c] = "running"
  /\ hand[c] # <<>>
  /\ Attached(c)
  /\ sent' = [sent EXCEPT ![c] = @ \o hand[c]]
  /\ hand' = [hand EXCEPT ![c] = <<>>]
  /\ UNCHANGED <<connVars, pushVars, writer, history, queue, woken>>

WriterEnds(c) ==
  /\ writer' = [writer EXCEPT ![c] = "done"]
  /\ hand' = [hand EXCEPT ![c] = <<>>]
  /\ UNCHANGED <<connVars, pushVars, sent, history, queue, woken>>

\* The attached check, made for every frame and on every ping tick.
BugWriterExits(c) ==
  /\ writer[c] = "running"
  /\ hand[c] # <<>>
  /\ ~Attached(c)
  /\ WriterEnds(c)

WriterExits(c) ==
  /\ writer[c] = "running"
  /\ ~Attached(c)
  /\ WriterEnds(c)

\* A write or a ping fails, or runs into its ten second deadline: the loop
\* returns and leaves the connection in the map.
WriteFails(c) ==
  /\ writer[c] = "running"
  /\ Attached(c)
  /\ WriterEnds(c)

-----------------------------------------------------------------------------
PushStep(p) ==
  \/ DropOldest(p)
  \/ Retry(p)
  \/ EndPush(p)
  \/ Notify(p)
  \/ \E c \in Conns : TrySend(p, c) \/ FoundFull(p, c)

Next ==
  \/ \E c \in Conns :
       \/ Adopt(c) \/ ReadFrame(c) \/ HandlerReturns(c) \/ ReadError(c)
       \/ WriterTakes(c) \/ WriterSends(c) \/ WriterExits(c) \/ WriteFails(c)
  \/ \E p \in Procs : BeginPush(p) \/ PushStep(p)

Spec == Init /\ [][Next]_vars

\* The goroutines that are running keep running; nothing obliges a phone to
\* connect, a frame to arrive, a read to fail or a write to fail.
Fairness ==
  /\ \A p \in Procs : WF_vars(PushStep(p))
  /\ \A c \in Conns :
       /\ WF_vars(HandlerReturns(c))
       /\ WF_vars(WriterTakes(c))
       /\ WF_vars(WriterSends(c))
       /\ WF_vars(WriterExits(c))

FairSpec == Spec /\ Fairness

-----------------------------------------------------------------------------
(* Properties                                                              *)

\* The frames of connection c in the order its phone will have seen them.
Pipeline(c) == sent[c] \o hand[c] \o queue[c]

FramesIn(s) == {s[i] : i \in 1..Len(s)}

InPushOrder(s) ==
  \A i, j \in 1..Len(s) : i < j /\ s[i].by = s[j].by => s[i].n < s[j].n

\* "one slow phone fills and drops from its own queue without touching anybody
\* else's" (hub.go:34): a connection no push ever found full, and whose
\* writeLoop lives, has every frame that was offered to it.
SlowPhoneCostsNobody ==
  \A c \in Conns :
    writer[c] # "done" /\ c \notin overflowed => offered[c] \subseteq FramesIn(Pipeline(c))

\* What one goroutine pushes reaches every phone in the order of the pushes
\* and never twice, whatever was dropped in between (the app applies a message
\* and its later receipt, edit or reaction in the order they come).
SourceOrder == \A c \in Conns : InPushOrder(Pipeline(c))

\* Only the read side detaches, so a connection in the map always has a
\* readLoop that will notice its end (no entry of Hub.clients is orphaned).
AttachedIsRead ==
  \A c \in Conns : Attached(c) <=> reader[c] \in {"reading", "handling"}

\* hub.go:82-86: a push that finds the queue full drops the OLDEST frame and
\* then enqueues; the frame being pushed is not the one that is lost.
NewestIsKept ==
  [][\A p \in Procs :
       stage[p] = "retry" /\ stage'[p] # "retry" =>
         Pushing(p) \in FramesIn(queue'[target[p]])]_vars

\* hub.go:56-58: "if the app is here, the frame it already received is the
\* notification": a wake-up is held back only while some attached phone still
\* has a writeLoop that can carry the frame.
SuppressedOnlyIfCarried ==
  [][\A p \in Events :
       stage[p] = "notify" /\ stage'[p] = "idle" /\ Pushing(p) \notin woken' =>
         \E c \in clients : writer[c] = "running"]_vars

\* The writeLoop of a connection that has gone ends too, although no frame will
\* ever come down its queue again (no goroutine is leaked).
WriterEndsAfterDetach ==
  \A c \in Conns : reader[c] = "done" ~> writer[c] = "done"
=============================================================================
