---------------------------- MODULE CallManager ----------------------------
(***************************************************************************)
(* Calls, as the daemon runs them: calls.Manager (calls.go), the join of   *)
(* the two legs (join.go), the WebRTC leg towards the phone (phoneleg.go)  *)
(* and the call screen of the app (app.js) at the other end of the socket. *)
(*                                                                         *)
(* The frames of one phone are handled one after the other on its readLoop *)
(* goroutine, WhatsApp's call events on another goroutine; the mutex of    *)
(* the Manager is held only for a few assignments, so the steps of an      *)
(* answer, a decline and an end interleave at every backend call, every    *)
(* leg operation and every unlock.  What the daemon pushes is on its way   *)
(* to each phone while keys are still pressed on the screen before it, as  *)
(* the keys are on their way to the daemon.                                *)
(*                                                                         *)
(* An answer that gets past the first check is an attempt, numbered from   *)
(* 1; the phone leg, the pump with its stop channel and the WhatsApp audio *)
(* source that it makes are known by that number, and 0 is nil.            *)
(***************************************************************************)
EXTENDS Naturals, Sequences, FiniteSets

CONSTANTS
  Calls,        \* the calls that may ring, each at most once
  TestCalls,    \* those that exist only between daemon and phone
  Phones,       \* attached phones
  WA,           \* whatsmeow's event goroutine
  Debug,        \* the goroutine that serves /debug/call
  None,         \* no call
  MaxAttempts,  \* bound: answers that get past the first check
  MaxWire,      \* bound: frames of one phone on their way to the daemon
  CallWaiting,  \* may a call arrive while another one has the daemon?
  LateHangup    \* may the far end hang up while an answer is under way?

ASSUME CallSetAssumption == TestCalls \subseteq Calls /\ None \notin Calls
ASSUME HandlerAssumption == WA \notin Phones /\ Debug \notin Phones /\ WA # Debug
ASSUME BoundAssumption == MaxAttempts \in Nat /\ MaxWire \in Nat
ASSUME SwitchAssumption == CallWaiting \in BOOLEAN /\ LateHangup \in BOOLEAN

Handlers == Phones \cup {WA, Debug}
Attempts == 1..MaxAttempts
OrNil == 0..MaxAttempts
CallOrNone == Calls \cup {None}
Nothing == [leg |-> 0, stop |-> 0, source |-> 0]

VARIABLES
  active,     \* Manager.activeCallID
  leg,        \* Manager.leg
  stop,       \* Manager.stopPump
  source,     \* Manager.source
  attempts,   \* attempts begun
  callOf,     \* the call each attempt answers
  legs,       \* the WebRTC session of each attempt
  pumps,      \* its 20 ms pump goroutine; stopped once its channel is closed
  srcs,       \* the WhatsApp side of its audio
  closing,    \* closed legs whose "closed" pion has still to report
  pc,         \* where each handler goroutine is
  on,         \* the call it read from activeCallID, or was told about
  at,         \* the attempt it is making
  held,       \* what endCall took out of the Manager, still to be closed
  remote,     \* each call in WhatsApp: "new", "up", "over"
  view,       \* app.js activeCall on each phone
  inCall,     \* whether that phone shows the in-call screen
  wire,       \* its frames on their way to the daemon
  down,       \* the pushes on their way to it: the call that rings, None for "ended"
  replaced    \* an answer was taken while another session stood (history)

manager == <<active, leg, stop, source>>
made == <<attempts, callOf, legs, pumps, srcs, closing>>
jobs == <<pc, on, at, held>>
screens == <<view, inCall>>
vars == <<manager, made, jobs, remote, screens, wire, down, replaced>>

Stages == {"idle", "ring", "backend", "build", "start", "join", "giveup", "decline",
           "swap", "close", "check", "report"}
Keys == {"answer", "reject", "hangup"}

ManagerOK ==
  /\ active \in CallOrNone
  /\ leg \in OrNil /\ stop \in OrNil /\ source \in OrNil

MadeOK ==
  /\ attempts \in OrNil
  /\ callOf \in [Attempts -> CallOrNone]
  /\ legs \in [Attempts -> {"none", "open", "failed", "closed"}]
  /\ pumps \in [Attempts -> {"none", "running", "stopped"}]
  /\ srcs \in [Attempts -> {"none", "open", "closed"}]
  /\ closing \subseteq Attempts

JobsOK ==
  /\ pc \in [Handlers -> Stages]
  /\ on \in [Handlers -> CallOrNone]
  /\ at \in [Handlers -> OrNil]
  /\ held \in [Handlers -> [leg : OrNil, stop : OrNil, source : OrNil]]

PhoneOK ==
  /\ remote \in [Calls -> {"new", "up", "over"}]
  /\ view \in [Phones -> CallOrNone]
  /\ inCall \in [Phones -> BOOLEAN]
  /\ wire \in [Phones -> Seq([key : Keys, call : Calls])]
  /\ down \in [Phones -> Seq(CallOrNone)]
  /\ replaced \in BOOLEAN

TypeOK == ManagerOK /\ MadeOK /\ JobsOK /\ PhoneOK

Init ==
  /\ active = None /\ leg = 0 /\ stop = 0 /\ source = 0
  /\ attempts = 0
  /\ callOf = [a \in Attempts |-> None]
  /\ legs = [a \in Attempts |-> "none"]
  /\ pumps = [a \in Attempts |-> "none"]
  /\ srcs = [a \in Attempts |-> "none"]
  /\ closing = {}
  /\ pc = [h \in Handlers |-> "idle"]
  /\ on = [h \in Handlers |-> None]
  /\ at = [h \in Handlers |-> 0]
  /\ held = [h \in Handlers |-> Nothing]
  /\ remote = [c \in Calls |-> "new"]
  /\ view = [p \in Phones |-> None]
  /\ inCall = [p \in Phones |-> FALSE]
  /\ wire = [p \in Phones |-> <<>>]
  /\ down = [p \in Phones |-> <<>>]
  /\ replaced = FALSE

-----------------------------------------------------------------------------
(* Pushes: the hub puts them on every phone's queue (Hub.tla says how).    *)

Pushes(frame) == down' = [p \in Phones |-> Append(down[p], frame)]

Becomes(h, stage) == pc' = [pc EXCEPT ![h] = stage]
Quiet == \A h \in Handlers : pc[h] = "idle"
Answering(h) == pc[h] \in {"backend", "build", "start", "join", "giveup"}

-----------------------------------------------------------------------------
(* Calls come and go                                                       *)

\* Without call waiting the daemon is at rest; what it has pushed, and the
\* keys pressed, may still be on their way.
MayRing == CallWaiting \/ (Quiet /\ leg = 0 /\ stop = 0 /\ source = 0)

\* The fields are set under the lock; the push comes after it.
Rings(h, c) ==
  /\ pc[h] = "idle"
  /\ remote[c] = "new"
  /\ MayRing
  /\ active' = c
  /\ remote' = [remote EXCEPT ![c] = "up"]
  /\ on' = [on EXCEPT ![h] = c]
  /\ Becomes(h, "ring")
  /\ UNCHANGED <<leg, stop, source, made, at, held, screens, wire, down, replaced>>

NotifyIncoming(c) == c \notin TestCalls /\ Rings(WA, c)
StartTestCall(c) == c \in TestCalls /\ Rings(Debug, c)

PushOffer(h) ==
  /\ pc[h] = "ring"
  /\ Pushes(on[h])
  /\ Becomes(h, "idle")
  /\ UNCHANGED <<manager, made, on, at, held, remote, screens, wire, replaced>>

\* CallTerminate: the far end hung up, or another device took the call.
FarEndHangsUp(c) ==
  /\ c \notin TestCalls
  /\ remote[c] = "up"
  /\ pc[WA] = "idle"
  /\ LateHangup \/ \A p \in Phones : ~Answering(p)
  /\ remote' = [remote EXCEPT ![c] = "over"]
  /\ on' = [on EXCEPT ![WA] = c]
  /\ Becomes(WA, "check")
  /\ UNCHANGED <<manager, made, at, held, screens, wire, down, replaced>>

\* NotifyEnded reads activeCallID and unlocks before it acts on it.
BugCheckEnded ==
  /\ pc[WA] = "check"
  /\ Becomes(WA, "report")
  /\ UNCHANGED <<manager, made, on, at, held, remote, screens, wire, down, replaced>>

CheckEnded ==
  /\ pc[WA] = "check"
  /\ Becomes(WA, IF on[WA] = active THEN "swap" ELSE "report")
  /\ UNCHANGED <<manager, made, on, at, held, remote, screens, wire, down, replaced>>

ReportEnded ==
  /\ pc[WA] = "report"
  /\ Becomes(WA, "idle")
  /\ Pushes(None)
  /\ UNCHANGED <<manager, made, on, at, held, remote, screens, wire, replaced>>

-----------------------------------------------------------------------------
(* The phone                                                               *)

\* showIncomingCall; or the CALLSTATE handler, where "ended" clears activeCall
\* whatever call it names.
HearPush(p) ==
  /\ down[p] # <<>>
  /\ view' = [view EXCEPT ![p] = Head(down[p])]
  /\ inCall' = [inCall EXCEPT ![p] = FALSE]
  /\ down' = [down EXCEPT ![p] = Tail(@)]
  /\ UNCHANGED <<manager, made, jobs, remote, wire, replaced>>

Sends(p, key) == wire' = [wire EXCEPT ![p] = Append(@, [key |-> key, call |-> view[p]])]
MaySend(p) == view[p] # None /\ Len(wire[p]) < MaxWire

PressAnswer(p) ==
  /\ MaySend(p) /\ ~inCall[p]
  /\ Sends(p, "answer")
  /\ inCall' = [inCall EXCEPT ![p] = TRUE]
  /\ UNCHANGED <<manager, made, jobs, remote, view, down, replaced>>

\* The red key: a decline on the ring screen, a hangup on the in-call screen.
PressEnd(p) ==
  /\ MaySend(p)
  /\ Sends(p, IF inCall[p] THEN "hangup" ELSE "reject")
  /\ view' = [view EXCEPT ![p] = None]
  /\ inCall' = [inCall EXCEPT ![p] = FALSE]
  /\ UNCHANGED <<manager, made, jobs, remote, down, replaced>>

\* HandleAppFrame: a frame acts on activeCallID; the id it carries is not read.
Takes(p, keys) ==
  /\ pc[p] = "idle"
  /\ wire[p] # <<>>
  /\ Head(wire[p]).key \in keys
  /\ wire' = [wire EXCEPT ![p] = Tail(@)]

IgnoreFrame(p) ==
  /\ Takes(p, Keys)
  /\ active = None
  /\ UNCHANGED <<manager, made, jobs, remote, screens, down, replaced>>

-----------------------------------------------------------------------------
(* Answering: answer, answerTestCall, answerRealCall, startPhoneLeg        *)

\* What the answer does not look for: a session in the Manager, or one that
\* another answer is making.
SessionStands == leg # 0 \/ stop # 0 \/ source # 0 \/ \E q \in Phones : Answering(q)

TakeAnswer(p) ==
  /\ Takes(p, {"answer"})
  /\ active # None
  /\ attempts < MaxAttempts
  /\ attempts' = attempts + 1
  /\ callOf' = [callOf EXCEPT ![attempts + 1] = active]
  /\ on' = [on EXCEPT ![p] = active]
  /\ at' = [at EXCEPT ![p] = attempts + 1]
  /\ Becomes(p, IF active \in TestCalls THEN "build" ELSE "backend")
  /\ replaced' = (replaced \/ SessionStands)
  /\ UNCHANGED <<manager, legs, pumps, srcs, closing, held, remote, screens, down>>

\* Backend.Answer: only a call it still knows can be answered.
BackendAnswers(p) ==
  /\ pc[p] = "backend"
  /\ remote[on[p]] = "up"
  /\ srcs' = [srcs EXCEPT ![at[p]] = "open"]
  /\ Becomes(p, "build")
  /\ UNCHANGED <<manager, attempts, callOf, legs, pumps, closing, on, at, held, remote,
                 screens, wire, down, replaced>>

BackendRefuses(p) ==
  /\ pc[p] = "backend"
  /\ Becomes(p, "giveup")
  /\ UNCHANGED <<manager, made, on, at, held, remote, screens, wire, down, replaced>>

LegCannotBeBuilt(p) ==
  /\ pc[p] = "build"
  /\ Becomes(p, "giveup")
  /\ UNCHANGED <<manager, made, on, at, held, remote, screens, wire, down, replaced>>

\* An answer that fails closes its source and tells the phones; the call stays
\* the active one.
GivesUp(p) ==
  /\ pc[p] = "giveup"
  /\ srcs' = [srcs EXCEPT ![at[p]] = IF @ = "open" THEN "closed" ELSE @]
  /\ Pushes(None)
  /\ Becomes(p, "idle")
  /\ UNCHANGED <<manager, attempts, callOf, legs, pumps, closing, on, at, held, remote,
                 screens, wire, replaced>>

BuildLeg(p) ==
  /\ pc[p] = "build"
  /\ legs' = [legs EXCEPT ![at[p]] = "open"]
  /\ leg' = at[p]
  /\ Becomes(p, "start")
  /\ UNCHANGED <<active, stop, source, attempts, callOf, pumps, srcs, closing, on, at, held,
                 remote, screens, wire, down, replaced>>

StartLeg(p) ==
  /\ pc[p] = "start"
  /\ Becomes(p, "join")
  /\ UNCHANGED <<manager, made, on, at, held, remote, screens, wire, down, replaced>>

\* PhoneLeg.Close, which may be called more than once; pion reports the end of
\* one that was not closed, on a goroutine of its own.
Closes(a) ==
  /\ legs' = [legs EXCEPT ![a] = "closed"]
  /\ closing' = IF legs[a] \in {"open", "failed"} THEN closing \cup {a} ELSE closing

\* Start fails: the leg is closed and m.leg cleared, whichever leg it holds.
BugLegCannotStart(p) ==
  /\ pc[p] = "start"
  /\ leg' = 0
  /\ Becomes(p, "giveup")
  /\ UNCHANGED <<active, stop, source, made, on, at, held, remote, screens, wire, down, replaced>>

LegCannotStart(p) ==
  /\ pc[p] = "start"
  /\ Closes(at[p])
  /\ leg' = 0
  /\ Becomes(p, "giveup")
  /\ UNCHANGED <<active, stop, source, attempts, callOf, pumps, srcs, on, at, held, remote,
                 screens, wire, down, replaced>>

\* A test call has no source and leaves the field alone.
Join(p) ==
  /\ pc[p] = "join"
  /\ stop' = at[p]
  /\ source' = IF on[p] \in TestCalls THEN source ELSE at[p]
  /\ pumps' = [pumps EXCEPT ![at[p]] = "running"]
  /\ Becomes(p, "idle")
  /\ UNCHANGED <<active, leg, attempts, callOf, legs, srcs, closing, on, at, held, remote,
                 screens, wire, down, replaced>>

\* ICE or DTLS gives up: OnState tells the phones, and nothing else.
LegFails(a) ==
  /\ legs[a] = "open"
  /\ legs' = [legs EXCEPT ![a] = "failed"]
  /\ Pushes(None)
  /\ UNCHANGED <<manager, attempts, callOf, pumps, srcs, closing, jobs, remote, screens, wire,
                 replaced>>

\* The same callback, for a leg the daemon closed.
ReportClosed(a) ==
  /\ a \in closing
  /\ closing' = closing \ {a}
  /\ Pushes(None)
  /\ UNCHANGED <<manager, attempts, callOf, legs, pumps, srcs, jobs, remote, screens, wire,
                 replaced>>

-----------------------------------------------------------------------------
(* Ending: a decline or a hangup, and endCall                              *)

TakeEnd(p) ==
  /\ Takes(p, {"reject", "hangup"})
  /\ active # None
  /\ on' = [on EXCEPT ![p] = active]
  /\ Becomes(p, IF active \in TestCalls THEN "swap" ELSE "decline")
  /\ UNCHANGED <<manager, made, at, held, remote, screens, down, replaced>>

\* Backend.Reject or Hangup returns, with an error or without.
BackendDeclines(p) ==
  /\ pc[p] = "decline"
  /\ remote' = [remote EXCEPT ![on[p]] = "over"]
  /\ Becomes(p, "swap")
  /\ UNCHANGED <<manager, made, on, at, held, screens, wire, down, replaced>>

\* endCall, first half: under the lock, everything is taken.
BugEndSwap(h) ==
  /\ pc[h] = "swap"
  /\ held' = [held EXCEPT ![h] = [leg |-> leg, stop |-> stop, source |-> source]]
  /\ active' = None /\ leg' = 0 /\ stop' = stop /\ source' = 0
  /\ Becomes(h, "close")
  /\ UNCHANGED <<made, on, at, remote, screens, wire, down, replaced>>

BugKeepsCall(h) ==
  /\ pc[h] = "swap"
  /\ held' = [held EXCEPT ![h] = [leg |-> leg, stop |-> stop, source |-> source]]
  /\ active' = active /\ leg' = 0 /\ stop' = 0 /\ source' = 0
  /\ Becomes(h, "close")
  /\ UNCHANGED <<made, on, at, remote, screens, wire, down, replaced>>

EndSwap(h) ==
  /\ pc[h] = "swap"
  /\ held' = [held EXCEPT ![h] = [leg |-> leg, stop |-> stop, source |-> source]]
  /\ active' = None /\ leg' = 0 /\ stop' = 0 /\ source' = 0
  /\ Becomes(h, "close")
  /\ UNCHANGED <<made, on, at, remote, screens, wire, down, replaced>>

\* Second half, after the unlock: stop the pump, close the leg, close the source.
Closed(f, a, s) == IF a = 0 THEN f ELSE [f EXCEPT ![a] = s]

EndClose(h) ==
  /\ pc[h] = "close"
  /\ pumps' = Closed(pumps, held[h].stop, "stopped")
  /\ IF held[h].leg = 0 THEN UNCHANGED <<legs, closing>> ELSE Closes(held[h].leg)
  /\ srcs' = Closed(srcs, held[h].source, "closed")
  /\ held' = [held EXCEPT ![h] = Nothing]
  /\ Becomes(h, IF h = WA THEN "report" ELSE "idle")
  /\ UNCHANGED <<manager, attempts, callOf, on, at, remote, screens, wire, down, replaced>>

-----------------------------------------------------------------------------
AnswerStep(p) ==
  \/ BackendAnswers(p) \/ BackendRefuses(p)
  \/ BuildLeg(p) \/ LegCannotBeBuilt(p)
  \/ StartLeg(p) \/ LegCannotStart(p)
  \/ Join(p) \/ GivesUp(p)

TakeFrame(p) == TakeAnswer(p) \/ TakeEnd(p) \/ IgnoreFrame(p)
EndStep(h) == EndSwap(h) \/ EndClose(h)

Next ==
  \/ \E c \in Calls : NotifyIncoming(c) \/ StartTestCall(c) \/ FarEndHangsUp(c)
  \/ CheckEnded \/ ReportEnded
  \/ \E p \in Phones :
       \/ PressAnswer(p) \/ PressEnd(p) \/ HearPush(p)
       \/ TakeFrame(p) \/ AnswerStep(p) \/ BackendDeclines(p)
  \/ \E h \in Handlers : PushOffer(h) \/ EndStep(h)
  \/ \E a \in Attempts : LegFails(a) \/ ReportClosed(a)

Spec == Init /\ [][Next]_vars

\* Goroutines that can run do, and a backend call returns.  Nobody is obliged
\* to ring, press a key or hang up.
Fairness ==
  /\ WF_vars(CheckEnded) /\ WF_vars(ReportEnded)
  /\ \A p \in Phones :
       WF_vars(TakeFrame(p)) /\ WF_vars(AnswerStep(p)) /\ WF_vars(BackendDeclines(p))
  /\ \A h \in Handlers : WF_vars(PushOffer(h)) /\ WF_vars(EndStep(h))

FairSpec == Spec /\ Fairness

-----------------------------------------------------------------------------
(* Properties                                                              *)

\* endCall closes a stop channel that is still open: it is never closed twice,
\* which would panic the daemon, however many ends race each other
\* (calls.go:345-363; a call can end from either side at the same moment).
NoDoubleClose ==
  \A h \in Handlers :
    held[h].stop # 0 =>
      /\ pumps[held[h].stop] = "running"
      /\ held[h].stop # stop
      /\ \A g \in Handlers \ {h} : held[g].stop # held[h].stop

\* What an attempt made can still be reached to be closed, by endCall through
\* the Manager or by the handler that is working on it: no pump, leg or source
\* is leaked (calls_test.go:123, "A leg left running holds a UDP socket and a
\* goroutine pumping a tone at a phone that stopped listening").
Making(a) == \E p \in Phones : Answering(p) /\ at[p] = a
NothingLeaked ==
  \A a \in Attempts :
    /\ legs[a] \in {"open", "failed"} => leg = a \/ Making(a) \/ \E h \in Handlers : held[h].leg = a
    /\ pumps[a] = "running" => stop = a \/ \E h \in Handlers : held[h].stop = a
    /\ srcs[a] = "open" => source = a \/ Making(a) \/ \E h \in Handlers : held[h].source = a

\* However answers that fail at each of their steps, declines, hangups from both
\* sides and waiting calls race on the four fields (calls.go:223-254, 345-393),
\* nothing is leaked but by the one thing the daemon does not look for: an
\* answer taken while another session stands (calls.go:366-375).
NothingUnreachable == replaced \/ NothingLeaked

\* A session exists only for a call that is there: once an end has come through
\* and every handler is done, nothing is left running (calls.go:155, "The far
\* end going away has to take the WebRTC session with it, or the phone sits in
\* a call with nobody on the other side and no way to tell").
NoSessionWithoutCall ==
  Quiet /\ stop # 0 /\ callOf[stop] \notin TestCalls => remote[callOf[stop]] = "up"

\* A phone that shows a call ringing can answer or decline it: it is the call
\* the daemon would act on (calls.go:146, "The phone now rings. It will reply
\* with TCallAnswer or TCallReject, handled in HandleAppFrame").
RingingStaysAnswerable ==
  \A p \in Phones :
    view[p] # None /\ ~inCall[p] /\ remote[view[p]] = "up" /\ Quiet /\ down[p] = <<>> =>
      active = view[p]

\* A key acts on the call it was pressed for: protocol.go:59, "user pressed red
\* key / declined", declines the call the user saw and no other.
DeclinesTheCallShown ==
  [][\A p \in Phones : TakeEnd(p) => on'[p] = Head(wire[p]).call]_vars

\* The phone that was told the call is over has no session left running for it
\* (calls_test.go:123): a leg that failed is taken down.
FailedLegIsTornDown ==
  \A a \in Attempts : legs[a] = "failed" ~> legs[a] = "closed"

\* The far end hanging up on the active call frees the phone and the daemon:
\* every session of that call stops, unless a second answer has taken the place
\* of one (calls.go:153-158).  This takes one phone: with two, one may decline
\* the call while the answer of the other is made, as in NoSessionWithoutCall.
FarEndEndsSession ==
  \A a \in Attempts : \A c \in Calls \ TestCalls :
    callOf[a] = c /\ pumps[a] = "running" /\ remote[c] = "over"
      ~> pumps[a] = "stopped" \/ replaced

-----------------------------------------------------------------------------
\* The line as the rest of the system sees it (CallLine.tla).  A handler that
\* has answered but not joined yet still counts as ringing.
lineState == IF active = None THEN "free" ELSE IF stop # 0 THEN "busy" ELSE "ringing"

Line == INSTANCE CallLine WITH state <- lineState, call <- active
LineSpec == Line!Spec
=============================================================================
