----------------------------- MODULE Signalling -----------------------------
(***************************************************************************)
(* The media session of a call, from the answer key to the end: the WebRTC *)
(* leg of the daemon (phoneleg.go, startPhoneLeg in calls.go), its frames  *)
(* on the socket, and the phone's half (call.js, the call handlers of      *)
(* app.js).  CallManager has the rest of a call, the handlers of several   *)
(* phones and their interleavings; here there is one phone, its socket     *)
(* stays up, and a call rings only when the one before it is over.         *)
(*                                                                         *)
(* A call has at most one offer, so its leg, the connection the app builds *)
(* for it and the stream of its microphone all go by the call.  Left out   *)
(* are the app's own candidates: the daemon learns the phone's address     *)
(* from the binding requests (call.js:172).                                *)
(***************************************************************************)
EXTENDS Naturals, Sequences, FiniteSets

CONSTANTS
  MaxCalls,   \* bound: calls, numbered in the order in which they ring
  MaxIce,     \* bound: candidates the daemon gathers for a leg
  Follow      \* bound: whether frames and keys are followed once it is not calm

ASSUME BoundAssumption == MaxCalls \in Nat /\ MaxIce \in Nat
ASSUME SwitchAssumption == Follow \in BOOLEAN

Calls == 1..MaxCalls
None == 0
OrNone == Calls \cup {None}
Candidates == [call : Calls, n : 1..MaxIce]

VARIABLES
  far,         \* the call in WhatsApp: "new", "up", "over"
  active, leg, \* Manager.activeCallID, Manager.leg
  legs,        \* PhoneLeg: "none", "open", "failed", "closed"
  answered,    \* the offer whose answer a leg was given
  linked,      \* legs over which media flows
  step, on,    \* the answer under way on the phone's readLoop goroutine
  gathered,    \* candidates of a leg that got past the look at closed
  emitting,    \* legs with one of those still to be sent
  reports,     \* state callbacks pion has started and that have not run
  up, down,    \* frames on the socket
  screen, inCall, status,       \* app.js: activeCall, the in-call screen, "connected"
  callID, pc, haveRemote, pending, localStream,   \* call.js, module variables
  chain, target,                \* handleOffer's promise chain, the pc it waits on
  pcs, described, cands,        \* connections: "none", "open", "closed"; their offer, candidates
  mics,                         \* streams whose tracks are live
  denied,                       \* history: calls that got no microphone
  calm                          \* history: none of what NotCalm names has happened

daemon == <<far, active, leg, legs, answered, linked, step, on>>
pion == <<gathered, emitting, reports>>
ui == <<screen, inCall, status>>
session == <<callID, pc, haveRemote, pending, localStream>>
engine == <<chain, target, pcs, described, cands, mics, denied>>
vars == <<daemon, pion, up, down, ui, session, engine, calm>>

TypeOK ==
  /\ far \in [Calls -> {"new", "up", "over"}]
  /\ {active, leg, screen, callID, pc, localStream, on} \subseteq OrNone
  /\ legs \in [Calls -> {"none", "open", "failed", "closed"}]
  /\ pcs \in [Calls -> {"none", "open", "closed"}]
  /\ {answered, described, target} \subseteq [Calls -> OrNone]
  /\ step \in {"idle", "backend", "start", "offer"}
  /\ gathered \in [Calls -> 0..MaxIce]
  /\ emitting \subseteq Calls /\ linked \subseteq Calls
  /\ mics \subseteq Calls /\ denied \subseteq Calls
  /\ reports \subseteq [kind : {"connected", "ended"}, call : Calls]
  /\ up \in Seq([kind : {"callanswer", "reject", "hangup", "answer"}, call : OrNone, of : OrNone])
  /\ down \in Seq([kind : {"ring", "offer", "ice", "connected", "ended"}, call : Calls, n : 0..MaxIce])
  /\ {inCall, status, haveRemote, calm} \subseteq BOOLEAN
  /\ pending \subseteq Candidates /\ cands \in [Calls -> SUBSET Candidates]
  /\ chain \in [Calls -> {"none", "mic", "remote", "answer", "done", "over"}]

Init ==
  /\ far = [c \in Calls |-> "new"]
  /\ active = None /\ leg = None
  /\ legs = [c \in Calls |-> "none"] /\ pcs = [c \in Calls |-> "none"]
  /\ answered = [c \in Calls |-> None] /\ described = [c \in Calls |-> None]
  /\ linked = {} /\ step = "idle" /\ on = None
  /\ gathered = [c \in Calls |-> 0] /\ emitting = {} /\ reports = {}
  /\ up = <<>> /\ down = <<>>
  /\ screen = None /\ inCall = FALSE /\ status = FALSE
  /\ callID = None /\ pc = None /\ haveRemote = FALSE /\ pending = {} /\ localStream = None
  /\ chain = [c \in Calls |-> "none"] /\ target = [c \in Calls |-> None]
  /\ cands = [c \in Calls |-> {}]
  /\ mics = {} /\ denied = {} /\ calm = TRUE

-----------------------------------------------------------------------------
Frame(kind, c) == [kind |-> kind, call |-> c, n |-> 0]
Pushes(kind, c) == down' = Append(down, Frame(kind, c))
NotCalm(wild) == calm' = (calm /\ ~wild)
Followed == calm \/ Follow

(* The daemon                                                              *)

\* NotifyIncoming
Rings(c) ==
  /\ Followed
  /\ far[c] = "new" /\ \A d \in Calls : IF d < c THEN far[d] = "over" ELSE far[d] = "new"
  /\ far' = [far EXCEPT ![c] = "up"]
  /\ active' = c
  /\ Pushes("ring", c)
  /\ UNCHANGED <<leg, legs, answered, linked, step, on, pion, up, ui, session, engine, calm>>

\* endCall: what the Manager holds goes, and the leg is closed; pion reports
\* that in a goroutine of its own.
EndCall ==
  /\ active' = None /\ leg' = None
  /\ legs' = [c \in Calls |-> IF c = leg THEN "closed" ELSE legs[c]]
  /\ linked' = linked \ {leg}
  /\ reports' = reports \cup {[kind |-> "ended", call |-> c] : c \in Calls \cap {leg}}

\* NotifyEnded: the far end hung up, before the answer or during the call.
FarEndHangsUp(c) ==
  /\ far[c] = "up" /\ c = active
  /\ far' = [far EXCEPT ![c] = "over"]
  /\ EndCall
  /\ Pushes("ended", c)
  /\ NotCalm(step # "idle")
  /\ UNCHANGED <<answered, step, on, gathered, emitting, up, ui, session, engine>>

Takes(kinds) ==
  /\ Followed /\ step = "idle" /\ up # <<>> /\ Head(up).kind \in kinds
  /\ up' = Tail(up)

\* HandleAppFrame: answer and its Backend.Answer.  The frame's id is not read.
TakeAnswer ==
  /\ Takes({"callanswer"})
  /\ IF active = None THEN UNCHANGED <<step, on>> ELSE step' = "backend" /\ on' = active
  /\ NotCalm(active \notin {None, Head(up).call})
  /\ UNCHANGED <<far, active, leg, legs, answered, linked, pion, down, ui, session, engine>>

BugAnswerFails ==
  /\ step = "backend"
  /\ step' = "idle" /\ on' = None
  /\ UNCHANGED <<far, active, leg, legs, answered, linked, pion, up, down, ui, session, engine, calm>>

\* No media backend, or no leg: the phone is told, and the call stays active.
AnswerFails ==
  /\ step = "backend"
  /\ step' = "idle" /\ on' = None
  /\ Pushes("ended", on)
  /\ UNCHANGED <<far, active, leg, legs, answered, linked, pion, up, ui, session, engine, calm>>

\* startPhoneLeg up to SetLocalDescription, which sets pion gathering.
StartPhoneLeg ==
  /\ step = "backend"
  /\ legs' = [legs EXCEPT ![on] = "open"] /\ leg' = on
  /\ step' = "start"
  /\ UNCHANGED <<far, active, answered, linked, on, pion, up, down, ui, session, engine, calm>>

\* emit, for the offer: the look at closed, and the push after it.
EmitLooks ==
  /\ step = "start"
  /\ IF legs[on] # "closed" THEN step' = "offer" /\ UNCHANGED on ELSE step' = "idle" /\ on' = None
  /\ UNCHANGED <<far, active, leg, legs, answered, linked, pion, up, down, ui, session, engine, calm>>

EmitOffer ==
  /\ step = "offer"
  /\ Pushes("offer", on)
  /\ step' = "idle" /\ on' = None
  /\ UNCHANGED <<far, active, leg, legs, answered, linked, pion, up, ui, session, engine, calm>>

\* OnICECandidate, on pion's goroutine: emit looks at closed, then sends.
Gather(c) ==
  /\ legs[c] \in {"open", "failed"} /\ c \notin emitting /\ gathered[c] < MaxIce
  /\ gathered' = [gathered EXCEPT ![c] = @ + 1]
  /\ emitting' = emitting \cup {c}
  /\ UNCHANGED <<daemon, reports, up, down, ui, session, engine, calm>>

EmitCandidate(c) ==
  /\ c \in emitting
  /\ emitting' = emitting \ {c}
  /\ down' = Append(down, [kind |-> "ice", call |-> c, n |-> gathered[c]])
  /\ UNCHANGED <<daemon, gathered, reports, up, ui, session, engine, calm>>

\* HandleSignal: an answer goes to the leg there is now.  A leg takes one, a
\* second is an error that is logged.
HandleSignal ==
  /\ Takes({"answer"})
  /\ answered' = [c \in Calls |-> IF c = leg /\ answered[c] = None THEN Head(up).of ELSE answered[c]]
  /\ UNCHANGED <<far, active, leg, legs, linked, step, on, pion, down, ui, session, engine, calm>>

\* A decline or a hangup, of the call that is active now.
TakeEnd ==
  /\ Takes({"reject", "hangup"})
  /\ IF active = None
     THEN UNCHANGED <<far, active, leg, legs, linked, reports>>
     ELSE far' = [far EXCEPT ![active] = "over"] /\ EndCall
  /\ NotCalm(active \notin {None, Head(up).call})
  /\ UNCHANGED <<answered, step, on, gathered, emitting, down, ui, session, engine>>

\* ICE finds a pair: the app has answered this leg, and knows a candidate of it.
Connects(c) ==
  /\ legs[c] = "open" /\ c \notin linked /\ answered[c] = c
  /\ pcs[c] = "open" /\ \E k \in cands[c] : k.call = c
  /\ linked' = linked \cup {c}
  /\ reports' = reports \cup {[kind |-> "connected", call |-> c]}
  /\ UNCHANGED <<far, active, leg, legs, answered, step, on, gathered, emitting, up, down, ui, session, engine, calm>>

\* The link between the two is lost; the leg stays with the Manager.
Drops(c) ==
  /\ c \in linked
  /\ linked' = linked \ {c}
  /\ legs' = [legs EXCEPT ![c] = "failed"]
  /\ reports' = reports \cup {[kind |-> "ended", call |-> c]}
  /\ UNCHANGED <<far, active, leg, answered, step, on, gathered, emitting, up, down, ui, session, engine, calm>>

\* A callback given to OnState runs.
Reports(r) ==
  /\ r \in reports
  /\ reports' = reports \ {r}
  /\ Pushes(r.kind, r.call)
  /\ UNCHANGED <<daemon, gathered, emitting, up, ui, session, engine, calm>>

-----------------------------------------------------------------------------
(* call.js                                                                 *)

Begin(c) == callID' = c /\ pending' = {} /\ haveRemote' = FALSE

\* Call.end: what localStream and pc hold goes.  A prompt for the microphone
\* that is still open stays open.
EndMedia ==
  /\ mics' = mics \ {localStream} /\ localStream' = None
  /\ pcs' = [c \in Calls |-> IF c = pc THEN "closed" ELSE pcs[c]] /\ pc' = None
  /\ callID' = None /\ pending' = {} /\ haveRemote' = FALSE
  /\ UNCHANGED <<chain, target, described, cands, denied>>

PromptIsOpen == \E c \in Calls : chain[c] = "mic"

Hears(kind) == Followed /\ down # <<>> /\ Head(down).kind = kind /\ down' = Tail(down)
Heard == Head(down).call

\* signal: only the call it knows; with none, any call becomes that one.
Concerns == callID \in {None, Heard} /\ callID' = Heard

OtherCall == callID \notin {None, Heard} /\ UNCHANGED <<callID, pc, pending, chain, pcs, cands>>

\* handleOffer: build, and ask for the microphone.  A connection there is
\* already is not closed.
BugHearOffer ==
  /\ Hears("offer")
  /\ \/ OtherCall
     \/ /\ Concerns
        /\ pc' = Heard
        /\ pcs' = [pcs EXCEPT ![Heard] = "open"]
        /\ chain' = [chain EXCEPT ![Heard] = "mic"]
        /\ pending' = {}
        /\ UNCHANGED cands
  /\ UNCHANGED <<daemon, pion, up, ui, haveRemote, localStream, target, described, mics, denied, calm>>

HearOffer ==
  /\ Hears("offer")
  /\ \/ OtherCall
     \/ /\ Concerns
        /\ pc' = Heard
        /\ pcs' = [pcs EXCEPT ![Heard] = "open"]
        /\ chain' = [chain EXCEPT ![Heard] = "mic"]
        /\ UNCHANGED <<pending, cands>>
  /\ UNCHANGED <<daemon, pion, up, ui, haveRemote, localStream, target, described, mics, denied, calm>>

Gives(p, ks) == cands' = [c \in Calls |-> IF c = p THEN cands[c] \cup ks ELSE cands[c]]

HearIce ==
  /\ Hears("ice")
  /\ \/ OtherCall
     \/ /\ Concerns
        /\ LET k == [call |-> Heard, n |-> Head(down).n] IN
           \/ (haveRemote /\ pc # None) /\ Gives(pc, {k}) /\ UNCHANGED pending
           \/ ~(haveRemote /\ pc # None) /\ pending' = pending \cup {k} /\ UNCHANGED cands
        /\ UNCHANGED <<pc, chain, pcs>>
  /\ UNCHANGED <<daemon, pion, up, ui, haveRemote, localStream, target, described, mics, denied, calm>>

\* The first then: the stream goes to localStream and to pc, whichever call
\* they are for now; with no pc, addLocal throws.
MicGranted(c) ==
  /\ chain[c] = "mic"
  /\ localStream' = c /\ mics' = mics \cup {c}
  /\ chain' = [chain EXCEPT ![c] = IF pc = None THEN "over" ELSE "remote"]
  /\ target' = [target EXCEPT ![c] = pc]
  /\ UNCHANGED <<daemon, pion, up, down, ui, callID, pc, haveRemote, pending, pcs, described, cands, denied, calm>>

\* Refused twice: "failed" is emitted, and nobody listens.
MicRefused(c) ==
  /\ chain[c] = "mic"
  /\ chain' = [chain EXCEPT ![c] = "over"]
  /\ denied' = denied \cup {c}
  /\ UNCHANGED <<daemon, pion, up, down, ui, session, target, pcs, described, cands, mics, calm>>

Open(c) == target[c] # None /\ pcs[target[c]] = "open"

\* setRemoteDescription is done: what was pending goes to pc.  On a connection
\* that was closed meanwhile it never is.
RemoteIsSet(c) ==
  /\ chain[c] = "remote" /\ Open(c)
  /\ described' = [described EXCEPT ![target[c]] = c]
  /\ haveRemote' = TRUE
  /\ Gives(pc, pending) /\ pending' = {}
  /\ chain' = [chain EXCEPT ![c] = IF pc = None THEN "over" ELSE "answer"]
  /\ target' = [target EXCEPT ![c] = pc]
  /\ UNCHANGED <<daemon, pion, up, down, ui, callID, pc, localStream, pcs, mics, denied, calm>>

\* createAnswer and setLocalDescription are done.
AnswerIsSent(c) ==
  /\ chain[c] = "answer" /\ Open(c)
  /\ chain' = [chain EXCEPT ![c] = "done"]
  /\ up' = Append(up, [kind |-> "answer", call |-> callID, of |-> described[target[c]]])
  /\ UNCHANGED <<daemon, pion, down, ui, session, target, pcs, described, cands, mics, denied, calm>>

-----------------------------------------------------------------------------
(* app.js                                                                  *)

\* showIncomingCall
HearRing ==
  /\ Hears("ring")
  /\ screen' = Heard /\ inCall' = FALSE
  /\ UNCHANGED <<daemon, pion, up, status, session, engine, calm>>

\* CALLSTATE reads the state and not the call.
HearConnected ==
  /\ Hears("connected")
  /\ status' = TRUE
  /\ UNCHANGED <<daemon, pion, up, screen, inCall, session, engine, calm>>

BugHearEnded ==
  /\ Hears("ended")
  /\ screen' = None /\ inCall' = FALSE
  /\ NotCalm(PromptIsOpen \/ screen \notin {None, Heard})
  /\ UNCHANGED <<daemon, pion, up, status, session, engine>>

HearEnded ==
  /\ Hears("ended")
  /\ EndMedia
  /\ screen' = None /\ inCall' = FALSE
  /\ NotCalm(PromptIsOpen \/ screen \notin {None, Heard})
  /\ UNCHANGED <<daemon, pion, up, status>>

Sends(kind) == Followed /\ up' = Append(up, [kind |-> kind, call |-> screen, of |-> None])

\* The session is armed before the daemon is told.
BugAnswerCall ==
  /\ screen # None /\ ~inCall
  /\ callID' = screen /\ UNCHANGED <<pending, haveRemote>>
  /\ Sends("callanswer")
  /\ inCall' = TRUE /\ status' = FALSE
  /\ NotCalm(pc # None)
  /\ UNCHANGED <<daemon, pion, down, screen, pc, localStream, engine>>

AnswerCall ==
  /\ screen # None /\ ~inCall
  /\ Begin(screen)
  /\ Sends("callanswer")
  /\ inCall' = TRUE /\ status' = FALSE
  /\ NotCalm(pc # None)
  /\ UNCHANGED <<daemon, pion, down, screen, pc, localStream, engine>>

\* rejectCall and hangUp
EndKey ==
  /\ screen # None
  /\ Sends(IF inCall THEN "hangup" ELSE "reject")
  /\ EndMedia
  /\ screen' = None /\ inCall' = FALSE
  /\ NotCalm(PromptIsOpen)
  /\ UNCHANGED <<daemon, pion, down, status>>

-----------------------------------------------------------------------------
DaemonStep == TakeAnswer \/ AnswerFails \/ StartPhoneLeg \/ EmitLooks \/ EmitOffer \/ HandleSignal \/ TakeEnd
Hear == HearOffer \/ HearIce \/ HearRing \/ HearConnected \/ HearEnded
Chain(c) == MicGranted(c) \/ MicRefused(c) \/ RemoteIsSet(c) \/ AnswerIsSent(c)

Next ==
  \/ DaemonStep \/ Hear \/ AnswerCall \/ EndKey
  \/ \E c \in Calls :
       \/ Rings(c) \/ FarEndHangsUp(c) \/ Drops(c)
       \/ Gather(c) \/ EmitCandidate(c) \/ Connects(c) \/ Chain(c)
  \/ \E r \in reports : Reports(r)

Spec == Init /\ [][Next]_vars

\* Goroutines, promises and the socket go on; a prompt is answered one way or
\* the other.  Nobody is obliged to ring, to press a key or to hang up.
Fairness ==
  /\ WF_vars(DaemonStep) /\ WF_vars(Hear)
  /\ \A c \in Calls :
       /\ WF_vars(Gather(c)) /\ WF_vars(EmitCandidate(c)) /\ WF_vars(Connects(c)) /\ WF_vars(Chain(c))
       /\ \A kind \in {"connected", "ended"} : WF_vars(Reports([kind |-> kind, call |-> c]))

FairSpec == Spec /\ Fairness

-----------------------------------------------------------------------------
(* Properties                                                              *)

\* Late frames of a call that is over do not tear into the next one
\* (call_test.js:185): whatever of the first is still under way when the second
\* is answered, its connection is described by its own offer, given its own
\* candidates, and the daemon's leg by the answer to its own offer.
SessionsDoNotMix ==
  calm => \A c \in Calls :
    /\ described[c] \in {None, c} /\ answered[c] \in {None, c}
    /\ \A k \in cands[c] : k.call = c

OnTheWay(c) == {down[i].n : i \in {j \in DOMAIN down : down[j].kind = "ice" /\ down[j].call = c}}
                 \cup (IF c \in emitting THEN {gathered[c]} ELSE {})

\* No candidate of the call the user is in is lost, whether it comes before the
\* offer, while the prompt is open or after the description is set: the
\* connection has it, or it is queued, or on its way (call_test.js:163, "Losing
\* them costs the fastest route and sometimes the whole connection").
NoCandidateIsLost ==
  calm /\ inCall /\ pc = screen =>
    \A n \in 1..gathered[screen] :
      n \in OnTheWay(screen) \/ [call |-> screen, n |-> n] \in cands[screen] \cup pending

\* A call that is answered gets through: media flows and the screen says so, or
\* the call ends, unless the microphone was refused.
AnsweredGetsThrough ==
  \A c \in Calls :
    inCall /\ screen = c ~> (c \in linked /\ status) \/ ~inCall \/ screen # c \/ c \in denied \/ ~calm

\* "Ending a call has to stop the microphone" (call_test.js:230): also when the
\* offer comes after the hang-up and opens the session again, whoever ended the
\* call, it does not stay on with no call on the screen.
MicGoesOff == mics # {} /\ ~inCall ~> mics = {} \/ inCall \/ ~calm

\* What the test at call_test.js:230 says of every end, prompt or not: it does
\* not hold, a stream granted after the end belongs to nobody.
MicStopsWithTheCall == mics # {} /\ screen = None ~> mics = {} \/ screen # None

=============================================================================
