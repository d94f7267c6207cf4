------------------------------ MODULE CallLine ------------------------------
(***************************************************************************)
(* What the call manager promises: one line.  A call rings on a line that  *)
(* is not busy, is answered while it rings, and leaves the line free; what *)
(* has left the line does not come back to it.                             *)
(***************************************************************************)
CONSTANTS Calls, None

VARIABLES state, call

Init == state = "free" /\ call = None

\* An unanswered call gives way to the next one.
Ring(c) == state # "busy" /\ c # call /\ state' = "ringing" /\ call' = c
Answer == state = "ringing" /\ state' = "busy" /\ call' = call
Release == state # "free" /\ state' = "free" /\ call' = None

Next == (\E c \in Calls : Ring(c)) \/ Answer \/ Release
Spec == Init /\ [][Next]_<<state, call>>
=============================================================================
