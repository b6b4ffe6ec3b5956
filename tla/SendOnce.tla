------------------------------ MODULE SendOnce ------------------------------
(***************************************************************************)
(* What the durable delivery promises to whoever asks for a message to be  *)
(* sent: the provider is asked at most once, a request is only put back    *)
(* before that, an ended request keeps its outcome, and no success is      *)
(* recorded or shown that the provider has not confirmed.                  *)
(***************************************************************************)
EXTENDS Integers

CONSTANT Messages

VARIABLES
    state,    \* of the request for each message
    calls,    \* how often the provider was asked
    accepted, \* whether it took the message
    shown     \* messages that are shown as sent

vars == <<state, calls, accepted, shown>>

Init ==
    /\ state = [m \in Messages |-> "none"]
    /\ calls = [m \in Messages |-> 0]
    /\ accepted = [m \in Messages |-> FALSE]
    /\ shown = {}

Become(m, from, to) ==
    /\ state[m] = from /\ state' = [state EXCEPT ![m] = to]
    /\ UNCHANGED <<calls, accepted, shown>>

Request(m) == Become(m, "none", "pending")
Begin(m) == Become(m, "pending", "processing")
PutBack(m) == calls[m] = 0 /\ Become(m, "processing", "pending")
Succeed(m) == accepted[m] /\ Become(m, "processing", "completed")
GiveUp(m) == \E outcome \in {"failed", "unknown"} : Become(m, "processing", outcome)

\* Also after the request has been given up as unknown, by a worker that was
\* only slow.
Call(m, taken) ==
    /\ state[m] \in {"processing", "unknown"} /\ calls[m] = 0
    /\ calls' = [calls EXCEPT ![m] = 1]
    /\ accepted' = [accepted EXCEPT ![m] = taken]
    /\ UNCHANGED <<state, shown>>

Show(m) ==
    /\ accepted[m] /\ shown' = shown \cup {m}
    /\ UNCHANGED <<state, calls, accepted>>

\* A message that is shown as sent may be taken for failed after all.
Hide(m) ==
    /\ shown' = shown \ {m}
    /\ UNCHANGED <<state, calls, accepted>>

Next ==
    \E m \in Messages :
        \/ Request(m) \/ Begin(m) \/ PutBack(m) \/ Succeed(m) \/ GiveUp(m)
        \/ Call(m, TRUE) \/ Call(m, FALSE) \/ Show(m) \/ Hide(m)

Spec == Init /\ [][Next]_vars
=============================================================================
