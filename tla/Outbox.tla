------------------------------- MODULE Outbox -------------------------------
(***************************************************************************)
(* What the outboxes of the application promise their consumers: an event  *)
(* that was captured stays owed until every listener has had it, and it is *)
(* only written off as dropped, never lost.  Delivery is at least once.    *)
(***************************************************************************)

CONSTANT Events

VARIABLES
    state,     \* of each event
    delivered  \* events that were handed to every listener

vars == <<state, delivered>>

States == {"absent", "owed", "done", "dropped"}

TypeOK ==
    /\ state \in [Events -> States]
    /\ delivered \subseteq Events

Init ==
    /\ state = [e \in Events |-> "absent"]
    /\ delivered = {}

Capture(e) ==
    /\ state[e] = "absent"
    /\ state' = [state EXCEPT ![e] = "owed"]
    /\ UNCHANGED delivered

\* Again and again, and even after the event was written off.
Deliver(e) ==
    /\ state[e] # "absent"
    /\ delivered' = delivered \cup {e}
    /\ UNCHANGED state

Settle(e) ==
    /\ state[e] = "owed" /\ e \in delivered
    /\ state' = [state EXCEPT ![e] = "done"]
    /\ UNCHANGED delivered

Drop(e) ==
    /\ state[e] = "owed"
    /\ state' = [state EXCEPT ![e] = "dropped"]
    /\ UNCHANGED delivered

Next == \E e \in Events : Capture(e) \/ Deliver(e) \/ Settle(e) \/ Drop(e)

Spec == Init /\ [][Next]_vars
=============================================================================
