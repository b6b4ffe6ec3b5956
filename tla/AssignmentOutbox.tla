--------------------------- MODULE AssignmentOutbox ---------------------------
(***************************************************************************)
(* AssignmentOutboxPublisherService.publishPending                         *)
(* (src/src/assignment/application): the cron that hands the events of     *)
(* assignment_outbox_events to their listeners.  A run reads a batch of    *)
(* pending and stale rows, claims each by a compare-and-set on the row it  *)
(* has read, emits it and writes the outcome.  The cron ticks every five   *)
(* seconds on every replica and does not wait for the run before, so runs  *)
(* overlap.                                                                *)
(***************************************************************************)
EXTENDS Naturals

CONSTANTS
    Events,       \* rows of the outbox
    Publishers,   \* concurrent runs of publishPending
    MaxRetries,   \* MAX_RETRIES
    Faults,       \* which failures may happen: subset of {"crash", "mongo", "slow"}
    MaxIncidents, \* bound: crashes, failed writes, and live runs taken for dead
    None

ASSUME OutboxAssumption ==
    /\ MaxRetries \in Nat \ {0}
    /\ Faults \subseteq {"crash", "mongo", "slow"}
    /\ MaxIncidents \in Nat
    /\ None \notin Events

VARIABLES
    status,    \* of each row; "absent" before its transaction commits
    retries,   \* retryCount of each row
    delivered, \* history: events whose listeners have all run
    batch,     \* candidates a run has read and not yet tried
    pc,        \* where each run is with the row it has claimed
    claimed,   \* the row, as the claim returned it
    seen,      \* its retryCount then
    incidents

table == <<status, retries>>
local == <<batch, pc, claimed, seen>>
vars == <<table, delivered, local, incidents>>

Statuses == {"absent", "pending", "publishing", "published", "failed"}
Row == [ev : Events, status : {"pending", "publishing"}, retries : 0 .. MaxRetries - 1]

TypeOK ==
    /\ status \in [Events -> Statuses]
    /\ retries \in [Events -> 0 .. MaxRetries]
    /\ delivered \subseteq Events
    /\ batch \in [Publishers -> SUBSET Row]
    /\ pc \in [Publishers -> {"idle", "emit", "confirm", "reject"}]
    /\ claimed \in [Publishers -> Events \cup {None}]
    /\ seen \in [Publishers -> 0 .. MaxRetries - 1]
    /\ \A p \in Publishers : pc[p] # "idle" => claimed[p] \in Events
    /\ incidents \in 0 .. MaxIncidents

Init ==
    /\ status = [e \in Events |-> "absent"]
    /\ retries = [e \in Events |-> 0]
    /\ delivered = {}
    /\ batch = [p \in Publishers |-> {}]
    /\ pc = [p \in Publishers |-> "idle"]
    /\ claimed = [p \in Publishers |-> None]
    /\ seen = [p \in Publishers |-> 0]
    /\ incidents = 0

At(p, l) == pc[p] = l
Goto(p, l) == pc' = [pc EXCEPT ![p] = l]

Incident(kind) ==
    /\ kind \in Faults /\ incidents < MaxIncidents
    /\ incidents' = incidents + 1

\* A transaction commits the row: a decision, or the escalation of a queue item.
Capture(e) ==
    /\ status[e] = "absent"
    /\ status' = [status EXCEPT ![e] = "pending"]
    /\ UNCHANGED <<retries, delivered, local, incidents>>

\* A run works on the row.
InHand(e) == \E p \in Publishers : ~At(p, "idle") /\ claimed[p] = e

\* Mutant: only rows nobody has claimed are read.
NeverStale(e) == FALSE

\* status 'publishing' and updatedAt over two minutes ago: nobody works on it.
Stale(e) == status[e] = "publishing" /\ ~InHand(e)

RowOf(e) == [ev |-> e, status |-> status[e], retries |-> retries[e]]

\* Mutant: the query forgets retryCount < MAX_RETRIES.
DueOverBudget == {e \in Events : status[e] = "pending" \/ Stale(e)}

\* The query.  A batch smaller than what is due stands for limit(100); with
\* "slow", rows that live runs still work on have become stale as well.
Due == {e \in Events : (status[e] = "pending" \/ Stale(e)) /\ retries[e] < MaxRetries}
Overdue == {e \in Events : status[e] = "publishing" /\ retries[e] < MaxRetries}

Scan(p) ==
    /\ At(p, "idle") /\ batch[p] = {}
    /\ \/ /\ Due # {}
          /\ batch' = [batch EXCEPT ![p] = {RowOf(e) : e \in Due}]
          /\ UNCHANGED incidents
       \/ /\ Overdue # {} /\ Incident("slow")
          /\ batch' = [batch EXCEPT ![p] = {RowOf(e) : e \in Due \cup Overdue}]
    /\ UNCHANGED <<table, delivered, pc, claimed, seen>>

\* findOneAndUpdate({ _id, status, retryCount }, publishing): the row must be as
\* the query found it.  A stale row looks the same after it was claimed.
Claim(p, r) ==
    /\ At(p, "idle") /\ r \in batch[p]
    /\ batch' = [batch EXCEPT ![p] = @ \ {r}]
    /\ IF r = RowOf(r.ev)
       THEN /\ status' = [status EXCEPT ![r.ev] = "publishing"]
            /\ Goto(p, "emit")
            /\ claimed' = [claimed EXCEPT ![p] = r.ev]
            /\ seen' = [seen EXCEPT ![p] = r.retries]
       ELSE UNCHANGED <<status, pc, claimed, seen>>
    /\ UNCHANGED <<retries, delivered, incidents>>

\* Mutant: emit() instead of emitAsync(): nobody waits for the listeners.
EmitWithoutWaiting(p) ==
    /\ At(p, "emit")
    /\ Goto(p, "confirm")
    /\ UNCHANGED <<table, batch, claimed, seen, incidents, delivered>>

\* emitAsync resolves: every listener has finished.  Nest's wrapper of @OnEvent
\* logs and swallows what a listener throws, so this is the normal end.
Emit(p) ==
    /\ At(p, "emit")
    /\ delivered' = delivered \cup {claimed[p]}
    /\ Goto(p, "confirm")
    /\ UNCHANGED <<table, batch, claimed, seen, incidents>>

\* emitAsync rejects: a listener that is not wrapped, or does not suppress
\* errors, throws.
EmitFails(p) ==
    /\ At(p, "emit")
    /\ Goto(p, "reject")
    /\ UNCHANGED <<table, delivered, batch, claimed, seen, incidents>>

Done(p) ==
    /\ Goto(p, "idle")
    /\ claimed' = [claimed EXCEPT ![p] = None]
    /\ seen' = [seen EXCEPT ![p] = 0]

\* updateOne({ _id, status: 'publishing' }, published).
Confirm(p) ==
    /\ At(p, "confirm")
    /\ status' = IF status[claimed[p]] = "publishing"
                 THEN [status EXCEPT ![claimed[p]] = "published"] ELSE status
    /\ Done(p)
    /\ UNCHANGED <<retries, delivered, batch, incidents>>

\* That write throws: it is inside the try, so the event counts as not published.
ConfirmFails(p) ==
    /\ At(p, "confirm") /\ Incident("mongo")
    /\ Goto(p, "reject")
    /\ UNCHANGED <<table, delivered, batch, claimed, seen>>

\* Mutant: the attempts never run out.
NeverLast(n) == FALSE

\* nextRetry >= MAX_RETRIES, from the count the claim returned.
LastAttempt(n) == n + 1 >= MaxRetries

\* catch: updateOne({ _id, status: 'publishing' }, pending or failed, $inc).
Reject(p) ==
    /\ At(p, "reject")
    /\ LET e == claimed[p] IN
         IF status[e] = "publishing"
         THEN /\ status' = [status EXCEPT ![e] = IF LastAttempt(seen[p]) THEN "failed" ELSE "pending"]
              /\ retries' = [retries EXCEPT ![e] = @ + 1]
         ELSE UNCHANGED table
    /\ Done(p)
    /\ UNCHANGED <<delivered, batch, incidents>>

\* The claim or the write of the failure throws, or the process dies: the run
\* ends and leaves its row in 'publishing'.
Abandon(p) ==
    /\ \/ At(p, "reject") /\ Incident("mongo")
       \/ At(p, "idle") /\ batch[p] # {} /\ Incident("mongo")
       \/ (~At(p, "idle") \/ batch[p] # {}) /\ Incident("crash")
    /\ Done(p)
    /\ batch' = [batch EXCEPT ![p] = {}]
    /\ UNCHANGED <<table, delivered>>

Try(p) == \E r \in batch[p] : Claim(p, r)
Publish(p) == Emit(p) \/ EmitFails(p) \/ Confirm(p) \/ ConfirmFails(p) \/ Reject(p)

Next ==
    \/ \E e \in Events : Capture(e)
    \/ \E p \in Publishers : Scan(p) \/ Try(p) \/ Publish(p) \/ Abandon(p)

Spec == Init /\ [][Next]_vars

\* The cron ticks, a run goes through its batch, listeners and writes settle.
Fairness == \A p \in Publishers : WF_vars(Scan(p)) /\ WF_vars(Try(p)) /\ WF_vars(Publish(p))

FairSpec == Spec /\ Fairness

-----------------------------------------------------------------------------
(* Properties.                                                              *)

\* What the rows promise the listeners.
StateOf(e) ==
    IF status[e] \in {"pending", "publishing"} THEN "owed"
    ELSE IF status[e] = "published" THEN "done"
    ELSE IF status[e] = "failed" THEN "dropped" ELSE "absent"

Promise == INSTANCE Outbox WITH state <- [e \in Events |-> StateOf(e)]

\* The publisher implements the at-least-once promise of Outbox: however runs
\* overlap, crash or lose writes, an event is published only after delivery, and
\* neither 'published' nor 'failed' is ever left.
AtLeastOnce == Promise!Spec

\* An event is written off only when its budget of attempts is used up, also
\* when overlapping runs count on different rows of the same event.
FailedIsExhausted == \A e \in Events : status[e] = "failed" => retries[e] = MaxRetries

\* Pending with no attempt left: the query passes over the row from then on.
Stranded(e) == status[e] = "pending" /\ retries[e] = MaxRetries

\* A row is stranded only by two runs that count on it at the same time: the one
\* that puts it back has claimed it before the other counted its failure.
OverlapStrands ==
    [][\A e \in Events :
         ~Stranded(e) /\ Stranded(e)'
             => \E p \in Publishers : claimed[p] = e /\ seen[p] < retries[e]]_vars

\* Every captured event is published, written off or stranded in the end,
\* although the runs that had it in hand died or could not write.
EventSettles ==
    \A e \in Events :
        status[e] # "absent" ~> status[e] \in {"published", "failed"} \/ Stranded(e)
=============================================================================
