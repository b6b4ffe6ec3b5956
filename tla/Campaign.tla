------------------------------- MODULE Campaign -------------------------------
(***************************************************************************)
(* One bulk campaign (src/src/campaigns).  A dispatch job writes the       *)
(* audience into the ledger campaign_recipients and queues the rows that   *)
(* are pending; send jobs claim their rows one by one, call the provider   *)
(* and add their outcomes to the counters.  Workers run either kind of job, *)
(* while a person launches, pauses, resumes, cancels and retries.          *)
(*                                                                         *)
(* The audience is frozen at launch; which of it cannot be reached, and    *)
(* which pending rows share a send job, is left open.  So are the attempts *)
(* of a job: one that throws is run again or given up.  Quiet hours put a  *)
(* job back as it was.  The counters of queued and skipped rows are left   *)
(* out.                                                                    *)
(***************************************************************************)
EXTENDS Integers, FiniteSets

CONSTANTS
    Recipients,   \* contacts the frozen predicate selects
    Workers,
    None,
    Faults,       \* which incidents may happen
    MaxIncidents, \* bound on incidents
    MaxEvents     \* bound on requests of the person and incidents together

ASSUME CampaignAssumption ==
    /\ IsFiniteSet(Recipients) /\ Recipients # {}
    /\ IsFiniteSet(Workers)
    /\ None \notin Recipients
    /\ Faults \subseteq {"crash", "mongo", "slow", "lost", "grow"}
    /\ MaxIncidents \in Nat /\ MaxEvents \in Nat

VARIABLES
    \* MongoDB: the campaign
    status,
    sized,        \* stats.audienceSize is set
    stats,        \* stats.sent, stats.failed
    row,          \* the ledger: status of each recipient's row
    \* BullMQ: jobs waiting
    dispatches,
    batches,      \* by the recipients they name
    \* each worker
    pc, job, left, at, done,
    \* the person's request in progress, and the failures it took back
    op, undone,
    requests, incidents,
    \* history
    retried,      \* retryFailed was asked for
    sends         \* how often the provider took a message

campaign == <<status, sized, stats>>
queue == <<dispatches, batches>>
worker == <<pc, job, left, at, done>>
person == <<op, undone, requests, retried>>
vars == <<campaign, row, queue, worker, person, incidents, sends>>

\* A worker between its claim of a row and the write of the outcome.
Holding == {"sending", "accepted", "failing", "putback"}
Pcs == Holding \cup
       {"idle", "writing", "sizing", "recovering", "queueing", "queued",
        "opening", "delivering", "stopping", "aborting", "committing",
        "throwing", "counting", "completing"}
Unfinished == {"pending", "sending"}

TypeOK ==
    /\ status \in {"draft", "scheduled", "sending", "paused", "completed", "cancelled"}
    /\ sized \in BOOLEAN
    /\ stats \in [sent : Int, failed : Int]
    /\ row \in [Recipients -> {"none", "sent", "failed", "skipped"} \cup Unfinished]
    /\ dispatches \in Nat
    /\ batches \in [SUBSET Recipients -> Nat]
    /\ pc \in [Workers -> Pcs]
    /\ job \in [Workers -> SUBSET Recipients]
    /\ left \in [Workers -> SUBSET Recipients]
    /\ at \in [Workers -> Recipients \cup {None}]
    /\ \A w \in Workers : at[w] # None <=> pc[w] \in Holding
    /\ done \in [Workers -> [sent : SUBSET Recipients, failed : SUBSET Recipients]]
    /\ op \in {"none", "launch", "pause", "resume", "cancel", "skip",
               "retry", "reopen", "subtract", "enqueue"}
    /\ undone \in Nat
    /\ requests \in Nat /\ incidents \in 0 .. MaxIncidents
    /\ requests + incidents <= MaxEvents
    /\ retried \in BOOLEAN
    /\ sends \in [Recipients -> Nat]

Nothing == [sent |-> {}, failed |-> {}]

Init ==
    /\ status = "draft" /\ sized = FALSE /\ stats = [sent |-> 0, failed |-> 0]
    /\ row = [r \in Recipients |-> "none"]
    /\ dispatches = 0 /\ batches = [B \in SUBSET Recipients |-> 0]
    /\ pc = [w \in Workers |-> "idle"]
    /\ job = [w \in Workers |-> {}] /\ left = [w \in Workers |-> {}]
    /\ at = [w \in Workers |-> None] /\ done = [w \in Workers |-> Nothing]
    /\ op = "none" /\ undone = 0 /\ requests = 0 /\ incidents = 0
    /\ retried = FALSE /\ sends = [r \in Recipients |-> 0]

Incident(f) ==
    /\ f \in Faults /\ incidents < MaxIncidents /\ requests + incidents < MaxEvents
    /\ incidents' = incidents + 1

\* Worker w goes from one place to another.
Move(w, from, to) == pc[w] = from /\ pc' = [pc EXCEPT ![w] = to]

\* The job is over and the worker forgets it.
Leave(w) ==
    /\ pc' = [pc EXCEPT ![w] = "idle"]
    /\ job' = [job EXCEPT ![w] = {}]
    /\ left' = [left EXCEPT ![w] = {}]
    /\ at' = [at EXCEPT ![w] = None]
    /\ done' = [done EXCEPT ![w] = Nothing]

Status(S) == {r \in Recipients : row[r] \in S}
Held(r) == \E w \in Workers : at[w] = r

\* An update by _id, which finds nothing when the row has been deleted.
Mark(r, s) == row' = IF row[r] = "none" THEN row ELSE [row EXCEPT ![r] = s]

-----------------------------------------------------------------------------
(* A person: CampaignsService.  Each request reads the campaign, checks its  *)
(* status and saves later, whatever the status has become by then.           *)

Editable == {"draft", "scheduled"}
Request(kind, from) ==
    /\ op = "none" /\ requests + incidents < MaxEvents /\ status \in from
    /\ op' = kind /\ requests' = requests + 1
    /\ UNCHANGED <<campaign, row, queue, worker, undone, retried, incidents, sends>>

Ask ==
    \/ Request("launch", Editable)
    \/ Request("pause", {"sending"})
    \/ Request("resume", {"paused"})
    \/ Request("cancel", {"scheduled", "sending", "paused"})
    \/ Request("retry", {"completed", "paused", "cancelled"})

Launch(s) ==
    /\ op = "launch" /\ s \in {"scheduled", "sending"}
    /\ status' = s /\ sized' = FALSE /\ stats' = [sent |-> 0, failed |-> 0]
    /\ op' = IF s = "sending" THEN "enqueue" ELSE "none"
    /\ UNCHANGED <<row, queue, worker, undone, requests, retried, incidents, sends>>

Pause ==
    /\ op = "pause" /\ op' = "none" /\ status' = "paused"
    /\ UNCHANGED <<sized, stats, row, queue, worker, undone, requests, retried, incidents, sends>>

Resume ==
    /\ op = "resume" /\ op' = "enqueue" /\ status' = "sending"
    /\ UNCHANGED <<sized, stats, row, queue, worker, undone, requests, retried, incidents, sends>>

Cancel ==
    /\ op = "cancel" /\ op' = "skip" /\ status' = "cancelled"
    /\ UNCHANGED <<sized, stats, row, queue, worker, undone, requests, retried, incidents, sends>>

SkipOpen ==
    /\ op = "skip" /\ op' = "none"
    /\ row' = [r \in Recipients |-> IF row[r] \in Unfinished THEN "skipped" ELSE row[r]]
    /\ UNCHANGED <<campaign, queue, worker, undone, requests, retried, incidents, sends>>

RetryFailed ==
    /\ op = "retry"
    /\ row' = [r \in Recipients |-> IF row[r] = "failed" THEN "pending" ELSE row[r]]
    /\ undone' = Cardinality(Status({"failed"}))
    /\ op' = IF Status({"failed"}) = {} THEN "none" ELSE "reopen"
    /\ retried' = (retried \/ Status({"failed"}) # {})
    /\ UNCHANGED <<campaign, queue, worker, requests, incidents, sends>>

Reopen ==
    /\ op = "reopen" /\ op' = "subtract" /\ status' = "sending"
    /\ UNCHANGED <<sized, stats, row, queue, worker, undone, requests, retried, incidents, sends>>

\* Mutant: the failures taken back stay in the counter.
SubtractNothing ==
    /\ op = "subtract" /\ op' = "enqueue" /\ undone' = 0
    /\ UNCHANGED <<campaign, row, queue, worker, requests, retried, incidents, sends>>

SubtractFailed ==
    /\ op = "subtract" /\ op' = "enqueue"
    /\ stats' = [stats EXCEPT !.failed = @ - undone] /\ undone' = 0
    /\ UNCHANGED <<status, sized, row, queue, worker, requests, retried, incidents, sends>>

EnqueueDispatch ==
    /\ op = "enqueue" /\ op' = "none"
    /\ dispatches' = dispatches + 1
    /\ UNCHANGED <<campaign, row, batches, worker, undone, requests, retried, incidents, sends>>

\* The API process dies, or MongoDB or Redis refuses the next write.
RequestFails ==
    /\ op # "none" /\ Incident("crash")
    /\ op' = "none" /\ undone' = 0
    /\ UNCHANGED <<campaign, row, queue, worker, requests, retried, sends>>

-----------------------------------------------------------------------------
(* CampaignRunnerService.dispatch *)

TakeDispatch(w) ==
    /\ pc[w] = "idle" /\ dispatches > 0
    /\ dispatches' = dispatches - 1
    /\ IF status # "sending" THEN UNCHANGED <<pc, left>>
       ELSE /\ pc' = [pc EXCEPT ![w] = IF sized THEN "recovering" ELSE "writing"]
            /\ left' = [left EXCEPT ![w] = IF sized THEN {} ELSE Recipients]
    /\ UNCHANGED <<campaign, row, batches, job, at, done, person, incidents, sends>>

\* One upsert of writeRecipients, $setOnInsert only.
Write(w, r, s) ==
    /\ pc[w] = "writing" /\ r \in left[w] /\ s \in {"pending", "skipped"}
    /\ row' = IF row[r] = "none" THEN [row EXCEPT ![r] = s] ELSE row
    /\ left' = [left EXCEPT ![w] = @ \ {r}]
    /\ UNCHANGED <<campaign, queue, pc, job, at, done, person, incidents, sends>>

\* The cursor yields more contacts than CAMPAIGN_MAX_AUDIENCE.
Outgrow(w) ==
    /\ Move(w, "writing", "stopping") /\ Incident("grow")
    /\ row' = [r \in Recipients |-> "none"]
    /\ left' = [left EXCEPT ![w] = {}]
    /\ UNCHANGED <<campaign, queue, job, at, done, person, sends>>

\* The ledger is counted, and the counters are set from what was read.
CountLedger(w) ==
    /\ left[w] = {} /\ Move(w, "writing", "sizing")
    /\ left' = [left EXCEPT ![w] = {r \in Recipients : row[r] # "none"}]
    /\ UNCHANGED <<campaign, row, queue, job, at, done, person, incidents, sends>>

SetSize(w) ==
    /\ Move(w, "sizing", "recovering")
    /\ sized' = (left[w] # {})
    /\ left' = [left EXCEPT ![w] = {}]
    /\ UNCHANGED <<status, stats, row, queue, job, at, done, person, incidents, sends>>

\* recoverStaleClaims: a claim may be stale when its worker is gone, and when
\* its worker is too slow.
Stale(r) == row[r] = "sending" /\ ~Held(r)
RecoverStaleClaims(w) ==
    /\ Move(w, "recovering", "queueing")
    /\ \E S \in SUBSET Status({"sending"}) :
        /\ \/ (\A r \in S : Stale(r)) /\ UNCHANGED incidents
           \/ Incident("slow")
        /\ row' = [r \in Recipients |-> IF r \in S THEN "pending" ELSE row[r]]
    /\ left' = [left EXCEPT ![w] = Recipients]
    /\ UNCHANGED <<campaign, queue, job, at, done, person, sends>>

\* A job for some of the rows that are pending when the cursor reaches them.
EnqueueBatch(w, B) ==
    /\ pc[w] \in {"queueing", "queued"}
    /\ B # {} /\ B \subseteq left[w] \cap Status({"pending"})
    /\ batches' = [batches EXCEPT ![B] = @ + 1]
    /\ pc' = [pc EXCEPT ![w] = "queued"]
    /\ left' = [left EXCEPT ![w] = @ \ B]
    /\ UNCHANGED <<campaign, row, dispatches, job, at, done, person, incidents, sends>>

\* The cursor passes a row that is not pending, and does not come back to it.
Pass(w, r) ==
    /\ pc[w] \in {"queueing", "queued"}
    /\ r \in left[w] \ Status({"pending"})
    /\ left' = [left EXCEPT ![w] = @ \ {r}]
    /\ UNCHANGED <<campaign, row, queue, pc, job, at, done, person, incidents, sends>>

\* Mutant: a dispatch that finds nothing to queue does not finalise.
EndWithoutFinalising(w) ==
    /\ left[w] = {}
    /\ pc[w] \in {"queueing", "queued"} /\ Leave(w)
    /\ UNCHANGED <<campaign, row, queue, person, incidents, sends>>

EndQueueing(w) ==
    /\ left[w] = {}
    /\ \/ Move(w, "queueing", "counting") /\ UNCHANGED <<job, left, at, done>>
       \/ pc[w] = "queued" /\ Leave(w)
    /\ UNCHANGED <<campaign, row, queue, person, incidents, sends>>

-----------------------------------------------------------------------------
(* CampaignRunnerService.sendBatch *)

TakeBatch(w, B) ==
    /\ pc[w] = "idle" /\ batches[B] > 0
    /\ batches' = [batches EXCEPT ![B] = @ - 1]
    /\ IF status # "sending" THEN UNCHANGED <<pc, job, left>>
       ELSE /\ pc' = [pc EXCEPT ![w] = "opening"]
            /\ job' = [job EXCEPT ![w] = B]
            /\ left' = [left EXCEPT ![w] = B]
    /\ UNCHANGED <<campaign, row, dispatches, at, done, person, incidents, sends>>

\* openSession: a configuration or a provider that refuses pauses the campaign.
Open(w) ==
    /\ \/ Move(w, "opening", "delivering") /\ UNCHANGED left
       \/ Move(w, "opening", "stopping") /\ left' = [left EXCEPT ![w] = {}]
    /\ UNCHANGED <<campaign, row, queue, job, at, done, person, incidents, sends>>

\* The status is read again every PAUSE_CHECK_INTERVAL recipients.
StopWhenPaused(w) ==
    /\ left[w] # job[w] /\ status # "sending"
    /\ Move(w, "delivering", "committing")
    /\ left' = [left EXCEPT ![w] = {}]
    /\ UNCHANGED <<campaign, row, queue, job, at, done, person, incidents, sends>>

\* Mutant: a row that is claimed already may be claimed.
ClaimableOpen(r) == row[r] \in Unfinished
Claimable(r) == row[r] = "pending"
Claim(w, r) ==
    /\ pc[w] = "delivering" /\ r \in left[w]
    /\ left' = [left EXCEPT ![w] = @ \ {r}]
    /\ IF Claimable(r)
       THEN /\ row' = [row EXCEPT ![r] = "sending"]
            /\ at' = [at EXCEPT ![w] = r]
            /\ pc' = [pc EXCEPT ![w] = "sending"]
       ELSE UNCHANGED <<row, at, pc>>
    /\ UNCHANGED <<campaign, queue, job, done, person, incidents, sends>>

Accept(w) ==
    /\ \/ Move(w, "sending", "accepted") /\ UNCHANGED incidents
       \/ Move(w, "sending", "failing") /\ Incident("lost")
    /\ sends' = [sends EXCEPT ![at[w]] = @ + 1]
    /\ UNCHANGED <<campaign, row, queue, job, left, at, done, person>>

\* The provider refuses this recipient, or the whole campaign.
Refuse(w) ==
    /\ Move(w, "sending", "failing") \/ Move(w, "sending", "putback")
    /\ UNCHANGED <<campaign, row, queue, job, left, at, done, person, incidents, sends>>

MarkSent(w) ==
    /\ Move(w, "accepted", "delivering")
    /\ Mark(at[w], "sent")
    /\ done' = [done EXCEPT ![w].sent = @ \cup {at[w]}]
    /\ at' = [at EXCEPT ![w] = None]
    /\ UNCHANGED <<campaign, queue, job, left, person, incidents, sends>>

MarkFailed(w) ==
    /\ Move(w, "failing", "delivering")
    /\ Mark(at[w], "failed")
    /\ done' = [done EXCEPT ![w].failed = @ \cup {at[w]}]
    /\ at' = [at EXCEPT ![w] = None]
    /\ UNCHANGED <<campaign, queue, job, left, person, incidents, sends>>

\* Mutant: the batch goes on with the recipient it has put back.
PutBackAndGoOn(w) ==
    /\ Move(w, "putback", "delivering")
    /\ Mark(at[w], "pending")
    /\ UNCHANGED <<campaign, queue, job, left, at, done, person, incidents, sends>>

PutBack(w) ==
    /\ Move(w, "putback", "aborting")
    /\ Mark(at[w], "pending")
    /\ at' = [at EXCEPT ![w] = None]
    /\ left' = [left EXCEPT ![w] = {}]
    /\ UNCHANGED <<campaign, queue, job, done, person, incidents, sends>>

EndBatch(w) ==
    /\ left[w] = {} /\ Move(w, "delivering", "committing")
    /\ UNCHANGED <<campaign, row, queue, job, left, at, done, person, incidents, sends>>

-----------------------------------------------------------------------------
(* The common end of both *)

\* Only a campaign that is sending is paused; a dispatch and a batch without a
\* session end here.
Abort(w) ==
    /\ status' = IF status = "sending" THEN "paused" ELSE status
    /\ \/ Move(w, "aborting", "committing") /\ UNCHANGED <<job, left, at, done>>
       \/ pc[w] = "stopping" /\ Leave(w)
    /\ UNCHANGED <<sized, stats, row, queue, person, incidents, sends>>

CommitOutcome(w) ==
    stats' = [sent |-> stats.sent + Cardinality(done[w].sent),
              failed |-> stats.failed + Cardinality(done[w].failed)]

Commit(w) ==
    /\ Move(w, "committing", "counting")
    /\ CommitOutcome(w)
    /\ done' = [done EXCEPT ![w] = Nothing]
    /\ UNCHANGED <<status, sized, row, queue, job, left, at, person, incidents, sends>>

\* Mutant: rows that are claimed are not counted.
CountPending(w) ==
    /\ \/ Status({"pending"}) = {} /\ Move(w, "counting", "completing")
          /\ UNCHANGED <<job, left, at, done>>
       \/ Status({"pending"}) # {} /\ pc[w] = "counting" /\ Leave(w)
    /\ UNCHANGED <<campaign, row, queue, person, incidents, sends>>

\* finaliseIfDone counts first and writes afterwards.
CountOpen(w) ==
    /\ \/ Status(Unfinished) = {} /\ Move(w, "counting", "completing")
          /\ UNCHANGED <<job, left, at, done>>
       \/ Status(Unfinished) # {} /\ pc[w] = "counting" /\ Leave(w)
    /\ UNCHANGED <<campaign, row, queue, person, incidents, sends>>

Complete(w) ==
    /\ pc[w] = "completing" /\ Leave(w)
    /\ status' = IF status = "sending" THEN "completed" ELSE status
    /\ UNCHANGED <<sized, stats, row, queue, person, incidents, sends>>

-----------------------------------------------------------------------------
(* Failures *)

\* A job that throws, or loses its worker, is run again or has no attempt left.
Return(w) ==
    \/ UNCHANGED queue
    \/ job[w] = {} /\ dispatches' = dispatches + 1 /\ UNCHANGED batches
    \/ job[w] # {} /\ batches' = [batches EXCEPT ![job[w]] = @ + 1] /\ UNCHANGED dispatches

\* A write throws.  After the provider's answer the catch block takes that for
\* a failure of the send; elsewhere in a batch the outcomes so far are kept.
MarkSentFails(w) ==
    /\ Move(w, "accepted", "failing") /\ Incident("mongo")
    /\ UNCHANGED <<campaign, row, queue, job, left, at, done, person, sends>>

BatchFails(w) ==
    /\ pc[w] \in {"delivering", "failing", "putback", "aborting"} /\ Incident("mongo")
    /\ pc' = [pc EXCEPT ![w] = "throwing"]
    /\ left' = [left EXCEPT ![w] = {}] /\ at' = [at EXCEPT ![w] = None]
    /\ UNCHANGED <<campaign, row, queue, job, done, person, sends>>

CommitAndThrow(w) ==
    /\ pc[w] = "throwing" /\ Leave(w) /\ Return(w)
    /\ CommitOutcome(w)
    /\ UNCHANGED <<status, sized, row, person, incidents, sends>>

JobFails(w) ==
    /\ pc[w] \in Pcs \ (Holding \cup {"idle", "delivering", "aborting"})
    /\ Incident("mongo")
    /\ Leave(w) /\ Return(w)
    /\ UNCHANGED <<campaign, row, person, sends>>

Crash(w) ==
    /\ pc[w] # "idle" /\ Incident("crash")
    /\ Leave(w) /\ Return(w)
    /\ UNCHANGED <<campaign, row, person, sends>>

-----------------------------------------------------------------------------
Dispatch(w) ==
    \/ TakeDispatch(w)
    \/ \E r \in Recipients, s \in {"pending", "skipped"} : Write(w, r, s)
    \/ CountLedger(w) \/ SetSize(w) \/ RecoverStaleClaims(w)
    \/ \E B \in SUBSET Recipients : EnqueueBatch(w, B)
    \/ (\E r \in Recipients : Pass(w, r)) \/ EndQueueing(w)

SendBatch(w) ==
    \/ \E B \in SUBSET Recipients : TakeBatch(w, B)
    \/ Open(w) \/ StopWhenPaused(w)
    \/ \E r \in Recipients : Claim(w, r)
    \/ Accept(w) \/ Refuse(w) \/ MarkSent(w) \/ MarkFailed(w) \/ PutBack(w)
    \/ EndBatch(w)

Work(w) ==
    \/ Dispatch(w) \/ SendBatch(w)
    \/ Abort(w) \/ Commit(w) \/ CountOpen(w) \/ Complete(w) \/ CommitAndThrow(w)

Save ==
    \/ \E s \in {"scheduled", "sending"} : Launch(s)
    \/ Pause \/ Resume \/ Cancel \/ SkipOpen
    \/ RetryFailed \/ Reopen \/ SubtractFailed \/ EnqueueDispatch

Fails(w) == Outgrow(w) \/ MarkSentFails(w) \/ BatchFails(w) \/ JobFails(w) \/ Crash(w)

Next ==
    \/ Ask \/ Save \/ RequestFails
    \/ \E w \in Workers : Work(w) \/ Fails(w)

Spec == Init /\ [][Next]_vars

\* While a job waits or is under way some worker goes on, and a request goes on
\* to its end; nobody has to ask for anything.
FairSpec == Spec /\ WF_vars(Save) /\ WF_vars(\E w \in Workers : Work(w))

-----------------------------------------------------------------------------
(* Properties *)

\* Pauses, cancellations, retries, repeated dispatches and repeated jobs never
\* make the provider take a message twice: it takes one more than it should
\* only for each incident.
SentOnce == \A r \in Recipients : sends[r] <= 1 + incidents

\* The counters agree with the ledger, up to outcomes not yet committed and
\* failures a retry has taken back.
StatsAddUp ==
    incidents = 0 =>
        /\ stats.sent + Cardinality({x \in Workers \X Recipients : x[2] \in done[x[1]].sent})
             = Cardinality(Status({"sent"}))
        /\ stats.failed + Cardinality({x \in Workers \X Recipients : x[2] \in done[x[1]].failed})
             = Cardinality(Status({"failed"})) + undone

\* A completed campaign has no recipient left to send to, as long as nobody has
\* asked for the failures to be retried.
CompletedIsDone ==
    status = "completed" /\ ~retried /\ incidents = 0 =>
        \A r \in Recipients : row[r] \in {"sent", "failed", "skipped"}

\* A run ends completed, paused or cancelled.  An incident may leave it sending
\* until somebody pauses and resumes it.
RunEnds == status = "sending" ~> (status # "sending" \/ incidents > 0)

-----------------------------------------------------------------------------
(* Comments of the code that the code does not keep.                         *)

\* `completed` means every recipient reached a terminal state
\* (campaign.schema.ts:26), retries included.
CompletedIsTerminal ==
    status = "completed" /\ op = "none" =>
        \A r \in Recipients : row[r] \in {"sent", "failed", "skipped"}

\* After a cancellation every row is terminal (campaigns.service.ts:425).
CancelledIsTerminal ==
    status = "cancelled" /\ op = "none" =>
        \A r \in Recipients : row[r] \notin Unfinished

=============================================================================
