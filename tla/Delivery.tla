------------------------------ MODULE Delivery ------------------------------
(***************************************************************************)
(* Durable delivery of outbound messages (src/src/omni-outbound).          *)
(*                                                                         *)
(* A caller persists a message in status "sending", upserts its delivery   *)
(* command and adds a queue job whose id is the command's id.  A worker    *)
(* claims the command, prepares, opens an attempt, calls the provider and  *)
(* writes the outcome down.  A cron on every replica recovers commands     *)
(* that were left behind, another one reconciles messages left "sending".  *)
(*                                                                         *)
(* The command exists once per message (unique upsert key), so commands,   *)
(* jobs and attempts are functions of the message.  The queue is BullMQ:   *)
(* its job states are modelled from how the code relies on them.           *)
(***************************************************************************)
EXTENDS Integers

CONSTANTS Messages,      \* outbound messages
          Workers,       \* delivery jobs a cluster can run at a time
          Callers,       \* concurrent API requests
          None,          \* no message, no worker
          MaxAttempts,   \* DELIVERY_MAX_ATTEMPTS
          MaxStalls,     \* BullMQ's maxStalledCount
          MaxIncidents,  \* bound: crashes, failed writes, lookups and adds
          MaxReconciles, \* bound: messages the reconciliation gives up
          MayEvict       \* whether finished jobs are ever evicted from Redis

ASSUME DeliveryAssumption ==
    /\ None \notin Messages \cup Workers
    /\ MaxAttempts \in Nat \ {0}
    /\ MaxStalls \in Nat /\ MaxIncidents \in Nat /\ MaxReconciles \in Nat
    /\ MayEvict \in BOOLEAN

VARIABLES message,    \* status of each OmniMessage
          command,    \* status of each DeliveryCommand
          attempt,    \* status of each message's DeliveryAttempt
          job,        \* state of the BullMQ job of each command
          tries,      \* how often the job's processor threw
          stalls,     \* how often the job was found without a live owner
          owner,      \* the worker that holds the job's lock, if any
          calls,      \* calls of the provider for each message
          accepted,   \* whether the provider took the message
          at, of, err,\* per worker: its place in handle(), message, outcome
          step, for,  \* per caller: its place in queueAgentMessage, message
          scanned,    \* rows recoverPending has read and not yet handled
          reconciled, \* messages failed, their attempts not yet marked
          incidents, reconciles

store   == <<message, command, attempt>>
queue   == <<job, tries, stalls, owner>>
world   == <<calls, accepted>>
workers == <<at, of, err>>
callers == <<step, for>>
crons   == <<scanned, reconciled>>
budget  == <<incidents, reconciles>>
vars    == <<store, queue, world, workers, callers, crons, budget>>

Terminal  == {"completed", "failed", "unknown"}
Finished  == {"completed", "failed"}
Unsent    == {"prepare", "rewind", "start", "dispatch"}
Reporting == {"failAttempt", "failMessage", "failCommand", "complete"}
Projecting == {"projectAttempt", "projectMessage"}

\* One more fault of the environment, as long as the bound allows it.
Incident == incidents < MaxIncidents /\ incidents' = incidents + 1
Smooth   == incidents' = incidents

Init ==
    /\ message = [m \in Messages |-> "none"]
    /\ command = [m \in Messages |-> "none"]
    /\ attempt = [m \in Messages |-> "none"]
    /\ job = [m \in Messages |-> "none"]
    /\ tries = [m \in Messages |-> 0]
    /\ stalls = [m \in Messages |-> 0]
    /\ owner = [m \in Messages |-> None]
    /\ calls = [m \in Messages |-> 0]
    /\ accepted = [m \in Messages |-> FALSE]
    /\ at = [w \in Workers |-> "idle"]
    /\ of = [w \in Workers |-> None]
    /\ err = [w \in Workers |-> "none"]
    /\ step = [c \in Callers |-> "idle"]
    /\ for = [c \in Callers |-> None]
    /\ scanned = {} /\ reconciled = {}
    /\ incidents = 0 /\ reconciles = 0

-----------------------------------------------------------------------------
(* queueAgentMessage and DeliveryCommandService.enqueue *)

CallerAt(c, here, there) == step[c] = here /\ step' = [step EXCEPT ![c] = there]

CallerLeaves(c) ==
    /\ step' = [step EXCEPT ![c] = "idle"]
    /\ for' = [for EXCEPT ![c] = None]

\* A new message: the unique index lets one request persist it.
Send(c, m) ==
    /\ message[m] = "none"
    /\ CallerAt(c, "idle", "upsert")
    /\ for' = [for EXCEPT ![c] = m]
    /\ message' = [message EXCEPT ![m] = "sending"]
    /\ UNCHANGED <<command, attempt, queue, world, workers, crons, budget>>

\* The same idempotency key again: only a message in status "failed" goes on.
Resend(c, m) ==
    /\ message[m] = "failed"
    /\ CallerAt(c, "idle", "reset")
    /\ for' = [for EXCEPT ![c] = m]
    /\ UNCHANGED <<store, queue, world, workers, crons, budget>>

\* updateStatus(message.id, 'sending') looks at nothing.
Reset(c) ==
    /\ CallerAt(c, "reset", "upsert")
    /\ message' = [message EXCEPT ![for[c]] = "sending"]
    /\ UNCHANGED <<command, attempt, queue, world, workers, for, crons, budget>>

\* The upsert leaves an existing command as it is ($setOnInsert).
Inserted(m) == IF command[m] = "none" THEN "pending" ELSE command[m]

Upsert(c) ==
    /\ CallerAt(c, "upsert", "add")
    /\ command' = [command EXCEPT ![for[c]] = Inserted(for[c])]
    /\ UNCHANGED <<message, attempt, queue, world, workers, for, crons, budget>>

\* queue.add with a job id Redis still knows, in whatever state, adds nothing.
AddJob(m) ==
    IF job[m] = "none"
    THEN /\ job' = [job EXCEPT ![m] = "waiting"]
         /\ tries' = [tries EXCEPT ![m] = 0]
         /\ stalls' = [stalls EXCEPT ![m] = 0]
         /\ UNCHANGED owner
    ELSE UNCHANGED queue

Add(c) ==
    /\ step[c] = "add"
    /\ AddJob(for[c])
    /\ CallerLeaves(c)
    /\ UNCHANGED <<store, world, workers, crons, budget>>

\* Redis refuses the job (deferred: true), a write throws, or the API dies.
CallerFails(c) ==
    /\ step[c] # "idle" /\ Incident
    /\ CallerLeaves(c)
    /\ UNCHANGED <<store, queue, world, workers, crons, reconciles>>

-----------------------------------------------------------------------------
(* DeliveryProcessor.handle *)

Move(w, here, there) == at[w] = here /\ at' = [at EXCEPT ![w] = there]

Leave(w) ==
    /\ at' = [at EXCEPT ![w] = "idle"]
    /\ of' = [of EXCEPT ![w] = None]
    /\ err' = [err EXCEPT ![w] = "none"]

\* BullMQ hands a waiting job to a worker, which holds its lock from then on.
Take(w, m) ==
    /\ job[m] = "waiting"
    /\ Move(w, "idle", "claim")
    /\ of' = [of EXCEPT ![w] = m]
    /\ job' = [job EXCEPT ![m] = "active"]
    /\ owner' = [owner EXCEPT ![m] = w]
    /\ UNCHANGED <<store, tries, stalls, world, err, callers, crons, budget>>

\* Mutant: the claim takes a command that is processing as well.
ClaimableAgain(m) == command[m] \in {"pending", "processing"}

\* findOneAndUpdate on status "pending"; otherwise the job has nothing to do.
Claimable(m) == command[m] = "pending"

Claim(w) ==
    /\ Move(w, "claim", "prepare")
    /\ Claimable(of[w])
    /\ command' = [command EXCEPT ![of[w]] = "processing"]
    /\ UNCHANGED <<message, attempt, queue, world, of, err, callers, crons, budget>>

NothingToClaim(w) ==
    /\ Move(w, "claim", "done")
    /\ ~Claimable(of[w])
    /\ UNCHANGED <<store, queue, world, of, err, callers, crons, budget>>

Prepare(w) ==
    /\ Move(w, "prepare", "start")
    /\ UNCHANGED <<store, queue, world, of, err, callers, crons, budget>>

PrepareFails(w) ==
    /\ Move(w, "prepare", "rewind") /\ Incident
    /\ UNCHANGED <<store, queue, world, of, err, callers, crons, reconciles>>

\* updateOne on { _id, status: 'processing' }: any other status stays.
Settled(m, outcome) ==
    IF command[m] = "processing" THEN outcome ELSE command[m]

Rewind(w) ==
    /\ Move(w, "rewind", "throw")
    /\ command' = [command EXCEPT ![of[w]] = Settled(of[w], "pending")]
    /\ UNCHANGED <<message, attempt, queue, world, of, err, callers, crons, budget>>

Start(w) ==
    /\ Move(w, "start", "dispatch")
    /\ attempt' = [attempt EXCEPT ![of[w]] = "started"]
    /\ UNCHANGED <<message, command, queue, world, of, err, callers, crons, budget>>

\* Inside the try of the provider call: no attempt id, outcome "failed".
StartFails(w) ==
    /\ Move(w, "start", "failMessage") /\ Incident
    /\ err' = [err EXCEPT ![w] = "failed"]
    /\ UNCHANGED <<store, queue, world, of, callers, crons, reconciles>>

Calls(m, taken) ==
    /\ calls' = [calls EXCEPT ![m] = @ + 1]
    /\ accepted' = [accepted EXCEPT ![m] = @ \/ taken]

Dispatch(w) ==
    /\ Move(w, "dispatch", "complete")
    /\ Calls(of[w], TRUE)
    /\ UNCHANGED <<store, queue, of, err, callers, crons, budget>>

\* An error of the adapter: raised before the call (a missing token, a send
\* limit) or after it, when the provider may have taken the message all the
\* same.  Its class depends on what the adapter left of the original error.
DispatchFails(w, outcome) ==
    /\ Move(w, "dispatch", "failAttempt")
    /\ err' = [err EXCEPT ![w] = outcome]
    /\ \/ UNCHANGED world
       \/ \E taken \in BOOLEAN : Calls(of[w], taken)
    /\ UNCHANGED <<store, queue, of, callers, crons, budget>>

\* Mutant: an attempt is closed as succeeded whatever happened.
ClosedAsSucceeded(m, outcome) ==
    IF attempt[m] = "started" THEN "succeeded" ELSE attempt[m]

\* updateOne on { attemptId, status: 'started' }.
Closed(m, outcome) == IF attempt[m] = "started" THEN outcome ELSE attempt[m]

FailAttempt(w) ==
    /\ Move(w, "failAttempt", "failMessage")
    /\ attempt' = [attempt EXCEPT ![of[w]] = Closed(of[w], err[w])]
    /\ UNCHANGED <<message, command, queue, world, of, err, callers, crons, budget>>

FailMessage(w) ==
    /\ Move(w, "failMessage", "failCommand")
    /\ message' = [message EXCEPT ![of[w]] = "failed"]
    /\ UNCHANGED <<command, attempt, queue, world, of, err, callers, crons, budget>>

FailCommand(w) ==
    /\ Move(w, "failCommand", "done")
    /\ command' = [command EXCEPT ![of[w]] = Settled(of[w], err[w])]
    /\ UNCHANGED <<message, attempt, queue, world, of, err, callers, crons, budget>>

Complete(w) ==
    /\ Move(w, "complete", "projectAttempt")
    /\ command' = [command EXCEPT ![of[w]] = Settled(of[w], "completed")]
    /\ UNCHANGED <<message, attempt, queue, world, of, err, callers, crons, budget>>

ProjectAttempt(w) ==
    /\ Move(w, "projectAttempt", "projectMessage")
    /\ attempt' = [attempt EXCEPT ![of[w]] = Closed(of[w], "succeeded")]
    /\ UNCHANGED <<message, command, queue, world, of, err, callers, crons, budget>>

ProjectMessage(w) ==
    /\ Move(w, "projectMessage", "done")
    /\ message' = [message EXCEPT ![of[w]] = "sent"]
    /\ UNCHANGED <<command, attempt, queue, world, of, err, callers, crons, budget>>

\* projectSuccessfulDelivery goes on when one of its writes fails.
ProjectionFails(w) ==
    /\ \/ Move(w, "projectAttempt", "projectMessage")
       \/ Move(w, "projectMessage", "done")
    /\ Incident
    /\ UNCHANGED <<store, queue, world, of, err, callers, crons, reconciles>>

\* Every other failed read or write leaves handle() with an exception.
WriteFails(w) ==
    /\ at[w] \in {"claim", "rewind"} \cup Reporting
    /\ at' = [at EXCEPT ![w] = "throw"] /\ Incident
    /\ UNCHANGED <<store, queue, world, of, err, callers, crons, reconciles>>

\* The job's state changes only for the worker that still holds its lock.
Finish(w, state) ==
    LET m == of[w] IN
    IF owner[m] = w
    THEN /\ job' = [job EXCEPT ![m] = state]
         /\ owner' = [owner EXCEPT ![m] = None]
    ELSE UNCHANGED <<job, owner>>

Return(w) ==
    /\ at[w] = "done"
    /\ Finish(w, "completed")
    /\ Leave(w)
    /\ UNCHANGED <<store, tries, stalls, world, callers, crons, budget>>

\* BullMQ runs a job whose processor throws again until its attempts are used up.
Exhausted(m) == tries[m] + 1 >= MaxAttempts

Throw(w) ==
    /\ at[w] = "throw"
    /\ Finish(w, IF Exhausted(of[w]) THEN "failed" ELSE "waiting")
    /\ IF owner[of[w]] = w
       THEN tries' = [tries EXCEPT ![of[w]] = @ + 1]
       ELSE UNCHANGED tries
    /\ Leave(w)
    /\ UNCHANGED <<store, stalls, world, callers, crons, budget>>

-----------------------------------------------------------------------------
(* The queue itself (BullMQ) and dying processes *)

Crash(w) ==
    /\ at[w] # "idle" /\ Incident
    /\ owner' = IF owner[of[w]] = w THEN [owner EXCEPT ![of[w]] = None] ELSE owner
    /\ Leave(w)
    /\ UNCHANGED <<store, job, tries, stalls, world, callers, crons, reconciles>>

\* Mutant: one stall too many.
MayRunOnceMore(m) == stalls[m] <= MaxStalls

\* maxStalledCount.
MayRunAgain(m) == stalls[m] < MaxStalls

\* An active job whose lock has expired is run again, up to MaxStalls times.
Requeue(m) ==
    /\ job[m] = "active"
    /\ owner' = [owner EXCEPT ![m] = None]
    /\ IF MayRunAgain(m)
       THEN /\ job' = [job EXCEPT ![m] = "waiting"]
            /\ stalls' = [stalls EXCEPT ![m] = @ + 1]
       ELSE /\ job' = [job EXCEPT ![m] = "failed"]
            /\ UNCHANGED stalls
    /\ UNCHANGED <<store, tries, world, workers, callers, crons, reconciles>>

Orphaned(m) == owner[m] = None /\ Smooth /\ Requeue(m)

\* The owner lives, but was too busy to extend its lock.
Overrun(m) == owner[m] # None /\ Incident /\ Requeue(m)

\* removeOnComplete and removeOnFail: enough younger jobs have finished.
Evict(m) ==
    /\ MayEvict /\ job[m] \in Finished
    /\ job' = [job EXCEPT ![m] = "none"]
    /\ UNCHANGED <<store, tries, stalls, owner, world, workers, callers, crons, budget>>

-----------------------------------------------------------------------------
(* The crons *)

\* recoverPending reads a row that is pending, or processing for too long:
\* nothing in the row says whether its worker is dead or just slow.
Recoverable == {"pending", "processing"}

\* Mutant: the query forgets the pending commands.
LeftProcessing(m) == command[m] = "processing"

LeftBehind(m) == command[m] \in Recoverable

\* The provider may have been called: ambiguity is preserved.
Presumed == "unknown"

Scan(m) ==
    /\ LeftBehind(m)
    /\ scanned' = scanned \cup {[of |-> m, saw |-> command[m]]}
    /\ UNCHANGED <<store, queue, world, workers, callers, reconciled, budget>>

Recover(row) ==
    /\ row \in scanned
    /\ scanned' = scanned \ {row}
    /\ \/ /\ row.saw = "processing"
          /\ command' = [command EXCEPT ![row.of] = Settled(row.of, Presumed)]
          /\ UNCHANGED queue
       \/ /\ row.saw = "pending"
          /\ AddJob(row.of)
          /\ UNCHANGED command
    /\ UNCHANGED <<message, attempt, world, workers, callers, reconciled, budget>>

RecoverFails(row) ==
    /\ row \in scanned /\ Incident
    /\ scanned' = scanned \ {row}
    /\ UNCHANGED <<store, queue, world, workers, callers, reconciled, reconciles>>

\* A message that nothing has updated for a while is given up, not resent.
Reconcile(m) ==
    /\ message[m] = "sending"
    /\ reconciles < MaxReconciles /\ reconciles' = reconciles + 1
    /\ message' = [message EXCEPT ![m] = "failed"]
    /\ reconciled' = reconciled \cup {m}
    /\ UNCHANGED <<command, attempt, queue, world, workers, callers, scanned, incidents>>

\* markStartedUnknownForMessages: one updateMany for the whole run.
MarkUnknown ==
    /\ reconciled # {} /\ reconciled' = {}
    /\ attempt' = [m \in Messages |->
                     IF m \in reconciled THEN Closed(m, "unknown") ELSE attempt[m]]
    /\ UNCHANGED <<message, command, queue, world, workers, callers, scanned, budget>>

ReconcileFails ==
    /\ reconciled # {} /\ Incident
    /\ reconciled' = {}
    /\ UNCHANGED <<store, queue, world, workers, callers, scanned, reconciles>>

-----------------------------------------------------------------------------
Caller(c) ==
    \/ \E m \in Messages : Send(c, m) \/ Resend(c, m)
    \/ Reset(c) \/ Upsert(c) \/ Add(c) \/ CallerFails(c)

Handle(w) ==
    \/ Claim(w) \/ NothingToClaim(w) \/ Prepare(w) \/ Rewind(w) \/ Start(w)
    \/ Dispatch(w) \/ FailAttempt(w) \/ FailMessage(w) \/ FailCommand(w)
    \/ Complete(w) \/ ProjectAttempt(w) \/ ProjectMessage(w)
    \/ Return(w) \/ Throw(w)

Worker(w) ==
    \/ \E m \in Messages : Take(w, m)
    \/ Handle(w)
    \/ PrepareFails(w) \/ StartFails(w) \/ ProjectionFails(w) \/ WriteFails(w)
    \/ \E outcome \in {"failed", "unknown"} : DispatchFails(w, outcome)
    \/ Crash(w)

Queue(m) == Orphaned(m) \/ Overrun(m) \/ Evict(m)

Cron ==
    \/ \E m \in Messages : Scan(m) \/ Reconcile(m)
    \/ \E row \in scanned : Recover(row) \/ RecoverFails(row)
    \/ MarkUnknown \/ ReconcileFails

Next ==
    \/ \E c \in Callers : Caller(c)
    \/ \E w \in Workers : Worker(w)
    \/ \E m \in Messages : Queue(m)
    \/ Cron

Spec == Init /\ [][Next]_vars

\* Live processes go on, the queue hands out jobs and finds orphans, the
\* recovery ticks every minute and comes to every row it reads.  Nothing
\* obliges Redis to evict, a caller to send again, or a fault to happen.
Fairness ==
    /\ \A w \in Workers : WF_vars(Handle(w) \/ \E o \in {"failed", "unknown"} : DispatchFails(w, o))
    /\ \A w \in Workers, m \in Messages : WF_vars(Take(w, m))
    /\ \A c \in Callers : WF_vars(Reset(c) \/ Upsert(c) \/ Add(c))
    /\ \A m \in Messages :
          /\ WF_vars(Orphaned(m))
          /\ WF_vars(Scan(m))
          /\ \A saw \in Recoverable : WF_vars(Recover([of |-> m, saw |-> saw]))

FairSpec == Spec /\ Fairness

-----------------------------------------------------------------------------
(* Correctness *)

TypeOK ==
    /\ message \in [Messages -> {"none", "sending", "sent", "failed"}]
    /\ command \in [Messages -> {"none"} \cup Recoverable \cup Terminal]
    /\ attempt \in [Messages -> {"none", "started", "succeeded", "failed", "unknown"}]
    /\ job \in [Messages -> {"none", "waiting", "active"} \cup Finished]
    /\ tries \in [Messages -> 0 .. MaxAttempts]
    /\ stalls \in [Messages -> 0 .. MaxStalls]
    /\ owner \in [Messages -> Workers \cup {None}]
    /\ calls \in [Messages -> Nat]
    /\ accepted \in [Messages -> BOOLEAN]
    /\ at \in [Workers -> {"idle", "claim", "done", "throw"}
                            \cup Unsent \cup Reporting \cup Projecting]
    /\ of \in [Workers -> Messages \cup {None}]
    /\ err \in [Workers -> {"none", "failed", "unknown"}]
    /\ step \in [Callers -> {"idle", "reset", "upsert", "add"}]
    /\ for \in [Callers -> Messages \cup {None}]
    /\ \A w \in Workers : at[w] # "idle" => of[w] \in Messages
    /\ \A c \in Callers : step[c] # "idle" => for[c] \in Messages
    /\ scanned \subseteq [of : Messages, saw : Recoverable]
    /\ reconciled \subseteq Messages
    /\ incidents \in 0 .. MaxIncidents
    /\ reconciles \in 0 .. MaxReconciles

(* The provider is called at most once for a message, however often its job
   is retried, run again after a stall, added again by the recovery or asked
   for again by a caller (delivery.processor.ts:61-172). *)
AtMostOneCall == \A m \in Messages : calls[m] <= 1

(* A command that is pending has not reached the provider and has no attempt:
   the rewind never puts back a send (delivery.processor.ts:214-234). *)
PendingIsUnsent ==
    \A m \in Messages : command[m] = "pending" => calls[m] = 0 /\ attempt[m] = "none"

(* Nothing is recorded as delivered that the provider did not take: neither
   the command, nor the attempt, nor the message the agent looks at, also
   when the recovery took the live worker for dead (148-163, 351-378). *)
SuccessIsReal ==
    \A m \in Messages :
        \/ command[m] = "completed" \/ attempt[m] = "succeeded" \/ message[m] = "sent"
        => accepted[m]

\* A message the agent sees as sent, or whose attempt says so.
ShownAsSent == {m \in Messages : message[m] = "sent" \/ attempt[m] = "succeeded"}

Promise == INSTANCE SendOnce WITH state <- command, shown <- ShownAsSent

(* The delivery implements the promise of SendOnce: whatever is retried, run
   again, recovered or requested again, a command is put back only before the
   provider was called, a call follows the claim and is the only one, also
   when the recovery has given the command up meanwhile, and the command, the
   attempt and the message record a success only after it (61-172, 351-378). *)
SendsOnce == Promise!Spec

(* No worker, recovery or new request changes a command that has ended. *)
OutcomeIsFinal ==
    [][\A m \in Messages : command[m] \in Terminal => command'[m] = command[m]]_vars

(* A command ends, or its job has ended in the queue before the command did:
   crashes of callers and workers, lost adds and failed writes leave nothing
   else behind (delivery-command.service.ts:86-138). *)
CommandSettles ==
    \A m \in Messages :
        command[m] \in Recoverable
            ~> \/ command[m] \in Terminal
               \/ command[m] = "pending" /\ job[m] \in Finished

-----------------------------------------------------------------------------
(* What comments and tests say and the code does not do *)

(* "The command is rewound to `pending` and rethrown so the queue retries it"
   (delivery.processor.ts:82-83): a pending command has a job that will run,
   or no job in the way of the recovery's next one. *)
PendingIsRetried ==
    \A m \in Messages : command[m] = "pending" => job[m] \notin Finished

(* "should retry a failed message with same idempotencyKey"
   (outbound.service.spec.ts:312): a request answered with queued: true leaves
   a command to deliver, unless the message may have got through. *)
ResendIsQueued ==
    [][\A c \in Callers : step[c] = "upsert" /\ step'[c] = "add"
            => command'[for[c]] # "failed"]_vars

=============================================================================
