# TLA+ models of crm-api

crm-api is a multi-tenant CRM backend: NestJS processes (API, worker, omni,
e-mail, campaign) over MongoDB, Redis and BullMQ. This directory holds TLA+
modules of its concurrent core, the TLC instances that check them, and the
proofs TLAPS checks. `PROJECT.json` lists every run, mutant, theorem, hazard and
the source lines of every definition.

    tlc -workers 2 -config MCDelivery.cfg Delivery.tla
    tlapm DeliveryProofs.tla

| module | what it is |
| --- | --- |
| `RedisLock`, `MCRedisLock`, `RedisLockProofs` | the lease lock and the cluster-singleton crons |
| `AssignmentCommand`, `MCAssignmentCommand`, `AssignmentCommandProofs` | automatic assignment of records: durable command, reservation, commit, recovery |
| `Outbox` | abstract: what an outbox promises its consumers |
| `AssignmentOutbox`, `AssignmentOutboxProofs` | the assignment outbox publisher, an implementation of `Outbox` |
| `AssignmentQueue`, `AssignmentQueueProofs` | operators, decisions and crons on the team queue of unassigned records |
| `Workload`, `WorkloadProofs` | the load counters: seeding, adjustment, expiry, reconciliation |
| `SendOnce` | abstract: what durable delivery promises to whoever sends a message |
| `Delivery`, `DeliveryProofs` | durable delivery of outbound messages over a job queue, an implementation of `SendOnce` |
| `AutomationActions`, `MCAutomationActions`, `AutomationActionsProofs` | one execution of an automation workflow, its action jobs and manual retries |
| `Campaign`, `CampaignProofs` | one bulk campaign: dispatch, batches, and the people who steer it |

## 1. Inventory

### 1.1 The components with core logic

**Redis lock and cluster singletons** (`redis/redis-lock.service.ts`,
`common/scheduling/cluster-singleton.ts`). State: one Redis key per lock, whose
value is the holder's token; per caller the loop counter and the flag the
heartbeat sets. Operations: acquire with retries, heartbeat, compare-and-delete.
Used as a cluster singleton by the crons of omni-inbound (event outbox,
lifecycle, work distribution, transfers) and of the outbound reconciliation, and
directly by exports, purges, pollers and health checks. Hard: a holder that stalls past
its TTL, a crash between SET and release, a zero retry budget. Correct when two
holders overlap only after a missed TTL, a release never deletes a successor's
key, and no key or caller is stuck.

**Assignment** (`assignment/`). State: `assignment_commands` (one per record,
unique idempotency key), the record's owner and `lastAssignmentCommandId`,
`assignment_queue_items`, `assignment_outbox_events`, and in Redis a ZSET of
loads with one lease per command. A lifecycle event creates the command; the
core resolves a target, reserves a slot in a Lua script, commits the owner by a
compare-and-set, and completes the command together with its outbox event in one
transaction; otherwise the record goes to a fallback owner or a team queue. A
minutely cron on every replica recovers commands left in progress. People change
owners meanwhile, and a listener moves the load counters. Hard: every await is
a place to crash or be overtaken; the two stores share no transaction. Correct
when decision, event, owner and counter agree with each other.

**Assignment outbox publisher** (same directory). State: rows with status and
retry count. A cron reads a batch, claims each row by a compare-and-set, emits it
and writes the outcome; runs overlap, over replicas and on one replica.
Correct when nothing is published undelivered, nothing is written off early and
nothing waits for ever.

**Outbound delivery** (`omni-outbound/`). State: the message's status, one
delivery command per message, its attempts, and a BullMQ job whose id is the
command's id. API requests persist, upsert and enqueue; workers claim, prepare,
open an attempt, call the provider and write four outcomes in a row; one cron
recovers commands left behind, another one fails messages left `sending`.
Hard: the provider call can be neither repeated nor undone, the queue runs
stalled jobs twice, BullMQ ignores an id it knows. Correct when the provider is
called at most once, success is never invented, an outcome is final, and every
command ends.

**Assignment queue** (`assignment/application/assignment-queue-*.ts`). State: one
`assignment_queue_items` row per record with a status and an operation id.
Operators claim or retry an item under a new operation id and put it back when
nothing came of it; automatic decisions park and remove items; crons on every
replica put back operations older than five minutes and escalate items that wait
too long; the lifecycle listener removes the items of owned records. Hard: the
item, the owner and the outbox are written in separate steps by actors who do not
know of each other. Correct when a claim that was answered `assigned` is true, no
record drops out of sight, an escalation is announced once, and no operation
stays open.

**Workload** (`assignment/adapters/record/record-load.port.ts`,
`zset-reservation.service.ts`, the reconciliation cron). State: a ZSET of scores
with a TTL, against the records people own. Decisions seed a missing score from
an aggregate and reserve in a script; a listener adjusts scores; a cron compares
and overwrites. Hard: every number that is written was read before something
else happened. Correct when the counters heal.

**Automation execution** (`automation-rules/engine`, `automation-rules/queue`).
State: an execution log with its steps and status, one exactly-once key per action
in Redis, action jobs and a dead-letter queue in BullMQ. A worker checks the
quota, claims, executes, confirms, logs and continues the graph along the branch
that happened. Hard: stalled jobs run twice, the key outlives its owner, parallel
branches write one status, operators retry by hand. Correct when an action
succeeds once, follows one branch, its failure shows, and the execution ends.

**Campaigns** (`campaigns/`). State: the campaign's status and counters, one ledger
row per recipient, dispatch and batch jobs. A dispatch materialises the audience,
frees stale claims and queues what is pending; a batch claims row by row, sends,
records, commits counters, and whoever finds nothing open completes the campaign.
People launch, pause, resume, cancel and retry with reads and saves that are far
apart. Correct when nobody is sent a message twice, the counters agree with the
ledger, completed means done, and a run ends.

**Automation outbox** (`automation-rules/events/`): triggers with 20 attempts.
**Omni-inbound** (`omni-inbound/`): conversation operations resumed by message
insert, and an event outbox. **SLA and escalation policies**: business-hours
clocks and jobs that fire. Planned, see 2.

### 1.2 The rest

CRUD modules (contacts, accounts, deals, tickets, tasks, notes, tags, files,
templates, users, groups, settings and so on), reporting and search, provisioning,
sockets, mail, metrics and migrations are listed in `PROJECT.json` as
`not_modelled` with the reason. They have little state of their own that steps
of two actors could spoil, or they are I/O. Record merges and the HTTP idempotency
interceptor are the candidates for later modules.

### 1.3 Interaction

A lifecycle event of a record starts an assignment command; its completion
writes the outbox row which `AssignmentOutbox` picks up (`Capture`). The models
meet at that transaction: `CompletedIsAnnounced` and `EventMatchesDecision` say
which rows there are, `AtLeastOnce` what becomes of a row. An escalation writes
its row in the same way (`EscalatedOnce`). A decision of `AssignmentCommand` appears
in `AssignmentQueue` as a call that parks and removes items, and in `Workload` as
its reads and writes of a score: three views of one execution, each with the
actors that meet it there. `Delivery` is fed by API requests. The crons of omni-inbound and
the outbound reconciliation run behind `RedisLock`.

## 2. Plan

Done: `RedisLock`, `AssignmentCommand`, `Outbox`, `AssignmentOutbox`, `SendOnce`,
`Delivery`, `AssignmentQueue`, `Workload`, `AutomationActions`, `Campaign`. Next, most
important first:

1. `AutomationOutbox`: publisher with MAX 20, its stale recovery, and a consumer
   queue; `Outbox` is its abstract specification too, with a refinement proof. Its
   late `updateOne` after a publish matches a newer claim of the row
   (`automation-outbox.service.ts:194`).
2. `ConversationOps` and `ConversationOutbox`: resumption of a half-done
   operation, retry of a failed listener behind the cluster lock.
3. `AutomationDelays`: wait nodes and their delayed jobs, which a worker that dies
   leaves `processing`.
4. `SlaClock`: the business-hours clock as operators checked against a reference
   definition, and the breach jobs that fire on it.

Every safety property that a run checks is a theorem (section 5). Theorems still
worth proving: how many slots crashes and Redis failures can leak, that is
`ReservationAccounting` with incidents on its other side, as `SentOnce` has them;
the counters of a campaign with incidents, in the same way; `SucceedsOnce` as an
abstract specification which `AutomationActions` refines; the refinement of
`AutomationOutbox`.

## 3. Modules and code

### 3.1 RedisLock

One process of the cluster is one caller. `pc` is the place in `acquire()`:
`waiting` is the loop, `running` the callback, `releasing` the `finally`.
`Take`/`Contend` are the two results of `SET NX PX`, `GiveUp` the error after the
loop, `HeartbeatFails` the failing extend script, `Release` the release script.
Time is abstract: a key can `Expire` only while its holder is stalled or gone.
`MCRedisLock` adds the options that `runAsClusterSingleton` passes.

### 3.2 AssignmentCommand

A record stands for its command, because the idempotency key is made from the
record. A worker is one execution; every awaited call of `execute()`,
`core.assign()` and the ports is an action:

| code | actions |
| --- | --- |
| listener, `findOne`, create or take over | `Submit`, `Enter`, `Create`, `Retry`, `Conflict` |
| target and candidates | `ResolveTarget`, `Unrouted` |
| `reserve()` of the ZSET service | `LookupLease`, `DropStaleLoad`, `DropStaleLease`, `Reserve`, `NoneReserved`, `DirectUnreserved` |
| commit port | `Commit`, `CommitRaceLost`, `CommitFails`, `CleanQueue`, `Park` |
| `release()`, `complete()` of the load store | `ReleaseLoad`, `ReleaseLease`, `ReleaseFails`, `CompleteLease` |
| end of `execute()` | `CompleteWithOutbox`, `CompleteFails`, `Abort` |
| recovery cron | `ScanStale`, `RecoverClaim` |
| people and the workload listener | `ChangeOwner`, `HandleLifecycle` |

Which candidates a policy yields is a free choice of a set; rotation and
tie-breaks are free choices in it. Redis scripts and Mongo transactions are one
step, everything else is one step per call. A Lua script's effect is atomic and
`release()` is two calls, as in the code. `Faults` switches failures on:
`crash`, `mongo` (a write throws), `redis` (a call throws) and `slow` (a live
execution is older than the two minutes after which the cron takes it for dead).

### 3.3 Outbox and AssignmentOutbox

`Outbox` has four states per event (absent, owed, done, dropped) and the set of
events all listeners have had. An event may be delivered again at any time, it
is done only after a delivery, and done and dropped are final.
`AssignmentOutbox` is `publishPending`: `Scan`, `Claim`, `Emit`/`EmitFails`,
`Confirm`/`ConfirmFails`, `Reject`, `Abandon`. `StateOf` maps `pending` and
`publishing` to owed, `published` to done, `failed` to dropped. `Stranded` is a
pending row whose attempts are used up: no query returns it, and
`OverlapStrands` says that only two runs working on one row can make it.
`@nestjs/event-emitter` wraps `@OnEvent` listeners and swallows what they throw,
so `EmitFails` stands for a listener that is not wrapped or asked not to be
suppressed; the repository has none for these events at this commit, which makes
the retry path reachable only through failed writes. The `limit(100)` of the
query is left out.

### 3.4 Delivery

The delivery command's upsert key is the message, so command, job and attempt
are functions of the message. The attempt is one per message: `start` inserts a
row each time it is called, and `AtMostOneCall` with its invariant shows it is
called once per claim and a claim never follows an opened attempt.
`SendOnce` is the promise: a request goes from `none` over `pending` and
`processing` to an outcome and back to `pending` only before the call; the call
comes after the claim, is the only one, and may come after the request was given
up as `unknown`; `completed`, and a message that is shown as sent, need the
provider's acceptance. What is shown is the status of the message or of its
attempt (`ShownAsSent`), and it may be hidden again: a resend that has read
`failed` resets a message which the worker has meanwhile marked `sent`.

| code | actions |
| --- | --- |
| `queueAgentMessage`, `checkOutboundIdempotency` | `Send`, `Resend`, `Reset`, `CallerFails` |
| `enqueue`, `addJob` | `Upsert`, `Add` |
| `handle()`: claim, prepare and rewind | `Claim`, `NothingToClaim`, `Prepare`, `PrepareFails`, `Rewind` |
| provider call | `Start`, `StartFails`, `Dispatch`, `DispatchFails` |
| failing end | `FailAttempt`, `FailMessage`, `FailCommand` |
| successful end | `Complete`, `ProjectAttempt`, `ProjectMessage`, `ProjectionFails` |
| any other failed write | `WriteFails` |
| `recoverPending` | `Scan`, `Recover`, `RecoverFails` |
| `reconcileStuckMessages` | `Reconcile`, `MarkUnknown`, `ReconcileFails` |
| BullMQ (external) | `Take`, `Return`, `Throw`, `Crash`, `Orphaned`, `Overrun`, `Evict` |

The queue is modelled from how the code configures and relies on it: an `add`
with an id that exists is a no-op, a job that loses its lock is run again until
its stall limit (1 by default), a failing processor is retried until `attempts`
is used up, finished jobs stay until the retention options evict them. The
reconciliation is registered behind `runAsClusterSingleton`, whose finding (4.2)
means it never runs as deployed; the model lets it run, which only adds steps.

### 3.5 AssignmentQueue

A call is an operator's `claim` or `retry`, or an automatic decision; `kind` says
which, `op` is its operation id.

| code | actions |
| --- | --- |
| `claim`, `retry`, `acquire`, `release` | `Claim`, `Retry`, `Release`, `ReleaseFails` |
| `core.assign` | `Decide`, `CheckAssignee`, `SelectCandidate`, `Finish`, `FinishFails` |
| commit port | `Commit`, `CommitRaceLost`, `CommitFails`, `CleanQueue`, `Park`, `CleanQueueFails` |
| `recoverStaleOperations` | `RecoverStale` |
| `escalateOverdueItems` | `FindOverdue`, `Escalate`, `EscalateFails` |
| people, lifecycle listener | `ChangeOwner`, `HandleLifecycle` |

`slow` lets the stale-operation cron take a live operation. The decisions here have
no fallback owner, and the load store is left out. Priority, attributes and due
date of an item are left out; a failed retry parks its item again without
attributes, which resets its priority to 50 and clears its due date
(`record-commit.port.ts:124-125`).

### 3.6 Workload

`tracked` is the set of members of the ZSET, `load` their scores. A decision is
`Start`, `Count`, `Seed`, `Reserve`/`NoneReserved`, `Commit`/`CommitFails`,
`Release`; the cron is `FindMembers`, `ReadScores` and `ReadActual` in any order,
`Compare`, `Overwrite`. `Counted` lets the aggregate fail, in which case the code
goes on with zeros (`record-load.port.ts:147-151`). Events are a set handled in
any order or lost. There are no leases in this module, so a crash between
reservation and commit leaks a slot, as it does for decisions without a command.

### 3.7 AutomationActions

A run is a worker with a job and the number of times the job had been taken from
others before, so that a stalled run and its successor are two processes.

| code | actions |
| --- | --- |
| `executeInternal` | `Dispatch`, `DispatchFails`, `StarterDies` |
| `runAction` up to the executor | `Take`, `RefuseQuota`, `Claim`, `Skip`, `ClaimFails`, `Execute` |
| its end | `Confirm`, `LogStep`, `Release`, `DeadLetter` |
| `continueAfterAction` | `Follow`, `FollowFails`, `Abort`, `Settle`, `SettleFails` |
| BullMQ (external) | `Return`, `Throw`, `Crash`, `Requeue` |
| dead letters, manual retry | `MarkDlq`, `RetryStep`, `ClearClaim`, `DispatchRetry`, `RefuseRetry` |

`Edges` is the graph with conditions contracted to the actions they may reach.
What an executor does is a free choice of success, failure and a failure worth a
retry.

### 3.8 Campaign

Workers take either kind of job. A request of the person is its check (`Ask`) and
then one save per step, whatever the status has become meanwhile.

| code | actions |
| --- | --- |
| `launch`, `pause`, `resume`, `cancel` | `Launch`, `Pause`, `Resume`, `Cancel`, `SkipOpen`, `EnqueueDispatch` |
| `retryFailed` | `RetryFailed`, `Reopen`, `SubtractFailed`, `EnqueueDispatch` |
| `dispatch` | `TakeDispatch`, `Write`, `Outgrow`, `CountLedger`, `SetSize`, `RecoverStaleClaims`, `EnqueueBatch`, `Pass`, `EndQueueing` |
| `sendBatch` | `TakeBatch`, `Open`, `StopWhenPaused`, `Claim`, `Accept`, `Refuse`, `MarkSent`, `MarkFailed`, `PutBack`, `EndBatch`, `Commit` |
| `abort`, `finaliseIfDone` | `Abort`, `CountOpen`, `Complete` |
| failures | `MarkSentFails`, `BatchFails`, `CommitAndThrow`, `JobFails`, `Crash`, `RequestFails` |

Which pending rows share a batch, and whether a job that threw has an attempt
left, are free choices. Quiet hours put a job back unchanged, which is a stutter.
The counters of queued and skipped rows, the audience check of a resume, editing
and the scheduler's sweep are left out; the sweep runs behind a lock with
`maxRetries: 0` (4.2).

## 4. Runs

### 4.1 What holds

| run | instance | shows |
| --- | --- | --- |
| `redis_lock` | 2 replicas, 2 attempts | exclusion up to a missed TTL; no key or caller is stuck |
| `command_slots` | 2 records, 2 agents, 2 executions, `mongo`, 1 move | counters equal what is owed; strategies keep the ceiling |
| `command_recovery` | 2 records, 2 executions, 1 recovery cron, `crash` and `mongo` | one executor per command; decision, event and owner agree; every command ends |
| `command_faults` | 1 record asked for twice, 2 recovery crons, all faults | a decision is final and has its event |
| `outbox` | 2 rows, 2 overlapping runs, 3 attempts, all faults, 2 incidents | implements `Outbox`; only overlapping runs strand a row; every other row is published or written off |
| `assignment_queue` | 1 record, 2 agents, 2 calls of 3, 2 replicas, all faults | claims are true; no record is lost; one escalation, announced; operations end; overdue items are escalated |
| `workload` | 2 records, 1 agent with ceiling 1, 2 decisions, 2 moves, all faults | counters converge; an expired score comes back only by a seed |
| `delivery` | 1 message, 2 workers, 1 caller, 2 incidents, 2 attempts, 1 stall | at most one call; implements `SendOnce`; commands end |
| `automation_actions` | 2 parallel actions, a failure branch from one to the other, 2 workers, 2 attempts, 1 stall, 1 incident or manual retry | one success per claim; one branch; failures show; executions end |
| `campaign` | 2 recipients, 2 workers, 3 requests or incidents, all faults | one message each; counters agree with the ledger; completed is done; runs end |

Every property has a mutant in `PROJECT.json`: a plausible bug in a mapped
definition that makes TLC refute the property in the same run.

**Bounds.** Two of everything that races (replicas, executions, runs, workers) is
the least that makes two-party interleavings happen. `MaxIncidents` of 1 or 2
puts a fault at every step, and a second one into its recovery. With `Cap` 1
one record fills an agent, so two records race for a last slot. Messages share nothing but the
workers, which is why one message suffices in `delivery`: two workers can
already run its job twice. `MaxAttempts` 2 has both a retry and a last
attempt; the outbox's 3 attempts separate first, middle and last. One record
suffices in `assignment_queue`, since items do not meet; three calls are an
operator, a rival and a late decision. In `workload` two records compete for the
one slot of an agent while its counter expires or is overwritten. The graph of
`automation_actions` has what single actions lack: siblings that finish in any
order, and a node reached by two ways. In `campaign` two recipients in any split
over batches, two workers and three requests give pause against claim, cancel
against materialisation, retry against finaliser, and repeated dispatches. `MaxAsks` 2
lets a record's creation be announced twice. Further requests for the same
message and further fault counts are covered by the theorems of section 5.

**Deadlock** is not checked where the system may stop: records, rows, messages,
moves and incidents are bounded. It is checked in `redis_lock`.

**Side conditions.** `ReservationAccounting` is checked with one owner change and
without Redis failures. The release script clamps at zero, so with two moves
handled in the other order a decrement is lost and the counter is one too high
for good; and a load-store call that fails loses its update. This is drift the
reconciliation is there to repair (`Workload`). `CapacityRespected` leaves out
records a person has moved, and the fallback owner, who is reserved without a
ceiling. `SingleExecutor`, `EventMatchesDecision` and `DecidedOwner` need one
recovery cron at a time and no live execution taken for dead (4.2).
`EventSettles` excepts stranded rows: two overlapping runs of one stale row both
increment its count, and the row can be left `pending` with no attempt left,
which no query returns. `CommandSettles` of `Delivery` excludes a pending command
whose job has ended (4.2). `ExecutionEnds` excepts executions that met an
incident, because any throw after the confirmed claim makes the next attempt skip
the action as executed and the execution stays `running`. `StatsAddUp` and
`RunEnds` except incidents for a like reason: a worker that dies after its claim
leaves the row `sending`, which only a dispatch frees, so the campaign waits for
somebody to pause and resume it. `CompletedIsDone` excepts campaigns with
retries (4.2). `SentOnce` counts incidents: a crash after the provider's answer
and a failing write of `sent` (which the code takes for a failed send) each cost
one repeated message. `SucceedsOnce` counts claims deleted by hand in the same
way. `LoadConverges` holds for counters that are tracked; an expired one has no
value to be wrong. `ToldIsOwner` and `NoRecordLost` except records a person has
moved.

**Fairness.** Processes that live go on (weak fairness of each execution, run,
worker and caller), crons tick and reach the rows they read, the queue hands out
waiting jobs and finds orphans. `RedisLock` needs strong fairness of a caller's
own steps, because the environment may pause it again and again; pauses end and
TTLs run out. Nothing obliges anybody to call, crash, stall, change an owner, or
Redis to evict a job. Faults are bounded in the runs that check liveness: a
system whose writes fail for ever promises nothing. In `Campaign` and
`AutomationActions` one weakly fair action stands for the pool: as long as a job
waits or is under way some worker goes on; the person owes nothing but the end of
a request. In `Workload` the reconciliation, the decisions and the event handlers
are weakly fair, in `AssignmentQueue` the calls, both crons and the handlers.

### 4.2 What the repository says and the code does not do

| run | claim | what TLC finds |
| --- | --- | --- |
| `cluster_singleton` | "Run a scheduled job on exactly one replica" (`cluster-singleton.ts:8`) | with `maxRetries: 0` the loop of `acquire()` is never entered, so no replica ever runs the job |
| `claim_retries_failed` | only failed or dead-lettered steps can be retried (`automation-execution-log.controller.ts:185`, `automation-execution-log.repository.ts:362`) | the filter matches the node and the failed status on different steps, so a step that succeeded is executed again when another one has failed |

Further claims are kept as definitions in the modules. Each is refuted by TLC when
it takes the place of the INVARIANT or PROPERTY line of the configuration named.

| definition | claim | what TLC finds |
| --- | --- | --- |
| `ManualOwnerKept`, `MCCommandRecovery.cfg` | the compare-and-set protects concurrent manual claims (`record-auto-assignment.listener.ts:25`) | a command that is run again may overwrite the owner a person set after its first commit, because the record still carries its id |
| `SingleExecutor`, `MCCommandFaults.cfg` | a command in progress is refused (`assignment-command.service.ts:43`) | the crons of two replicas read one stale command and both execute it, the claim looking at the status only |
| `PendingIsRetried`, `MCDelivery.cfg` | a rewound command is retried (`delivery.processor.ts:82`) | after the last attempt the dead job keeps its id for a week, and the recovery's `add` does nothing |
| `ResendIsQueued`, `MCDelivery.cfg` | a failed message can be retried with its key (`outbound.service.spec.ts:312`) | the upsert leaves the old command `failed`; the message goes back to `sending` and nobody delivers it |
| `ParkedIsUnowned`, `MCAssignmentQueue.cfg` | team queue membership is for an unassigned record (`record-commit.port.ts:106`) | a decision that lost its race parks the record after its owner's item was removed |
| `SlotIsNotShared`, `MCWorkload.cfg` with `MaxMoves = 0`, `Faults = {}` | two concurrent decisions never hand the same slot to two records (`reservation.lua.ts:4-6`) | a reconciliation that counted before a decision's commit overwrites the score and forgets the reserved slot; a seed after an expiry does the same |
| `RejectsUnsent`, `MCAutomationActions.cfg` | a quota rejection is of a message that was never sent (`automation-action.processor.ts:188-190`) | a job that lost its lock is run by two workers: the quota, asked before the claim, refuses one, which goes on along the failure branch of the action the other executes |
| `CompletedIsTerminal`, `MCCampaign.cfg` with `Faults = {}` | completed means every recipient reached a terminal state (`campaign.schema.ts:26`) | the finaliser counts, somebody pauses and retries the failures, and the late write completes the campaign over pending rows |
| `CancelledIsTerminal`, `MCCampaign.cfg` | after a cancellation every row is terminal (`campaigns.service.ts:425-426`) | a dispatch that is still materialising inserts pending rows after the cancellation |

Smaller disagreements met on the way and not stated: a fallback owner's lost race is audited twice (`assignment-core.service.ts:1186`); a
recovered command that fails again is not read by the next recovery
(`assignment-command.service.ts:186`); a failing insert of the attempt ends a
message as failed although nothing was sent (`delivery-command.constants.ts:24`);
errors that lost their status are classified as permanent
(`delivery-attempt.service.ts:55`); a move whose event is handled after a seed is
counted twice although `zset-reservation.service.ts:286-288` rules it out (the
reconciliation heals it); a finished branch marks the execution `success` while a
sibling is in flight; a manual retry deletes the claim of an automatic attempt
that is running; a retry refused after its claim was cleared leaves the step
`retrying`; an outgrown materialisation deletes the whole ledger, sent rows of an
earlier dispatch included; `pause` and `cancel` save over a status that has become
`completed`; a launch whose process dies before the enqueue stays `sending`.

## 5. Proofs

All theorems hold for every value of the constants under the named assumptions
of the modules (sets of any size, finite where an assumption says so, and any bounds). Each proof is the
usual three facts: the invariant holds initially, every action keeps it, it
implies the property.

* `RedisLockProofs`. `Typing`; `MutualExclusionHolds` from the invariant that a
  holder whose key did not lapse is the value of the key; `ReleaseSparesSuccessor`
  directly from the release script. Nothing is assumed about fairness or TTLs.
* `AssignmentCommandProofs`. `Typing`. `DecisionsAreFinal` and
  `CompletedAnnounced` hold whatever fails and however many recoveries overlap:
  each write of a status is guarded by `processing`, and completion is one
  transaction. The lemmas `Steps` and `AssignStep` group the actions: those
  inside `assign()` leave the command store alone and keep their command, so
  that later proofs have one case for all of them. `OneExecutor`,
  `EventsTellTheTruth` and `DecisionsTellTheTruth` assume `OneRecoverer` (no
  `slow` fault, at most one recovery cron). Single execution is not inductive: it
  needs that what is executed is in progress and that what a recovery has read
  is still abandoned (`Exclusive`); the truth of decision and event then needs
  what an execution past its commit knows about the record.
  That `SingleExecutor` is refuted with two recovery
  crons (4.2) shows that the assumption cannot be dropped.
  `SlotsAreAccounted` and `CeilingHolds` assume `Calm`: finitely many records and
  executions, no failure but those of MongoDB, no second announcement of a record
  where these happen, and at most one move by a person. Each part is needed: a
  crash or a Redis failure leaks a slot (4.1), a retry of a command that failed
  after its commit reserves a second one, and of two moves counted in the wrong
  order the clamp at zero loses one. The invariant is `Orderly`: an execution
  commits once (`FirstCommit`), a lease belongs to the execution that took it and
  is gone when the execution ends (`LeaseIsHeld`), and the owner a person chose
  stays until her move is counted (`MoveStands`). From it follows that a counter
  that is decremented is positive (`LoadIsPositive`), and then each step adds the
  same to both sides of the equation, which is shown for one element of one of the
  sets at a time. `CeilingHolds` leaves out the strategy `least-busy`, which
  reserves without a ceiling.
* `AssignmentOutboxProofs`. `Typing`; `WrittenOffWhenExhausted` from `IInv`: a row
  in `publishing` has an attempt left, a run never remembers more failures than
  its row has counted (counts only grow, and overlapping runs count on old
  copies of one row), and what is claimed or in a batch exists; `StrandingIsOverlap`
  from the same invariant; `Implements`, the refinement of `Outbox`: every action
  is a step of it or a stutter, given that a run about to confirm has delivered
  its row.
* `AssignmentQueueProofs`. `Typing`. `ClaimsAreTrue` and `NothingIsLost` share the
  invariant `Outcome`: a call past its commit has given the record to its pick
  unless a person has moved it since. `EscalationIsOnce` needs `Numbered`: item ids
  are fresh and belong to one record, a row found overdue exists. `ReleasesAreOwn`
  holds because a call leaves `release` only by its own steps.
* `WorkloadProofs`. `Typing`, whose point is that no interleaving of the clamped
  scripts and the overwrites leaves the naturals, and `ExpiredStaysUntracked`.
* `AutomationActionsProofs`. `Typing` with the budget of attempts.
  `SuccessIsClaimed` from `Paid`: for each action, its successes and the runs that
  hold its claim are at most the claims deleted by hand plus one if the key is
  set. A claim moves one unit from the key to the run, `Execute` from the run to
  the successes, a release or an operator takes the key away; crashes lose units.
  `OneBranchTaken` goes on from there: for an action without a quota, the branches
  taken and the runs that still have to take one (`Bearing`) are at most what the
  claims allow (`Spent`). `FailuresShow` needs that, without incidents, a failure
  that was followed shows or has a run that is about to write it (`Showing`), and
  that a job which waits has no run left from before (`Unstarted`).
* `CampaignProofs`. `Typing`. `OneMessage` from `Owed`: for each recipient, the
  messages sent, the workers that hold the row and have no answer yet, and one
  more if the row may still be claimed, are at most one more than the incidents.
  The other theorems speak of campaigns that have met no incident, as their
  properties do, and share the invariant `Settled`: nothing has run for a campaign
  that can still be edited; rows are all written before anybody sizes the ledger,
  queues or counts (`LedgerFirst`); a row is held by one worker, is `sending` then
  or was skipped by a cancellation, and is not among those left to its batch
  (`Claims`); what a worker keeps as sent or failed has been written and is not
  before it again (`Outcomes`). `WorkMovesRow` says in five cases what any step of
  a worker does to any row, so that the parts need no case per action.
  `CompletedLeavesNobody` follows, since a row with an outcome moves only by a
  retry or, after a cancellation, by the worker that still holds it, and a
  cancelled campaign is sent again only by a retry. `RowsHaveOneHolder` and
  `OutcomesStand` are what the claims are for. `CountersBalance` adds `Tallied`: a
  write of an outcome adds one pair to what its worker keeps and one row to the
  ledger, a commit moves all of a worker's pairs to the counters at once
  (`KeptOneMore`, `KeptGivenAway`), a retry moves the failed rows into `undone`.
* `DeliveryProofs`. `Typing` with the budget of a job's attempts. `OneCall`,
  `PendingUnsent` and `SuccessReal` share one invariant, `SInv`: a worker past
  its claim holds its command and nobody else does, nobody has called the
  provider before `dispatch`, a command never claimed is unsent, and a worker
  that reports success or failure has the provider's answer. The point is that
  the recovery takes a command from a live worker only into `unknown`, which
  nobody can claim. `OutcomeFinal` needs no invariant beyond typing.
  `DeliverySendsOnce` is the refinement of `SendOnce`, from `SInv` and one more
  fact, that what was never called for was not accepted: every action is a quiet
  step, a move of one command that the promise allows, the call, or a change of
  what one message shows (`QuietStep`, `CommandStep`, `CallStep`, `ShowStep`).

Only model-checked: liveness (`LockIsFreed`, `CallReturns`, both `CommandSettles`,
`EventSettles`, `OperationSettles`, `EscalationHappens`, `LoadConverges`,
`ExecutionEnds`, `RunEnds`) and everything that speaks of fairness or ENABLED,
which the prover does not do. All invariants, action properties and refinements
of the passing runs are theorems, under the assumptions named above. Facts about
recursive data would need induction; no module that is proved about declares a
RECURSIVE operator, and sums are proved as cardinalities of sets that grow and
shrink by one element, or by one worker's part, at a step.

## 6. What is left out

Inside modelled parts: tenants (every query is scoped to one), logging, metrics,
timing except through staleness, which message kind a provider call sends,
how policies select candidates, `limit` clauses of batches, what action executors
and campaign senders do. Messages sent directly
by `sendAgentMessage` without a queue are not in `Delivery`. Outside: sections 1.2
and 2, and the notes in `PROJECT.json`.
