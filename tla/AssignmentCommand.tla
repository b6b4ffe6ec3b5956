------------------------- MODULE AssignmentCommand -------------------------
(***************************************************************************)
(* Automatic assignment of a CRM record (src/src/assignment): the durable  *)
(* command that decides who gets a new record, the reservation of a slot   *)
(* in the Redis load store, the compare-and-set of the owner, the queue    *)
(* projection, the outbox event and the recovery of stale commands.        *)
(*                                                                         *)
(* Every step is one await of the code, so executions, the recovery cron,  *)
(* people who change the owner and the lifecycle listener interleave.      *)
(* There is one command per record (its idempotency key is derived from    *)
(* the record), so a record also names its command.                        *)
(***************************************************************************)
EXTENDS Naturals, FiniteSets

CONSTANTS
    Records,     \* records whose creation asks for an assignee
    Agents,      \* people who can own a record
    Workers,     \* concurrent executions, over all replicas
    Recoverers,  \* workers that run the recovery cron
    Strategy,    \* the strategy the policy resolves to
    Cap,         \* defaultMaxCapacity
    Fallback,    \* fallbackOwnerId, or None
    None,
    Faults,      \* which failures may happen
    MaxAsks,     \* bound: calls of execute() per record
    MaxIncidents, \* bound: crashes, and live executions taken for dead
    MaxMoves     \* bound: owner changes made by people

FaultKinds == {"crash", "mongo", "redis", "slow"}

ASSUME ConstantsAssumption ==
    /\ None \notin Agents \cup Records
    /\ Recoverers \subseteq Workers
    /\ Strategy \in {"round-robin", "least-busy", "capacity-based"}
    /\ Cap \in Nat \ {0}
    /\ Fallback \in Agents \cup {None}
    /\ Faults \subseteq FaultKinds
    /\ MaxAsks \in Nat /\ MaxIncidents \in Nat /\ MaxMoves \in Nat

VARIABLES
    \* MongoDB
    owner,     \* deliberate owner of the record; None: unset or defaulted
    stamped,   \* records whose lastAssignmentCommandId is their own command
    status,    \* assignment_commands.status; "none" before it is created
    decision,  \* assignment_commands.decision: the assignee, None if queued
    announced, \* records with an outbox event "<command>:decided"
    event,     \* the assignee in that event
    parked,    \* records with an assignment_queue_items document
    \* Redis
    load,      \* score of the candidate in the load ZSET
    lease,     \* candidate in assign:lease:<command>
    \* the processes
    pc,        \* where each execution is
    rec,       \* the record it works on, and so the command
    pool,      \* candidates it hands to reserve()
    pick,      \* the candidate reserve() returned, whom it commits
    flags,     \* "direct": commitDirect of the fallback owner; "failing": the
               \* commit threw
    scan,      \* stale commands a recovery run has found and not yet tried
    \* the environment
    pending,   \* lifecycle events of owner changes not handled yet
    touched,   \* history: records whose owner a person has changed
    asks, incidents, moves

mongo == <<owner, stamped, status, decision, announced, event, parked>>
redis == <<load, lease>>
run == <<rec, pool, pick, flags>>
local == <<pc, run, scan>>
env == <<pending, touched, asks, incidents, moves>>
vars == <<mongo, redis, local, env>>

Assignee == Agents \cup {None}

\* Inside core.assign() or completeWithOutbox() on behalf of the command.
ExecutingPcs ==
    {"pool", "lookup", "dropLoad", "dropLease", "reserve", "commit", "unload",
     "unlease", "clean", "settle", "park", "finish", "abort"}

Pcs == {"idle", "enter", "create", "retry"} \cup ExecutingPcs

Flags == {"direct", "failing"}

TypeOK ==
    /\ owner \in [Records -> Assignee]
    /\ stamped \subseteq Records
    /\ status \in [Records -> {"none", "processing", "completed", "failed"}]
    /\ decision \in [Records -> Assignee]
    /\ announced \subseteq Records
    /\ event \in [Records -> Assignee]
    /\ parked \subseteq Records
    /\ load \in [Agents -> Nat]
    /\ lease \in [Records -> Assignee]
    /\ pc \in [Workers -> Pcs]
    /\ rec \in [Workers -> Records \cup {None}]
    /\ pool \in [Workers -> SUBSET Agents]
    /\ pick \in [Workers -> Assignee]
    /\ flags \in [Workers -> SUBSET Flags]
    /\ \A w \in Workers :
         /\ pc[w] # "idle" => rec[w] \in Records
         /\ pc[w] \in {"dropLoad", "commit", "unload"} => pick[w] \in Agents
    /\ scan \in [Workers -> SUBSET Records]
    /\ pending \subseteq [id : 0 .. MaxMoves, rec : Records, from : Assignee, to : Assignee]
    /\ touched \subseteq Records
    /\ asks \in [Records -> 0 .. MaxAsks]
    /\ incidents \in 0 .. MaxIncidents
    /\ moves \in 0 .. MaxMoves

Init ==
    /\ owner = [r \in Records |-> None]
    /\ stamped = {}
    /\ status = [r \in Records |-> "none"]
    /\ decision = [r \in Records |-> None]
    /\ announced = {}
    /\ event = [r \in Records |-> None]
    /\ parked = {}
    /\ load = [a \in Agents |-> 0]
    /\ lease = [r \in Records |-> None]
    /\ pc = [w \in Workers |-> "idle"]
    /\ rec = [w \in Workers |-> None]
    /\ pool = [w \in Workers |-> {}]
    /\ pick = [w \in Workers |-> None]
    /\ flags = [w \in Workers |-> {}]
    /\ scan = [w \in Workers |-> {}]
    /\ pending = {}
    /\ touched = {}
    /\ asks = [r \in Records |-> 0]
    /\ incidents = 0
    /\ moves = 0

At(w, l) == pc[w] = l
Goto(w, l) == pc' = [pc EXCEPT ![w] = l]
Direct(w) == "direct" \in flags[w]
Failing(w) == "failing" \in flags[w]
Executing(w) == pc[w] \in ExecutingPcs

\* The call returns or throws: its locals are gone.
Return(w) ==
    /\ Goto(w, "idle")
    /\ rec' = [rec EXCEPT ![w] = None]
    /\ pool' = [pool EXCEPT ![w] = {}]
    /\ pick' = [pick EXCEPT ![w] = None]
    /\ flags' = [flags EXCEPT ![w] = {}]

-----------------------------------------------------------------------------
(* AssignmentCommandService.execute: create or take over the command.       *)

\* RecordAutoAssignmentListener.handle: execute() under the record's key.
Submit(w, r) ==
    /\ At(w, "idle") /\ scan[w] = {}
    /\ asks[r] < MaxAsks
    /\ asks' = [asks EXCEPT ![r] = @ + 1]
    /\ Goto(w, "enter")
    /\ rec' = [rec EXCEPT ![w] = r]
    /\ UNCHANGED <<mongo, redis, pool, pick, flags, scan, pending, touched, incidents, moves>>

\* findOne({ idempotencyKey }): a completed command answers with its decision,
\* a command in progress is a conflict.
Enter(w) ==
    /\ At(w, "enter")
    /\ \/ status[rec[w]] = "none" /\ Goto(w, "create") /\ UNCHANGED run
       \/ status[rec[w]] = "failed" /\ Goto(w, "retry") /\ UNCHANGED run
       \/ status[rec[w]] \in {"processing", "completed"} /\ Return(w)
    /\ UNCHANGED <<mongo, redis, scan, env>>

\* The command becomes ours, and core.assign() starts on it.
Begin(w) ==
    /\ status' = [status EXCEPT ![rec[w]] = "processing"]
    /\ Goto(w, "pool")
    /\ UNCHANGED <<redis, run, scan, env, owner, stamped, decision, announced, event, parked>>

\* commands.create under the unique (tenant, idempotencyKey) index.
Create(w) == At(w, "create") /\ status[rec[w]] = "none" /\ Begin(w)

\* findOneAndUpdate({ _id, status: 'failed' }, processing).
Retry(w) == At(w, "retry") /\ status[rec[w]] = "failed" /\ Begin(w)

\* E11000, or the compare-and-set matched nothing: ConflictException.
Conflict(w) ==
    /\ \/ At(w, "create") /\ status[rec[w]] # "none"
       \/ At(w, "retry") /\ status[rec[w]] # "failed"
    /\ Return(w)
    /\ UNCHANGED <<mongo, redis, scan, env>>

-----------------------------------------------------------------------------
(* AssignmentCoreService.assign: target, reservation, commit, fallback.     *)

\* queueOrFallback: commitDirect of the fallback owner, else the team queue.
QueueOrFallback(w) ==
    /\ pick' = [pick EXCEPT ![w] = None]
    /\ UNCHANGED rec
    /\ IF Fallback # None
       THEN /\ pool' = [pool EXCEPT ![w] = {Fallback}]
            /\ flags' = [flags EXCEPT ![w] = @ \cup {"direct"}]
            /\ Goto(w, "lookup")
       ELSE /\ Goto(w, "park")
            /\ UNCHANGED <<pool, flags>>

\* Rules, groups, skills and availability leave some candidates, or none.
ResolveTarget(w) ==
    /\ At(w, "pool")
    /\ \E S \in SUBSET Agents :
         IF S = {} THEN QueueOrFallback(w)
         ELSE /\ pool' = [pool EXCEPT ![w] = S]
              /\ Goto(w, "lookup")
              /\ UNCHANGED <<rec, pick, flags>>
    /\ UNCHANGED <<mongo, redis, scan, env>>

\* Auto-assignment is off or no team may serve the record: nobody to park it
\* under.  With the strategy "manual" it goes straight to the team queue.
Unrouted(w) ==
    /\ At(w, "pool")
    /\ Goto(w, "finish") \/ Goto(w, "park")
    /\ UNCHANGED <<mongo, redis, run, scan, env>>

\* reserve(): GET the lease of the command.  A leased candidate who is still in
\* the pool is returned as he is; one who is not has to be released first.
LookupLease(w) ==
    /\ At(w, "lookup")
    /\ LET leased == lease[rec[w]] IN
         /\ pick' = [pick EXCEPT ![w] = leased]
         /\ \/ leased = None /\ Goto(w, "reserve")
            \/ leased \in pool[w] /\ Goto(w, "commit")
            \/ leased \notin pool[w] \cup {None} /\ Goto(w, "dropLoad")
    /\ UNCHANGED <<mongo, redis, rec, pool, flags, scan, env>>

\* LUA_RELEASE: the inverse of one increment, clamped at zero.
Decrement(n) == IF n = 0 THEN 0 ELSE n - 1

DropStaleLoad(w) ==
    /\ At(w, "dropLoad")
    /\ load' = [load EXCEPT ![pick[w]] = Decrement(@)]
    /\ Goto(w, "dropLease")
    /\ UNCHANGED <<mongo, lease, run, scan, env>>

DropStaleLease(w) ==
    /\ At(w, "dropLease")
    /\ lease' = [lease EXCEPT ![rec[w]] = None]
    /\ Goto(w, "reserve")
    /\ UNCHANGED <<mongo, load, run, scan, env>>

\* Mutants: the nil of an empty selection taken for a candidate, and a ceiling
\* that admits one more.
SelectableOrNil(w) ==
    LET S == {a \in pool[w] : load[a] < Cap} IN IF S = {} THEN {None} ELSE S
AtMostCapacity(S) == {a \in S : load[a] <= Cap}

\* The three reservation scripts.  The rotated order of round-robin and the
\* order that breaks ties are left open.  A direct assignment reserves
\* 'least-busy' without a ceiling.
UnderCapacity(S) == {a \in S : load[a] < Cap}
LeastLoaded(S) == {a \in S : \A b \in S : load[a] <= load[b]}

Selectable(w) ==
    IF Direct(w) \/ Strategy = "least-busy" THEN LeastLoaded(pool[w])
    ELSE IF Strategy = "round-robin" THEN UnderCapacity(pool[w])
    ELSE LeastLoaded(UnderCapacity(pool[w]))

\* One script: pick, ZINCRBY and SET the lease, atomically.
Reserve(w) ==
    /\ At(w, "reserve")
    /\ \E a \in Selectable(w) :
         /\ load' = [load EXCEPT ![a] = @ + 1]
         /\ lease' = [lease EXCEPT ![rec[w]] = a]
         /\ pick' = [pick EXCEPT ![w] = a]
    /\ Goto(w, "commit")
    /\ UNCHANGED <<mongo, rec, pool, flags, scan, env>>

\* Nobody is under capacity, or Redis failed.
NoneReserved(w) ==
    /\ At(w, "reserve") /\ ~Direct(w)
    /\ Selectable(w) = {} \/ "redis" \in Faults
    /\ QueueOrFallback(w)
    /\ UNCHANGED <<mongo, redis, scan, env>>

\* commitDirect() does not look at what reserve() returned.
DirectUnreserved(w) ==
    /\ At(w, "reserve") /\ Direct(w) /\ "redis" \in Faults
    /\ pick' = [pick EXCEPT ![w] = Fallback]
    /\ Goto(w, "commit")
    /\ UNCHANGED <<mongo, redis, rec, pool, flags, scan, env>>

\* The claim filter of RecordCommitPort.commit.
Claimable(r) == owner[r] = None \/ r \in stamped

Commit(w) ==
    /\ At(w, "commit")
    /\ Claimable(rec[w])
    /\ owner' = [owner EXCEPT ![rec[w]] = pick[w]]
    /\ stamped' = stamped \cup {rec[w]}
    /\ Goto(w, "clean")
    /\ UNCHANGED <<redis, run, scan, env, status, decision, announced, event, parked>>

\* Mutant: a lost race goes to the queue and keeps the slot.
CommitRaceKeepsSlot(w) ==
    /\ At(w, "commit")
    /\ ~Claimable(rec[w])
    /\ Goto(w, "park")
    /\ UNCHANGED <<mongo, redis, run, scan, env>>

\* matchedCount = 0: somebody else owns the record.
CommitRaceLost(w) ==
    /\ At(w, "commit")
    /\ ~Claimable(rec[w])
    /\ Goto(w, "unload")
    /\ UNCHANGED <<mongo, redis, run, scan, env>>

\* The write throws.
CommitFails(w) ==
    /\ At(w, "commit") /\ "mongo" \in Faults
    /\ flags' = [flags EXCEPT ![w] = @ \cup {"failing"}]
    /\ Goto(w, "unload")
    /\ UNCHANGED <<mongo, redis, rec, pool, pick, scan, env>>

\* release(), first call: LUA_RELEASE.
ReleaseLoad(w) ==
    /\ At(w, "unload")
    /\ load' = [load EXCEPT ![pick[w]] = Decrement(@)]
    /\ Goto(w, "unlease")
    /\ UNCHANGED <<mongo, lease, run, scan, env>>

\* After the rollback: a failed strategy commit is rethrown and a lost one goes
\* to queueOrFallback; the fallback owner's ends in the team queue either way.
AfterRelease(w) ==
    IF Direct(w)
    THEN /\ pick' = [pick EXCEPT ![w] = None]
         /\ Goto(w, "park")
         /\ UNCHANGED <<rec, pool, flags>>
    ELSE IF Failing(w)
    THEN Goto(w, "abort") /\ UNCHANGED run
    ELSE QueueOrFallback(w)

\* release(), second call: DEL the lease.
ReleaseLease(w) ==
    /\ At(w, "unlease")
    /\ lease' = [lease EXCEPT ![rec[w]] = None]
    /\ AfterRelease(w)
    /\ UNCHANGED <<mongo, load, scan, env>>

\* Errors of either call are logged and swallowed.
ReleaseFails(w) ==
    /\ pc[w] \in {"unload", "unlease"} /\ "redis" \in Faults
    /\ AfterRelease(w)
    /\ UNCHANGED <<mongo, redis, scan, env>>

\* CommitPort.complete: the record leaves the team queue.  Best effort.
CleanQueue(w) ==
    /\ At(w, "clean")
    /\ \/ parked' = parked \ {rec[w]}
       \/ "mongo" \in Faults /\ UNCHANGED parked
    /\ Goto(w, "settle")
    /\ UNCHANGED <<redis, run, scan, env, owner, stamped, status, decision, announced, event>>

\* LoadPort.complete: DEL the lease, keep the load.  Best effort.
CompleteLease(w) ==
    /\ At(w, "settle")
    /\ \/ lease' = [lease EXCEPT ![rec[w]] = None]
       \/ "redis" \in Faults /\ UNCHANGED lease
    /\ Goto(w, "finish")
    /\ UNCHANGED <<mongo, load, run, scan, env>>

\* CommitPort.park upserts the queue item of the record: when an owning group
\* is known, and best effort.
Park(w) ==
    /\ At(w, "park")
    /\ parked' = parked \cup {rec[w]} \/ UNCHANGED parked
    /\ Goto(w, "finish")
    /\ UNCHANGED <<redis, run, scan, env, owner, stamped, status, decision, announced, event>>

-----------------------------------------------------------------------------
(* The end of execute().                                                    *)

\* Mutant: only an assignment is announced.
CompleteAnnouncingAssigned(w) ==
    /\ At(w, "finish")
    /\ IF status[rec[w]] = "processing"
       THEN /\ status' = [status EXCEPT ![rec[w]] = "completed"]
            /\ decision' = [decision EXCEPT ![rec[w]] = pick[w]]
       ELSE UNCHANGED <<status, decision>>
    /\ IF rec[w] \in announced \/ pick[w] = None THEN UNCHANGED <<announced, event>>
       ELSE /\ announced' = announced \cup {rec[w]}
            /\ event' = [event EXCEPT ![rec[w]] = pick[w]]
    /\ Return(w)
    /\ UNCHANGED <<redis, scan, env, owner, stamped, parked>>

\* finish() audits, then completeWithOutbox: one transaction over the command
\* and the outbox.  The event is only inserted when it does not exist.
CompleteWithOutbox(w) ==
    /\ At(w, "finish")
    /\ IF status[rec[w]] = "processing"
       THEN /\ status' = [status EXCEPT ![rec[w]] = "completed"]
            /\ decision' = [decision EXCEPT ![rec[w]] = pick[w]]
       ELSE UNCHANGED <<status, decision>>
    /\ IF rec[w] \in announced THEN UNCHANGED <<announced, event>>
       ELSE /\ announced' = announced \cup {rec[w]}
            /\ event' = [event EXCEPT ![rec[w]] = pick[w]]
    /\ Return(w)
    /\ UNCHANGED <<redis, scan, env, owner, stamped, parked>>

\* Mutant: the event is written outside of the transaction and survives it.
CompleteFailsHalfway(w) ==
    /\ At(w, "finish") /\ "mongo" \in Faults
    /\ IF rec[w] \in announced THEN UNCHANGED <<announced, event>>
       ELSE /\ announced' = announced \cup {rec[w]}
            /\ event' = [event EXCEPT ![rec[w]] = pick[w]]
    /\ Goto(w, "abort")
    /\ UNCHANGED <<redis, run, scan, env, owner, stamped, status, decision, parked>>

\* The transaction is rolled back and throws.
CompleteFails(w) ==
    /\ At(w, "finish") /\ "mongo" \in Faults
    /\ Goto(w, "abort")
    /\ UNCHANGED <<mongo, redis, run, scan, env>>

\* Mutant: the failure is written without looking at the status.
AbortUnconditionally(w) ==
    /\ At(w, "abort")
    /\ status' = [status EXCEPT ![rec[w]] = "failed"]
    /\ Return(w)
    /\ UNCHANGED <<redis, scan, env, owner, stamped, decision, announced, event, parked>>

\* catch: updateOne({ _id, status: 'processing' }, failed), then rethrow.
Abort(w) ==
    /\ At(w, "abort")
    /\ status' = IF status[rec[w]] = "processing"
                 THEN [status EXCEPT ![rec[w]] = "failed"] ELSE status
    /\ Return(w)
    /\ UNCHANGED <<redis, scan, env, owner, stamped, decision, announced, event, parked>>

-----------------------------------------------------------------------------
(* recoverStaleCommands: every minute, on every replica.                    *)

\* Mutants: the query forgets the age of the command, or is refused by the
\* tenant filter and finds nothing.
InProgress(r) == status[r] = "processing"
NeverAbandoned(r) == FALSE

\* A command nobody executes has stopped being updated.
Abandoned(r) ==
    /\ status[r] = "processing"
    /\ \A v \in Workers : ~(Executing(v) /\ rec[v] = r)

\* The query for commands in progress for over two minutes, whose result is
\* walked one command at a time: the abandoned ones, and with "slow" every one.
ScanStale(w) ==
    /\ w \in Recoverers /\ At(w, "idle") /\ scan[w] = {}
    /\ \/ /\ scan' = [scan EXCEPT ![w] = {r \in Records : Abandoned(r)}]
          /\ UNCHANGED incidents
       \/ /\ "slow" \in Faults /\ incidents < MaxIncidents
          /\ scan' = [scan EXCEPT ![w] = {r \in Records : status[r] = "processing"}]
          /\ incidents' = incidents + 1
    /\ scan'[w] # {}
    /\ UNCHANGED <<mongo, redis, pc, run, pending, touched, asks, moves>>

\* Compare-and-set processing -> failed, which looks at the status only, then
\* execute() with the stored request.
RecoverClaim(w, r) ==
    /\ At(w, "idle") /\ r \in scan[w]
    /\ scan' = [scan EXCEPT ![w] = @ \ {r}]
    /\ IF status[r] = "processing"
       THEN /\ status' = [status EXCEPT ![r] = "failed"]
            /\ rec' = [rec EXCEPT ![w] = r]
            /\ Goto(w, "enter")
       ELSE UNCHANGED <<status, rec, pc>>
    /\ UNCHANGED <<redis, pool, pick, flags, env, owner, stamped, decision, announced, event, parked>>

-----------------------------------------------------------------------------
(* The environment.                                                         *)

\* A person (or an import, a workflow) sets or clears the owner; the update
\* leaves lastAssignmentCommandId alone and emits a lifecycle event.
ChangeOwner(r, a) ==
    /\ moves < MaxMoves /\ owner[r] # a
    /\ owner' = [owner EXCEPT ![r] = a]
    /\ pending' = pending \cup {[id |-> moves, rec |-> r, from |-> owner[r], to |-> a]}
    /\ touched' = touched \cup {r}
    /\ moves' = moves + 1
    /\ UNCHANGED <<redis, local, stamped, status, decision, announced, event, parked, asks, incidents>>

\* RecordWorkloadListener.handle: both counters, then the queue item.
HandleLifecycle(e) ==
    /\ pending' = pending \ {e}
    /\ load' = [a \in Agents |-> CASE a = e.from -> Decrement(load[a])
                                   [] a = e.to -> load[a] + 1
                                   [] OTHER -> load[a]]
    /\ parked' = IF e.to # None THEN parked \ {e.rec} ELSE parked
    /\ UNCHANGED <<local, owner, stamped, status, decision, announced, event, lease,
                   touched, asks, incidents, moves>>

\* The process of an execution dies; MongoDB and Redis keep what was written.
Crash(w) ==
    /\ "crash" \in Faults /\ incidents < MaxIncidents
    /\ ~At(w, "idle") \/ scan[w] # {}
    /\ Return(w)
    /\ scan' = [scan EXCEPT ![w] = {}]
    /\ incidents' = incidents + 1
    /\ UNCHANGED <<mongo, redis, pending, touched, asks, moves>>

\* One step of an execution that has begun.
Advance(w) ==
    \/ Enter(w) \/ Create(w) \/ Retry(w) \/ Conflict(w)
    \/ ResolveTarget(w) \/ Unrouted(w)
    \/ LookupLease(w) \/ DropStaleLoad(w) \/ DropStaleLease(w)
    \/ Reserve(w) \/ NoneReserved(w) \/ DirectUnreserved(w)
    \/ Commit(w) \/ CommitRaceLost(w) \/ CommitFails(w)
    \/ ReleaseLoad(w) \/ ReleaseLease(w) \/ ReleaseFails(w)
    \/ CleanQueue(w) \/ CompleteLease(w) \/ Park(w)
    \/ CompleteWithOutbox(w) \/ CompleteFails(w) \/ Abort(w)

Recover(w) == ScanStale(w) \/ \E r \in Records : RecoverClaim(w, r)

Next ==
    \/ \E w \in Workers : Advance(w) \/ Recover(w) \/ Crash(w)
    \/ \E w \in Workers, r \in Records : Submit(w, r)
    \/ \E r \in Records, a \in Assignee : ChangeOwner(r, a)
    \/ \E e \in pending : HandleLifecycle(e)

Spec == Init /\ [][Next]_vars

(***************************************************************************)
(* Executions advance, the cron ticks and event handlers run.  Creations,  *)
(* people, crashes and failures are free not to happen.                    *)
(***************************************************************************)
Fairness ==
    /\ \A w \in Workers : WF_vars(Advance(w)) /\ WF_vars(Recover(w))
    /\ WF_vars(\E e \in pending : HandleLifecycle(e))

FairSpec == Spec /\ Fairness

-----------------------------------------------------------------------------
(* Properties.                                                              *)

\* However often a command is run, recovered or raced, a decision that was
\* recorded is the decision every later caller is given.
DecisionIsFinal ==
    [][\A r \in Records :
         status[r] = "completed" => status'[r] = "completed" /\ decision'[r] = decision[r]]_vars

\* A completed command has its outbox event: no consumer misses a decision.
CompletedIsAnnounced ==
    \A r \in Records : status[r] = "completed" => r \in announced

\* The event announces the decision the command recorded, and none is there
\* before the decision is: consumers act on what the command store says.
EventMatchesDecision ==
    \A r \in Records :
        r \in announced => status[r] = "completed" /\ event[r] = decision[r]

\* A command that recorded an assignee is telling the truth: that person owns
\* the record unless somebody changed the owner by hand.
DecidedOwner ==
    \A r \in Records :
        status[r] = "completed" /\ decision[r] # None /\ r \notin touched
            => owner[r] = decision[r]

\* No two executions work on one command at the same time.
SingleExecutor ==
    \A v, w \in Workers : Executing(v) /\ Executing(w) /\ rec[v] = rec[w] => v = w

\* Slots an execution holds between reserving and committing or releasing.
Held(a) == {w \in Workers : pc[w] \in {"commit", "unload", "dropLoad"} /\ pick[w] = a}
Owned(a) == {r \in Records : owner[r] = a}
Gained(a) == {e \in pending : e.to = a}
Ceded(a) == {e \in pending : e.from = a}

\* The load store counts exactly the records a person owns and the slots held
\* for her, up to lifecycle events that are still to be handled.
ReservationAccounting ==
    \A a \in Agents :
        load[a] + Cardinality(Gained(a))
            = Cardinality(Owned(a)) + Cardinality(Held(a)) + Cardinality(Ceded(a))

\* Concurrent decisions never give one person more than the ceiling, whoever
\* moves other records meanwhile.  Records a person has moved do not count, and
\* the fallback owner takes what nobody can without a ceiling.
CapacityRespected ==
    \A a \in Agents \ {Fallback} :
        Cardinality(Owned(a) \ touched) + Cardinality(Held(a)) <= Cap

\* A command in progress is completed or failed in the end, crashes included.
CommandSettles ==
    \A r \in Records : (status[r] = "processing") ~> (status[r] \in {"completed", "failed"})
=============================================================================
