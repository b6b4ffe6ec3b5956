-------------------------- MODULE AssignmentQueue --------------------------
(***************************************************************************)
(* The team queue of unassigned CRM records (assignment_queue_items):      *)
(* operators claim an item for somebody or retry its assignment, automatic *)
(* decisions file and remove items, a cron puts stale operations back and  *)
(* another escalates items that wait too long.                             *)
(*                                                                         *)
(* A call is one process; each of its steps is one await of the code.  An  *)
(* automatic decision is an execution of a command of AssignmentCommand    *)
(* seen from the queue, and takes the same path through the core as a      *)
(* retry.  The load store (Workload, AssignmentCommand) is left out.       *)
(***************************************************************************)
EXTENDS Naturals, FiniteSets

CONSTANTS
    Records,      \* records that may wait for an owner
    Agents,       \* people who can own a record
    Calls,        \* concurrent calls, over all replicas
    Replicas,     \* replicas that run the escalation cron
    None,
    Faults,       \* which incidents may happen
    MaxRuns,      \* bound: calls, so also operations and items
    MaxIncidents, \* bound: crashes, failures and operations taken for stale
    MaxMoves      \* bound: owner changes made by people

ASSUME QueueAssumption ==
    /\ None \notin Agents \cup Records
    /\ Faults \subseteq {"crash", "mongo", "slow"}
    /\ MaxRuns \in Nat /\ MaxIncidents \in Nat /\ MaxMoves \in Nat

VARIABLES
    \* MongoDB
    owner,       \* deliberate owner of the record, or None
    status,      \* status of the record's item, "none" without an item
    itemId,      \* _id of its present or last item
    operation,   \* operationId of the item, 0: unset
    escalations, \* escalationCount of the item
    announced,   \* items with an outbox event "queue:<_id>:sla:1"
    \* calls
    pc, kind, rec, op, pick,
    \* the escalation cron
    due,         \* items a run has found overdue and not yet tried
    \* the environment
    pending,     \* lifecycle events of owner changes not handled yet
    touched,     \* history: records whose owner a person has changed
    filed,       \* history: records that have been in the queue
    told,        \* history: claims answered 'assigned', and for whom
    runs, ids, moves, incidents

items == <<status, itemId, operation, escalations>>
call == <<kind, rec, op, pick>>
history == <<touched, filed, told>>
counts == <<runs, ids, moves, incidents>>
vars == <<owner, items, announced, pc, call, due, pending, history, counts>>

Busy(r) == status[r] \in {"claiming", "retrying"}
Kinds == {"claiming", "retrying", "command"}
Pcs == {"idle", "check", "pool", "commit", "clean", "park", "finish", "release"}

TypeOK ==
    /\ owner \in [Records -> Agents \cup {None}]
    /\ status \in [Records -> {"none", "queued", "claiming", "retrying"}]
    /\ itemId \in [Records -> Nat]
    /\ operation \in [Records -> Nat]
    /\ escalations \in [Records -> Nat]
    /\ announced \subseteq Nat
    /\ pc \in [Calls -> Pcs]
    /\ kind \in [Calls -> Kinds]
    /\ rec \in [Calls -> Records \cup {None}]
    /\ op \in [Calls -> Nat]
    /\ pick \in [Calls -> Agents \cup {None}]
    /\ \A c \in Calls :
         /\ pc[c] # "idle" => rec[c] \in Records
         /\ pc[c] \in {"check", "commit", "clean"} => pick[c] \in Agents
         /\ pc[c] = "release" => kind[c] # "command"
    /\ due \in [Replicas -> SUBSET Nat]
    /\ pending \subseteq [id : Nat, rec : Records, to : Agents \cup {None}]
    /\ touched \subseteq Records
    /\ filed \subseteq Records
    /\ told \subseteq Records \X Agents
    /\ runs \in Nat /\ ids \in Nat /\ moves \in Nat /\ incidents \in Nat

Init ==
    /\ owner = [r \in Records |-> None]
    /\ status = [r \in Records |-> "none"]
    /\ itemId = [r \in Records |-> 0]
    /\ operation = [r \in Records |-> 0]
    /\ escalations = [r \in Records |-> 0]
    /\ announced = {}
    /\ pc = [c \in Calls |-> "idle"]
    /\ kind = [c \in Calls |-> "command"]
    /\ rec = [c \in Calls |-> None]
    /\ op = [c \in Calls |-> 0]
    /\ pick = [c \in Calls |-> None]
    /\ due = [x \in Replicas |-> {}]
    /\ pending = {}
    /\ touched = {} /\ filed = {} /\ told = {}
    /\ runs = 0 /\ ids = 0 /\ moves = 0 /\ incidents = 0

At(c, l) == pc[c] = l
Goto(c, l) == pc' = [pc EXCEPT ![c] = l]
Incident(f) == f \in Faults /\ incidents < MaxIncidents /\ incidents' = incidents + 1
Served == UNCHANGED <<announced, due, pending>>

Return(c) ==
    /\ Goto(c, "idle")
    /\ kind' = [kind EXCEPT ![c] = "command"]
    /\ rec' = [rec EXCEPT ![c] = None]
    /\ op' = [op EXCEPT ![c] = 0]
    /\ pick' = [pick EXCEPT ![c] = None]

\* A call that fails or assigns nobody ends; an operator's puts its item back.
GiveUp(c) ==
    IF kind[c] = "command" THEN Return(c) ELSE Goto(c, "release") /\ UNCHANGED call

-----------------------------------------------------------------------------
(* Calls.                                                                   *)

\* A call starts and is numbered; an operator's operation takes the number.
Start(c, r, k, a, l) ==
    /\ At(c, "idle") /\ runs < MaxRuns
    /\ runs' = runs + 1
    /\ kind' = [kind EXCEPT ![c] = k]
    /\ rec' = [rec EXCEPT ![c] = r]
    /\ op' = [op EXCEPT ![c] = runs + 1]
    /\ pick' = [pick EXCEPT ![c] = a]
    /\ Goto(c, l)
    /\ UNCHANGED <<owner, itemId, escalations, history, ids, moves, incidents>>
    /\ Served

\* acquire(): compare-and-set queued -> claiming or retrying under a new
\* operationId.  Anything else is a 404 or a 409.
Acquire(c, r, k, a, l) ==
    /\ status[r] = "queued"
    /\ status' = [status EXCEPT ![r] = k]
    /\ operation' = [operation EXCEPT ![r] = runs + 1]
    /\ Start(c, r, k, a, l)

Claim(c, r, a) == Acquire(c, r, "claiming", a, "check")
Retry(c, r) == Acquire(c, r, "retrying", None, "pool")

\* An automatic decision about the record.
Decide(c, r) ==
    /\ Start(c, r, "command", None, "pool")
    /\ UNCHANGED <<status, operation>>

\* assertEligibleAssignee() accepts or refuses the person named.
CheckAssignee(c) ==
    /\ At(c, "check")
    /\ (Goto(c, "commit") /\ UNCHANGED call) \/ GiveUp(c)
    /\ UNCHANGED <<owner, items, history, counts>> /\ Served

\* The candidate the core reserves, if any; the decision is 'skipped' or
\* 'groupNotEligible' and files nothing; or reading the policy throws.
SelectCandidate(c) ==
    /\ At(c, "pool")
    /\ \/ /\ \E a \in Agents : pick' = [pick EXCEPT ![c] = a]
          /\ Goto(c, "commit")
          /\ UNCHANGED <<kind, rec, op>>
       \/ (Goto(c, "park") \/ Goto(c, "finish")) /\ UNCHANGED call
       \/ GiveUp(c)
    /\ UNCHANGED <<owner, items, history, counts>> /\ Served

\* Mutant: the compare-and-set forgets the owner it compares with.
CommitUnconditionally(c) ==
    /\ At(c, "commit")
    /\ owner' = [owner EXCEPT ![rec[c]] = pick[c]]
    /\ Goto(c, "clean")
    /\ UNCHANGED <<items, call, history, counts>> /\ Served

\* RecordCommitPort.commit: an unset or defaulted owner is claimed.
Commit(c) ==
    /\ At(c, "commit") /\ owner[rec[c]] = None
    /\ owner' = [owner EXCEPT ![rec[c]] = pick[c]]
    /\ Goto(c, "clean")
    /\ UNCHANGED <<items, call, history, counts>> /\ Served

\* Mutant: an automatic decision that lost releases an operation it has not.
RaceLostReleases(c) ==
    /\ At(c, "commit") /\ owner[rec[c]] # None
    /\ pick' = [pick EXCEPT ![c] = None]
    /\ Goto(c, "release")
    /\ UNCHANGED <<owner, items, kind, rec, op, history, counts>> /\ Served

\* A lost race: commitDirect() of a claim ends there, a strategy's decision
\* goes to queueOrFallback().
CommitRaceLost(c) ==
    /\ At(c, "commit") /\ owner[rec[c]] # None
    /\ pick' = [pick EXCEPT ![c] = None]
    /\ Goto(c, IF kind[c] = "claiming" THEN "finish" ELSE "park")
    /\ UNCHANGED <<owner, items, kind, rec, op, history, counts>> /\ Served

\* Mutant: a write that threw still cleans the queue.
CommitFailsAndCleans(c) ==
    /\ At(c, "commit") /\ Incident("mongo")
    /\ Goto(c, "clean")
    /\ UNCHANGED <<owner, items, call, history, runs, ids, moves>> /\ Served

CommitFails(c) ==
    /\ At(c, "commit") /\ Incident("mongo")
    /\ GiveUp(c)
    /\ UNCHANGED <<owner, items, history, runs, ids, moves>> /\ Served

\* CommitPort.complete deletes the record's item, whatever its state.
Remove(r) ==
    /\ status' = [status EXCEPT ![r] = "none"]
    /\ operation' = [operation EXCEPT ![r] = 0]
    /\ UNCHANGED <<itemId, escalations>>

CleanQueue(c) ==
    /\ At(c, "clean")
    /\ Remove(rec[c])
    /\ Goto(c, "finish")
    /\ UNCHANGED <<owner, call, history, counts>> /\ Served

\* Best effort: a failing delete or park is logged.
CleanQueueFails(c) ==
    /\ pc[c] \in {"clean", "park"} /\ Incident("mongo")
    /\ Goto(c, "finish")
    /\ UNCHANGED <<owner, items, call, history, runs, ids, moves>> /\ Served

\* CommitPort.park: an upsert that sets 'queued' and leaves the operationId.
Park(c) ==
    /\ At(c, "park")
    /\ status' = [status EXCEPT ![rec[c]] = "queued"]
    /\ IF status[rec[c]] = "none"
       THEN /\ ids' = ids + 1
            /\ itemId' = [itemId EXCEPT ![rec[c]] = ids + 1]
            /\ escalations' = [escalations EXCEPT ![rec[c]] = 0]
       ELSE UNCHANGED <<ids, itemId, escalations>>
    /\ filed' = filed \cup {rec[c]}
    /\ Goto(c, "finish")
    /\ UNCHANGED <<owner, operation, call, touched, told, runs, moves, incidents>>
    /\ Served

\* The decision is audited and, if it assigned, answered.
Finish(c) ==
    /\ At(c, "finish")
    /\ IF pick[c] = None THEN GiveUp(c) ELSE Return(c)
    /\ told' = IF kind[c] = "claiming" /\ pick[c] # None
               THEN told \cup {<<rec[c], pick[c]>>} ELSE told
    /\ UNCHANGED <<owner, items, touched, filed, counts>> /\ Served

\* The audit row cannot be written: the call throws although it may have
\* assigned.
FinishFails(c) ==
    /\ At(c, "finish") /\ Incident("mongo")
    /\ GiveUp(c)
    /\ UNCHANGED <<owner, items, history, runs, ids, moves>> /\ Served

\* release(): updateOne({ _id, operationId }).  An operationId names one item.
Release(c) ==
    /\ At(c, "release")
    /\ IF operation[rec[c]] = op[c]
       THEN /\ status' = [status EXCEPT ![rec[c]] = "queued"]
            /\ operation' = [operation EXCEPT ![rec[c]] = 0]
       ELSE UNCHANGED <<status, operation>>
    /\ Return(c)
    /\ UNCHANGED <<owner, itemId, escalations, history, counts>> /\ Served

ReleaseFails(c) ==
    /\ At(c, "release") /\ Incident("mongo")
    /\ Return(c)
    /\ UNCHANGED <<owner, items, history, runs, ids, moves>> /\ Served

Crash(c) ==
    /\ ~At(c, "idle") /\ Incident("crash")
    /\ Return(c)
    /\ UNCHANGED <<owner, items, history, runs, ids, moves>> /\ Served

-----------------------------------------------------------------------------
(* AssignmentQueueMaintenanceService, every minute on every replica.        *)

\* Nobody works on the operation any more, so it grows old.
Abandoned(r) ==
    Busy(r) /\ ~\E c \in Calls : ~At(c, "idle") /\ op[c] = operation[r]

\* Mutant: the tenant filter refuses the query.
RecoverNothing(r) == FALSE /\ UNCHANGED vars

\* recoverStaleOperations: an operation of more than five minutes, which with
\* "slow" may still be running.
RecoverStale(r) ==
    /\ Busy(r)
    /\ \/ Abandoned(r) /\ UNCHANGED incidents
       \/ Incident("slow")
    /\ status' = [status EXCEPT ![r] = "queued"]
    /\ operation' = [operation EXCEPT ![r] = 0]
    /\ UNCHANGED <<owner, itemId, escalations, pc, call, history, runs, ids, moves>>
    /\ Served

Waiting(r) == status[r] = "queued" /\ escalations[r] = 0

\* escalateOverdueItems reads items that have waited too long ...
FindOverdue(x) ==
    /\ due[x] = {}
    /\ \E S \in SUBSET {r \in Records : Waiting(r)} \ {{}} :
         due' = [due EXCEPT ![x] = {itemId[r] : r \in S}]
    /\ UNCHANGED <<owner, items, announced, pc, call, pending, history, counts>>

\* Mutants: the update marks an item that another replica has escalated since
\* it was found, or none that has an operationId.
MarksAgain(r) == status[r] = "queued"
MarksUntried(r) == Waiting(r) /\ operation[r] = 0
StillWaiting(r) == Waiting(r)

\* ... and escalates each in a transaction: mark it if it still waits, and
\* upsert its event.
Escalate(x, i) ==
    /\ i \in due[x]
    /\ due' = [due EXCEPT ![x] = @ \ {i}]
    /\ LET hit == {r \in Records : itemId[r] = i /\ StillWaiting(r)} IN
         /\ escalations' = [r \in Records |->
                              IF r \in hit THEN escalations[r] + 1 ELSE escalations[r]]
         /\ announced' = IF hit = {} THEN announced ELSE announced \cup {i}
    /\ UNCHANGED <<owner, status, itemId, operation, pc, call, pending, history, counts>>

\* A transaction that throws ends the run.
EscalateFails(x) ==
    /\ due[x] # {} /\ Incident("mongo")
    /\ due' = [due EXCEPT ![x] = {}]
    /\ UNCHANGED <<owner, items, announced, pc, call, pending, history, runs, ids, moves>>

-----------------------------------------------------------------------------
(* The environment.                                                         *)

\* A person sets or clears the owner, which emits a lifecycle event.
ChangeOwner(r, a) ==
    /\ moves < MaxMoves /\ owner[r] # a
    /\ owner' = [owner EXCEPT ![r] = a]
    /\ pending' = pending \cup {[id |-> moves, rec |-> r, to |-> a]}
    /\ touched' = touched \cup {r}
    /\ moves' = moves + 1
    /\ UNCHANGED <<items, announced, pc, call, due, filed, told, runs, ids, incidents>>

\* RecordWorkloadListener.handle: an owned record leaves the queue.
HandleLifecycle(e) ==
    /\ e \in pending
    /\ pending' = pending \ {e}
    /\ IF e.to # None THEN Remove(e.rec) ELSE UNCHANGED items
    /\ UNCHANGED <<owner, announced, pc, call, due, history, counts>>

Advance(c) ==
    \/ CheckAssignee(c) \/ SelectCandidate(c)
    \/ Commit(c) \/ CommitRaceLost(c) \/ CommitFails(c)
    \/ CleanQueue(c) \/ CleanQueueFails(c) \/ Park(c)
    \/ Finish(c) \/ FinishFails(c) \/ Release(c) \/ ReleaseFails(c)

Next ==
    \/ \E c \in Calls : Advance(c) \/ Crash(c)
    \/ \E c \in Calls, r \in Records :
         Retry(c, r) \/ Decide(c, r) \/ \E a \in Agents : Claim(c, r, a)
    \/ \E r \in Records : RecoverStale(r)
    \/ \E x \in Replicas : FindOverdue(x) \/ EscalateFails(x)
                           \/ \E i \in due[x] : Escalate(x, i)
    \/ \E r \in Records, a \in Agents \cup {None} : ChangeOwner(r, a)
    \/ \E e \in pending : HandleLifecycle(e)

Spec == Init /\ [][Next]_vars

(***************************************************************************)
(* Calls advance, both crons tick, an item that waits becomes overdue and  *)
(* event handlers run.                                                     *)
(***************************************************************************)
Fairness ==
    /\ \A c \in Calls : WF_vars(Advance(c))
    /\ \A r \in Records : WF_vars(RecoverStale(r))
    /\ \A x \in Replicas : WF_vars(FindOverdue(x) \/ \E i \in due[x] : Escalate(x, i))
    /\ WF_vars(\E e \in pending : HandleLifecycle(e))

FairSpec == Spec /\ Fairness

-----------------------------------------------------------------------------
(* Properties.                                                              *)

\* An operator whose claim was answered 'assigned' was told the truth: however
\* many operators, retries and stale operations raced for the record, it
\* belongs to the person named unless somebody changed it by hand.
ToldIsOwner ==
    \A t \in told : t[1] \in touched \/ owner[t[1]] = t[2]

\* A record that has been in the queue and still has no owner is still there:
\* no failure, lost race or crash takes it out of everybody's sight.
NoRecordLost ==
    \A r \in filed \ touched : owner[r] = None => status[r] # "none"

\* An operator who gives up puts back the item of that operation only, not
\* one that was recovered as stale and taken by somebody else meanwhile.
ReleaseIsOwn ==
    [][\A c \in Calls, r \in Records :
         At(c, "release") /\ pc'[c] = "idle" /\ operation[r] # op[c]
             => status'[r] = status[r] /\ operation'[r] = operation[r]]_vars

\* Whatever number of replicas found it overdue, an item is escalated at most
\* once, and announced if and only if it is.
EscalatedOnce ==
    \A r \in Records :
        /\ escalations[r] \in 0 .. 1
        /\ itemId[r] # 0 => (escalations[r] = 1 <=> itemId[r] \in announced)

\* An item somebody was working on is put back or leaves the queue, whatever
\* became of the call.
OperationSettles == \A r \in Records : Busy(r) ~> ~Busy(r)

\* An item that waits is escalated unless somebody takes it.
EscalationHappens == \A r \in Records : Waiting(r) ~> ~Waiting(r)

-----------------------------------------------------------------------------
(* A comment of the code that the code does not keep.                       *)

\* Queue membership is for an unassigned record (record-commit.port.ts:106):
\* when nothing runs, a record in the queue has no owner.
ParkedIsUnowned ==
    (\A c \in Calls : At(c, "idle")) /\ pending = {}
        => \A r \in Records : status[r] # "none" => owner[r] = None
=============================================================================
