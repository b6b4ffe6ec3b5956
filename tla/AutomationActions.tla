-------------------------- MODULE AutomationActions --------------------------
(***************************************************************************)
(* One execution of an automation workflow (src/src/automation-rules): its *)
(* action nodes are jobs of BullMQ queues, a worker runs one under an      *)
(* exactly-once claim in Redis and then continues the graph along the      *)
(* branch that happened.  Beside the workers: the orchestrator's first     *)
(* segment, the dead-letter queue, and operators who retry a step by hand. *)
(*                                                                         *)
(* Between two actions a graph has triggers and conditions, which only     *)
(* choose the actions reached: Edges stands for them.  Wait nodes and the  *)
(* loop guards are left out.                                               *)
(***************************************************************************)
EXTENDS Naturals, Sequences, FiniteSets

CONSTANTS
    Nodes,        \* action nodes of the published graph
    Roots,        \* those the trigger leads to
    Edges,        \* <<node, branch, node>>
    Metered,      \* nodes that send email or SMS
    Concurrency,  \* of the action queues' workers, together
    Attempts,     \* DEFAULT_JOB_OPTIONS.attempts
    MaxStalls,    \* maxStalledCount of BullMQ
    None,
    Faults,       \* which incidents may happen
    MaxIncidents  \* bound: incidents and manual retries together

Branches == {"success", "failure"}

ASSUME ActionsAssumption ==
    /\ IsFiniteSet(Nodes) /\ Roots \subseteq Nodes /\ Metered \subseteq Nodes
    /\ Edges \subseteq Nodes \X Branches \X Nodes
    /\ Concurrency \in Nat \ {0} /\ Attempts \in Nat \ {0} /\ MaxStalls \in Nat
    /\ None \notin Nodes
    /\ Faults \subseteq {"crash", "stall", "mongo", "redis"}
    /\ MaxIncidents \in Nat

\* A node's first job has a deterministic id, a manual retry has its own.
Jobs == Nodes \X (0 .. MaxIncidents)

\* A worker that runs a job, which has been taken from others so many times.
Runs == Jobs \X (0 .. MaxStalls)

VARIABLES
    \* MongoDB: the execution log
    status,
    steps,
    \* Redis
    claim,        \* nodes whose exactly-once key exists
    job, tries, stalls, \* BullMQ: state, attemptsMade, stalled count
    dead,         \* nodes with a job in the dead-letter queue
    pc, result, last, todo, \* of each run
    starting,     \* roots the first segment has still to dispatch
    operator,     \* the manual retry in progress
    incidents,
    \* history
    retries,      \* manual retries dispatched or being dispatched
    cleared,      \* how often an operator has deleted the node's claim
    successes,    \* how often an executor of the node reported success
    taken         \* branches taken after the node

execution == <<status, steps>>
queue == <<job, tries, stalls>>
worker == <<pc, result, last, todo>>
people == <<operator, retries, cleared>>
history == <<successes, taken>>
vars == <<execution, claim, queue, dead, worker, starting, people, history, incidents>>

Pcs == {"idle", "claim", "run", "confirm", "log", "release", "deadLetter",
        "continue", "abort", "done", "throw"}
Results == {"none", "success", "failure", "retry", "denied", "overQuota"}
Step == [node : Nodes, status : {"success", "failed", "dlq", "retrying"}]

TypeOK ==
    /\ status \in {"running", "success", "failed"}
    /\ steps \in Seq(Step)
    /\ claim \subseteq Nodes
    /\ job \in [Jobs -> {"none", "waiting", "active", "completed", "failed"}]
    /\ tries \in [Jobs -> 0 .. Attempts]
    /\ stalls \in [Jobs -> 0 .. MaxStalls]
    /\ dead \subseteq Nodes
    /\ pc \in [Runs -> Pcs]
    /\ result \in [Runs -> Results]
    /\ last \in [Runs -> BOOLEAN]
    /\ todo \in [Runs -> SUBSET Nodes]
    /\ \A j \in Jobs : tries[j] = Attempts => job[j] = "failed"
    /\ starting \subseteq Roots
    /\ operator \in [at : {"idle", "clear", "dispatch"}, node : Nodes \cup {None}]
    /\ operator.at # "idle" => operator.node \in Nodes
    /\ incidents \in Nat /\ retries \in Nat
    /\ incidents + retries <= MaxIncidents
    /\ cleared \in [Nodes -> Nat]
    /\ successes \in [Nodes -> Nat]
    /\ taken \in [Nodes -> SUBSET Branches]

Idle == [at |-> "idle", node |-> None]

Init ==
    /\ status = "running" /\ steps = <<>> /\ claim = {}
    /\ job = [j \in Jobs |-> "none"]
    /\ tries = [j \in Jobs |-> 0] /\ stalls = [j \in Jobs |-> 0]
    /\ dead = {}
    /\ pc = [w \in Runs |-> "idle"]
    /\ result = [w \in Runs |-> "none"] /\ last = [w \in Runs |-> FALSE]
    /\ todo = [w \in Runs |-> {}]
    /\ starting = Roots
    /\ operator = Idle /\ retries = 0 /\ cleared = [n \in Nodes |-> 0]
    /\ successes = [n \in Nodes |-> 0] /\ taken = [n \in Nodes |-> {}]
    /\ incidents = 0

Incident(f) ==
    /\ f \in Faults /\ incidents + retries < MaxIncidents
    /\ incidents' = incidents + 1

Node(w) == w[1][1]

\* The run holds the lock of its job.
Locked(w) == job[w[1]] = "active" /\ stalls[w[1]] = w[2]
Targets(n, branch) == {m \in Nodes : <<n, branch, m>> \in Edges}

\* A step of worker w from one place to another.
Move(w, from, to) == pc[w] = from /\ pc' = [pc EXCEPT ![w] = to]

Leave(w) ==
    /\ pc' = [pc EXCEPT ![w] = "idle"]
    /\ result' = [result EXCEPT ![w] = "none"]
    /\ last' = [last EXCEPT ![w] = FALSE]
    /\ todo' = [todo EXCEPT ![w] = {}]

\* Queue.add: a job id that exists makes it a no-op.
Add(j) == job' = IF job[j] = "none" THEN [job EXCEPT ![j] = "waiting"] ELSE job

-----------------------------------------------------------------------------
(* WorkflowOrchestratorService.executeInternal: the segment from the trigger *)

Dispatch(n) ==
    /\ n \in starting
    /\ starting' = starting \ {n}
    /\ Add(<<n, 0>>)
    /\ UNCHANGED <<execution, claim, tries, stalls, dead, worker, people, history, incidents>>

DispatchFails ==
    /\ starting # {}
    /\ Incident("redis") \/ Incident("mongo")
    /\ starting' = {}
    /\ status' = "failed"
    /\ UNCHANGED <<steps, claim, queue, dead, worker, people, history>>

\* The trigger's job is run again, as another execution.
StarterDies ==
    /\ starting # {} /\ Incident("crash")
    /\ starting' = {}
    /\ UNCHANGED <<execution, claim, queue, dead, worker, people, history>>

-----------------------------------------------------------------------------
(* ActionProcessorMixin.runAction                                            *)

Take(j) ==
    LET w == <<j, stalls[j]>> IN
    /\ job[j] = "waiting" /\ Cardinality({v \in Runs : pc[v] # "idle"}) < Concurrency
    /\ job' = [job EXCEPT ![j] = "active"]
    /\ pc' = [pc EXCEPT ![w] = "claim"]
    /\ last' = [last EXCEPT ![w] = tries[j] + 1 >= Attempts]
    /\ UNCHANGED <<execution, claim, tries, stalls, dead, result, todo, starting, people, history, incidents>>

Outcome(w, r) == result' = [result EXCEPT ![w] = r]

\* consumeMessage, asked before the claim, refuses for a while or for the day.
RefuseQuota(w) ==
    /\ Move(w, "claim", "log") /\ Node(w) \in Metered
    /\ (~last[w] /\ Outcome(w, "denied")) \/ Outcome(w, "overQuota")
    /\ UNCHANGED <<execution, claim, queue, dead, last, todo, starting, people, history, incidents>>

\* Mutant: SET without NX.
ClaimAnyway(w) ==
    /\ Move(w, "claim", "run")
    /\ claim' = claim \cup {Node(w)}
    /\ UNCHANGED <<execution, queue, dead, result, last, todo, starting, people, history, incidents>>

\* ActionIdempotencyService.claim.
Claim(w) ==
    /\ Move(w, "claim", "run") /\ Node(w) \notin claim
    /\ claim' = claim \cup {Node(w)}
    /\ UNCHANGED <<execution, queue, dead, result, last, todo, starting, people, history, incidents>>

\* "already executed": the job completes and nothing follows.
Skip(w) ==
    /\ Move(w, "claim", "done") /\ Node(w) \in claim
    /\ UNCHANGED <<execution, claim, queue, dead, result, last, todo, starting, people, history, incidents>>

\* Redis fails before or after it has set the key.
ClaimFails(w) ==
    /\ Move(w, "claim", "throw") /\ Incident("redis")
    /\ claim' \in {claim, claim \cup {Node(w)}}
    /\ UNCHANGED <<execution, queue, dead, result, last, todo, starting, people, history>>

\* The executor succeeds, or fails for good, or in a way worth a retry (an
\* exception too, which leaves open whether the effect has landed).
Execute(w) ==
    /\ \/ /\ Move(w, "run", "confirm") /\ Outcome(w, "success")
          /\ successes' = [successes EXCEPT ![Node(w)] = @ + 1]
       \/ Move(w, "run", "confirm") /\ Outcome(w, "failure") /\ UNCHANGED successes
       \/ Move(w, "run", "log") /\ ~last[w] /\ Outcome(w, "retry") /\ UNCHANGED successes
    /\ UNCHANGED <<execution, claim, queue, dead, last, todo, starting, people, taken, incidents>>

\* confirm() swallows its error.
Confirm(w) ==
    /\ Move(w, "confirm", "log")
    /\ \/ claim' = claim \cup {Node(w)} /\ UNCHANGED incidents
       \/ Incident("redis") /\ UNCHANGED claim
    /\ UNCHANGED <<execution, queue, dead, result, last, todo, starting, people, history>>

\* What comes after logActionStep.
AfterLog(r) ==
    CASE r = "success" -> "continue"
      [] r = "retry" -> "release"
      [] r = "denied" -> "throw"
      [] OTHER -> "deadLetter"

Branch(r) == IF r = "success" THEN "success" ELSE "failure"

\* continueAfterAction takes the edges of the branch.
Continue(w) ==
    IF AfterLog(result[w]) = "continue" \/ pc[w] = "deadLetter"
    THEN /\ todo' = [todo EXCEPT ![w] = Targets(Node(w), Branch(result[w]))]
         /\ taken' = [taken EXCEPT ![Node(w)] = @ \cup {Branch(result[w])}]
    ELSE UNCHANGED <<todo, taken>>

\* logActionStep swallows its error.
LogStep(w) ==
    /\ Move(w, "log", AfterLog(result[w]))
    /\ \/ /\ steps' = Append(steps, [node |-> Node(w),
                 status |-> IF result[w] = "success" THEN "success" ELSE "failed"])
          /\ UNCHANGED incidents
       \/ Incident("mongo") /\ UNCHANGED steps
    /\ Continue(w)
    /\ UNCHANGED <<status, claim, queue, dead, result, last, starting, people, successes>>

\* Mutant: the claim is kept when a retry is due.
ReleaseNothing(w) ==
    /\ Move(w, "release", "throw")
    /\ UNCHANGED <<execution, claim, queue, dead, result, last, todo, starting, people, history, incidents>>

\* release() deletes the key, whoever has set it, and swallows its error.
Release(w) ==
    /\ Move(w, "release", "throw")
    /\ \/ claim' = claim \ {Node(w)} /\ UNCHANGED incidents
       \/ Incident("redis") /\ UNCHANGED claim
    /\ UNCHANGED <<execution, queue, dead, result, last, todo, starting, people, history>>

\* sendToDlq swallows its error.
DeadLetter(w) ==
    /\ Move(w, "deadLetter", "continue")
    /\ \/ dead' = dead \cup {Node(w)} /\ UNCHANGED incidents
       \/ Incident("redis") /\ UNCHANGED dead
    /\ Continue(w)
    /\ UNCHANGED <<execution, claim, queue, result, last, starting, people, successes>>

\* traverseFromNode reaches an action node.
Follow(w, n) ==
    /\ pc[w] = "continue" /\ n \in todo[w]
    /\ todo' = [todo EXCEPT ![w] = @ \ {n}]
    /\ Add(<<n, 0>>)
    /\ UNCHANGED <<execution, claim, tries, stalls, dead, pc, result, last, starting, people, history, incidents>>

\* A traversal that throws fails the execution.
FollowFails(w) ==
    /\ todo[w] # {} /\ Move(w, "continue", "abort")
    /\ Incident("redis") \/ Incident("mongo")
    /\ UNCHANGED <<execution, claim, queue, dead, result, last, todo, starting, people, history>>

Abort(w) ==
    /\ Move(w, "abort", "done")
    /\ status' = "failed"
    /\ UNCHANGED <<steps, claim, queue, dead, result, last, todo, starting, people, history, incidents>>

\* Mutant: the status guard of completeExecution is dropped.
SettledUnguarded(branch, targets) ==
    IF branch = "failure" THEN "failed" ELSE IF targets = {} THEN "success" ELSE status

\* failExecution is unconditional; completeExecution leaves a terminal status,
\* and a branch that has dispatched something leaves the rest to it.
Settled(branch, targets) ==
    IF branch = "failure" THEN "failed"
    ELSE IF targets = {} /\ status = "running" THEN "success" ELSE status

Settle(w) ==
    /\ Move(w, "continue", "done") /\ todo[w] = {}
    /\ LET branch == Branch(result[w])
       IN  status' = Settled(branch, Targets(Node(w), branch))
    /\ UNCHANGED <<steps, claim, queue, dead, result, last, todo, starting, people, history, incidents>>

\* Both status writes throw out of the processor; an outage that stops the
\* traversal may stop the write that should tell of it.
SettleFails(w) ==
    /\ Move(w, "continue", "throw") \/ Move(w, "abort", "throw")
    /\ Incident("mongo")
    /\ UNCHANGED <<execution, claim, queue, dead, result, last, todo, starting, people, history>>

-----------------------------------------------------------------------------
(* BullMQ                                                                    *)

\* The job's state changes only for the run that still holds its lock.
Finish(w, state) == job' = IF Locked(w) THEN [job EXCEPT ![w[1]] = state] ELSE job

Return(w) ==
    /\ pc[w] = "done"
    /\ Finish(w, "completed")
    /\ Leave(w)
    /\ UNCHANGED <<execution, claim, tries, stalls, dead, starting, people, history, incidents>>

\* Mutant: the attempt that fails is not counted against the budget.
ThrowOnceMore(w) ==
    /\ pc[w] = "throw"
    /\ Finish(w, IF tries[w[1]] >= Attempts THEN "failed" ELSE "waiting")
    /\ tries' = IF Locked(w) THEN [tries EXCEPT ![w[1]] = @ + 1] ELSE tries
    /\ Leave(w)
    /\ UNCHANGED <<execution, claim, stalls, dead, starting, people, history, incidents>>

Throw(w) ==
    /\ pc[w] = "throw"
    /\ Finish(w, IF tries[w[1]] + 1 >= Attempts THEN "failed" ELSE "waiting")
    /\ tries' = IF Locked(w) THEN [tries EXCEPT ![w[1]] = @ + 1] ELSE tries
    /\ Leave(w)
    /\ UNCHANGED <<execution, claim, stalls, dead, starting, people, history, incidents>>

Crash(w) ==
    /\ pc[w] # "idle" /\ Incident("crash")
    /\ Leave(w)
    /\ UNCHANGED <<execution, claim, queue, dead, starting, people, history>>

\* A job whose lock has expired is run again, up to MaxStalls times; with
\* "stall" its worker lives and goes on.
Requeue(j) ==
    /\ job[j] = "active"
    /\ \/ pc[<<j, stalls[j]>>] = "idle" /\ UNCHANGED incidents
       \/ pc[<<j, stalls[j]>>] # "idle" /\ Incident("stall")
    /\ IF stalls[j] < MaxStalls
       THEN /\ job' = [job EXCEPT ![j] = "waiting"]
            /\ stalls' = [stalls EXCEPT ![j] = @ + 1]
       ELSE job' = [job EXCEPT ![j] = "failed"] /\ UNCHANGED stalls
    /\ UNCHANGED <<execution, claim, tries, dead, worker, starting, people, history>>

-----------------------------------------------------------------------------
(* The dead-letter queue and manual retries                                  *)

Failed == {"failed", "dlq"}
First(S) == CHOOSE i \in S : \A k \in S : i <= k
StepsOf(n) == {i \in DOMAIN steps : steps[i].node = n}
FailedSteps == {i \in DOMAIN steps : steps[i].status \in Failed}

\* AutomationDlqProcessor marks the first step of the node.
MarkDlq(n) ==
    /\ n \in dead
    /\ dead' = dead \ {n}
    /\ steps' = IF StepsOf(n) = {} THEN steps
                ELSE [steps EXCEPT ![First(StepsOf(n))].status = "dlq"]
    /\ UNCHANGED <<status, claim, queue, worker, starting, people, history, incidents>>

\* ExecutionLogRepository.retryStep: some step is of the node and some step has
\* failed; "steps.$" is the first that matched either condition, and a write
\* that changes nothing is refused.
RetryStep(n) ==
    /\ operator = Idle /\ incidents + retries < MaxIncidents
    /\ StepsOf(n) # {} /\ FailedSteps # {}
    /\ \E i \in {First(StepsOf(n)), First(FailedSteps)} :
         /\ steps[i].status # "retrying"
         /\ steps' = [steps EXCEPT ![i].status = "retrying"]
    /\ operator' = [at |-> "clear", node |-> n]
    /\ retries' = retries + 1
    /\ UNCHANGED <<status, claim, queue, dead, worker, starting, cleared, history, incidents>>

ClearClaim ==
    /\ operator.at = "clear"
    /\ claim' = claim \ {operator.node}
    /\ cleared' = [cleared EXCEPT ![operator.node] = @ + 1]
    /\ operator' = [operator EXCEPT !.at = "dispatch"]
    /\ UNCHANGED <<execution, queue, dead, worker, starting, retries, history, incidents>>

DispatchRetry ==
    /\ operator.at = "dispatch"
    /\ Add(<<operator.node, retries>>)
    /\ operator' = Idle
    /\ UNCHANGED <<execution, claim, tries, stalls, dead, worker, starting, retries, cleared, history, incidents>>

\* The record has gone, or the queue refuses the job.
RefuseRetry ==
    /\ operator.at = "dispatch"
    /\ operator' = Idle
    /\ UNCHANGED <<execution, claim, queue, dead, worker, starting, retries, cleared, history, incidents>>

Handle(w) ==
    \/ RefuseQuota(w) \/ Claim(w) \/ Skip(w) \/ Execute(w) \/ Confirm(w)
    \/ LogStep(w) \/ Release(w) \/ DeadLetter(w) \/ (\E n \in todo[w] : Follow(w, n))
    \/ Abort(w) \/ Settle(w) \/ Return(w) \/ Throw(w)

\* What goes on by itself.
Work ==
    \/ \E n \in starting : Dispatch(n)
    \/ \E j \in Jobs : Take(j) \/ Requeue(j)
    \/ \E w \in Runs : Handle(w)

Fail == \E w \in Runs : ClaimFails(w) \/ FollowFails(w) \/ SettleFails(w) \/ Crash(w)

Retry == (\E n \in Nodes : RetryStep(n)) \/ ClearClaim \/ DispatchRetry \/ RefuseRetry

Next ==
    \/ Work \/ Fail \/ Retry
    \/ DispatchFails \/ StarterDies
    \/ \E n \in dead : MarkDlq(n)

Spec == Init /\ [][Next]_vars

\* Workers take jobs and go on with them as long as there are any, and the
\* queue notices those that were abandoned.
FairSpec == Spec /\ WF_vars(Work)

-----------------------------------------------------------------------------
(* Properties.                                                              *)

\* An action reports success once, and once more for each time an operator has
\* deleted its claim, however its jobs are retried, stalled and delivered again
\* and whatever crashes.
SucceedsOnce == \A n \in Nodes : successes[n] <= 1 + cleared[n]

\* The graph goes on along one branch of an action that nobody has retried by
\* hand, never along that of its failure once its success has been followed or
\* the other way round.
OneBranch ==
    \A n \in Nodes \ Metered : cleared[n] = 0 => taken[n] # Branches

\* Parallel branches finish in any order, and none hides the failure of
\* another: once every worker rests, a failed action shows.
FailureShows ==
    incidents = 0 /\ (\A w \in Runs : pc[w] = "idle")
        => \A n \in Nodes : "failure" \in taken[n] => status = "failed"

\* An execution that meets no incident ends, however often its actions are
\* retried.
ExecutionEnds == <>(status # "running" \/ incidents > 0)

-----------------------------------------------------------------------------
(* Comments of the code that the code does not keep.                        *)

\* Only failed or dead-lettered steps can be retried
\* (automation-execution-log.controller.ts:185).
RetriesFailed ==
    [][\A n \in Nodes :
         operator = Idle /\ operator'.at = "clear" /\ operator'.node = n
             => \E i \in StepsOf(n) : steps[i].status \in Failed]_vars

\* A quota rejection is of a message that was never sent
\* (automation-action.processor.ts:190).
RejectsUnsent ==
    \A w \in Runs : result[w] \in {"denied", "overQuota"} => successes[Node(w)] = 0
=============================================================================
