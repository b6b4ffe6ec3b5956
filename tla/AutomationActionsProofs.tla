---------------------- MODULE AutomationActionsProofs ----------------------
(***************************************************************************)
(* Proofs about AutomationActions for any finite graph, attempts, stall    *)
(* limit, concurrency, incidents and manual retries: its types, that an    *)
(* action succeeds at most once more than its claim has been deleted by    *)
(* hand, that a condition takes one branch, and that a failure shows.      *)
(***************************************************************************)
EXTENDS AutomationActions, TLAPS, FiniteSetTheorems

USE ActionsAssumption

\* The parts of the type.
LogOK ==
    /\ status \in {"running", "success", "failed"}
    /\ steps \in Seq(Step)

StoreOK == claim \subseteq Nodes /\ dead \subseteq Nodes /\ starting \subseteq Roots

QueueOK ==
    /\ job \in [Jobs -> {"none", "waiting", "active", "completed", "failed"}]
    /\ tries \in [Jobs -> 0 .. Attempts]
    /\ stalls \in [Jobs -> 0 .. MaxStalls]
    /\ \A j \in Jobs : tries[j] = Attempts => job[j] = "failed"

WorkerOK ==
    /\ pc \in [Runs -> Pcs]
    /\ result \in [Runs -> Results]
    /\ last \in [Runs -> BOOLEAN]
    /\ todo \in [Runs -> SUBSET Nodes]

PeopleOK ==
    /\ operator \in [at : {"idle", "clear", "dispatch"}, node : Nodes \cup {None}]
    /\ operator.at # "idle" => operator.node \in Nodes
    /\ cleared \in [Nodes -> Nat]

BoundsOK ==
    /\ incidents \in Nat /\ retries \in Nat
    /\ incidents + retries <= MaxIncidents

HistoryOK ==
    /\ successes \in [Nodes -> Nat]
    /\ taken \in [Nodes -> SUBSET Branches]

LEMMA Parts ==
    TypeOK <=> /\ LogOK /\ StoreOK /\ QueueOK /\ WorkerOK
               /\ PeopleOK /\ BoundsOK /\ HistoryOK
  BY DEF TypeOK, LogOK, StoreOK, QueueOK, WorkerOK, PeopleOK, BoundsOK, HistoryOK

LEMMA PartsNext ==
    /\ LogOK' /\ StoreOK' /\ QueueOK' /\ WorkerOK'
    /\ PeopleOK' /\ BoundsOK' /\ HistoryOK'
    => TypeOK'
  BY DEF TypeOK, LogOK, StoreOK, QueueOK, WorkerOK, PeopleOK, BoundsOK, HistoryOK

LEMMA Framed ==
    /\ LogOK /\ UNCHANGED execution => LogOK'
    /\ StoreOK /\ UNCHANGED <<claim, dead, starting>> => StoreOK'
    /\ QueueOK /\ UNCHANGED queue => QueueOK'
    /\ WorkerOK /\ UNCHANGED worker => WorkerOK'
    /\ PeopleOK /\ UNCHANGED <<operator, cleared>> => PeopleOK'
    /\ BoundsOK /\ UNCHANGED <<incidents, retries>> => BoundsOK'
    /\ HistoryOK /\ UNCHANGED history => HistoryOK'
  BY DEF LogOK, StoreOK, QueueOK, WorkerOK, PeopleOK, BoundsOK, HistoryOK,
         execution, queue, worker, history

LEMMA RunJob == \A w \in Runs : w[1] \in Jobs /\ Node(w) \in Nodes
  BY DEF Runs, Jobs, Node

LEMMA IncidentTyped ==
    ASSUME BoundsOK, NEW f, Incident(f), UNCHANGED retries PROVE BoundsOK'
  BY DEF BoundsOK, Incident

LEMMA LeaveTyped == ASSUME WorkerOK, NEW w \in Runs, Leave(w) PROVE WorkerOK'
  BY DEF WorkerOK, Leave, Pcs, Results

LEMMA MoveTyped ==
    ASSUME WorkerOK, NEW w \in Runs, NEW from, NEW to \in Pcs, Move(w, from, to),
           UNCHANGED <<result, last, todo>>
    PROVE  WorkerOK'
  BY DEF WorkerOK, Move

LEMMA AddTyped ==
    ASSUME QueueOK, NEW j \in Jobs, Add(j), UNCHANGED <<tries, stalls>>
    PROVE  QueueOK'
  BY DEF QueueOK, Add

LEMMA ContinueTyped ==
    ASSUME WorkerOK, HistoryOK, NEW w \in Runs, Continue(w)
    PROVE  todo' \in [Runs -> SUBSET Nodes] /\ taken' \in [Nodes -> SUBSET Branches]
<1>1. Targets(Node(w), Branch(result[w])) \subseteq Nodes
  BY DEF Targets
<1>2. Branch(result[w]) \in Branches
  BY DEF Branch, Branches
<1> QED
  BY <1>1, <1>2, RunJob DEF Continue, WorkerOK, HistoryOK
LEMMA LastTyped ==
    ASSUME WorkerOK, NEW w \in Runs, NEW b \in BOOLEAN
    PROVE  [last EXCEPT ![w] = b] \in [Runs -> BOOLEAN]
  BY DEF WorkerOK

LEMMA TypeInit == Init => TypeOK
<1> SUFFICES ASSUME Init
             PROVE  /\ LogOK /\ StoreOK /\ QueueOK /\ WorkerOK
                    /\ PeopleOK /\ BoundsOK /\ HistoryOK
  BY Parts
<1>1. LogOK /\ StoreOK /\ BoundsOK
  BY DEF Init, LogOK, StoreOK, BoundsOK
<1>2. QueueOK /\ WorkerOK
  BY DEF Init, QueueOK, WorkerOK, Pcs, Results
<1>3. PeopleOK /\ HistoryOK
  BY DEF Init, Idle, PeopleOK, HistoryOK
<1> QED
  BY <1>1, <1>2, <1>3

LEMMA HandleTyped == ASSUME TypeOK, NEW w \in Runs, Handle(w) PROVE TypeOK'
<1>0. LogOK /\ StoreOK /\ QueueOK /\ WorkerOK /\ PeopleOK /\ BoundsOK /\ HistoryOK
  BY Parts
<1> USE DEF Pcs
<1>1. CASE RefuseQuota(w)
  <2>1. WorkerOK'
    BY <1>0, <1>1 DEF RefuseQuota, Move, Outcome, Results, WorkerOK
  <2> QED
    BY <1>0, <1>1, <2>1, Framed, PartsNext DEF RefuseQuota, people
<1>2. CASE Claim(w)
  <2>1. WorkerOK' /\ StoreOK'
    BY <1>0, <1>2, MoveTyped, RunJob DEF Claim, StoreOK
  <2> QED
    BY <1>0, <1>2, <2>1, Framed, PartsNext DEF Claim, people
<1>3. CASE Skip(w)
  <2>1. WorkerOK'
    BY <1>0, <1>3, MoveTyped DEF Skip
  <2> QED
    BY <1>0, <1>3, <2>1, Framed, PartsNext DEF Skip, people
<1>4. CASE Execute(w)
  <2>1. WorkerOK'
    BY <1>0, <1>4 DEF Execute, Move, Outcome, Results, WorkerOK
  <2>2. HistoryOK'
    BY <1>0, <1>4, RunJob DEF Execute, HistoryOK
  <2> QED
    BY <1>0, <1>4, <2>1, <2>2, Framed, PartsNext DEF Execute, people
<1>5. CASE Confirm(w)
  <2>1. WorkerOK' /\ StoreOK'
    BY <1>0, <1>5, MoveTyped, RunJob DEF Confirm, StoreOK
  <2>2. BoundsOK'
    BY <1>0, <1>5, IncidentTyped DEF Confirm, BoundsOK, people
  <2> QED
    BY <1>0, <1>5, <2>1, <2>2, Framed, PartsNext DEF Confirm, people
<1>6. CASE LogStep(w)
  <2>1. todo' \in [Runs -> SUBSET Nodes] /\ taken' \in [Nodes -> SUBSET Branches]
    BY <1>0, <1>6, ContinueTyped DEF LogStep
  <2>2. AfterLog(result[w]) \in Pcs
    BY DEF AfterLog
  <2>3. WorkerOK' /\ HistoryOK'
    BY <1>0, <1>6, <2>1, <2>2 DEF LogStep, Move, WorkerOK, HistoryOK
  <2>4. LogOK'
    <3> DEFINE s == [node |-> Node(w),
                     status |-> IF result[w] = "success" THEN "success" ELSE "failed"]
    <3>1. s \in Step
      BY RunJob DEF Step
    <3>2. steps' = Append(steps, s) \/ UNCHANGED steps
      BY <1>6 DEF LogStep
    <3>3. UNCHANGED status
      BY <1>6 DEF LogStep
    <3> HIDE DEF s
    <3> QED
      BY <1>0, <3>1, <3>2, <3>3 DEF LogOK
  <2>5. BoundsOK'
    BY <1>0, <1>6, IncidentTyped DEF LogStep, BoundsOK, people
  <2> QED
    BY <1>0, <1>6, <2>3, <2>4, <2>5, Framed, PartsNext DEF LogStep, people
<1>7. CASE Release(w)
  <2>1. WorkerOK' /\ StoreOK'
    BY <1>0, <1>7, MoveTyped DEF Release, StoreOK
  <2>2. BoundsOK'
    BY <1>0, <1>7, IncidentTyped DEF Release, BoundsOK, people
  <2> QED
    BY <1>0, <1>7, <2>1, <2>2, Framed, PartsNext DEF Release, people
<1>8. CASE DeadLetter(w)
  <2>1. todo' \in [Runs -> SUBSET Nodes] /\ taken' \in [Nodes -> SUBSET Branches]
    BY <1>0, <1>8, ContinueTyped DEF DeadLetter
  <2>2. WorkerOK' /\ HistoryOK'
    BY <1>0, <1>8, <2>1 DEF DeadLetter, Move, WorkerOK, HistoryOK
  <2>3. StoreOK'
    BY <1>0, <1>8, RunJob DEF DeadLetter, StoreOK
  <2>4. BoundsOK'
    BY <1>0, <1>8, IncidentTyped DEF DeadLetter, BoundsOK, people
  <2> QED
    BY <1>0, <1>8, <2>2, <2>3, <2>4, Framed, PartsNext DEF DeadLetter, people
<1>9. ASSUME NEW n \in todo[w], Follow(w, n) PROVE TypeOK'
  <2>1. n \in Nodes /\ <<n, 0>> \in Jobs
    BY <1>0 DEF WorkerOK, Jobs
  <2>2. WorkerOK'
    BY <1>0, <1>9 DEF Follow, WorkerOK
  <2>3. QueueOK'
    BY <1>0, <1>9, <2>1, AddTyped DEF Follow
  <2> QED
    BY <1>0, <1>9, <2>2, <2>3, Framed, PartsNext DEF Follow, people
<1>10. CASE Abort(w)
  <2>1. WorkerOK' /\ LogOK'
    BY <1>0, <1>10, MoveTyped DEF Abort, LogOK
  <2> QED
    BY <1>0, <1>10, <2>1, Framed, PartsNext DEF Abort, people
<1>11. CASE Settle(w)
  <2>1. WorkerOK' /\ LogOK'
    BY <1>0, <1>11, MoveTyped DEF Settle, Settled, LogOK
  <2> QED
    BY <1>0, <1>11, <2>1, Framed, PartsNext DEF Settle, people
<1>12. CASE Return(w)
  <2>1. QueueOK'
    BY <1>0, <1>12, RunJob DEF Return, Finish, Locked, QueueOK
  <2> QED
    BY <1>0, <1>12, <2>1, LeaveTyped, Framed, PartsNext DEF Return, people
<1>13. CASE Throw(w)
  <2>1. w[1] \in Jobs
    BY RunJob
  <2>2. ASSUME Locked(w) PROVE QueueOK'
    <3>1. tries[w[1]] \in 0 .. Attempts /\ tries[w[1]] # Attempts
      BY <1>0, <2>1, <2>2 DEF Locked, QueueOK
    <3>2. /\ job' = [job EXCEPT ![w[1]] =
                       IF tries[w[1]] + 1 >= Attempts THEN "failed" ELSE "waiting"]
          /\ tries' = [tries EXCEPT ![w[1]] = @ + 1]
          /\ UNCHANGED stalls
      BY <1>13, <2>2 DEF Throw, Finish
    <3> QED
      BY <1>0, <2>1, <3>1, <3>2 DEF QueueOK
  <2>3. ASSUME ~Locked(w) PROVE QueueOK'
    <3>1. UNCHANGED queue
      BY <1>13, <2>3 DEF Throw, Finish, queue
    <3> QED
      BY <1>0, <3>1, Framed
  <2>4. QueueOK'
    BY <2>2, <2>3
  <2> QED
    BY <1>0, <1>13, <2>4, LeaveTyped, Framed, PartsNext DEF Throw, people
<1> QED
  BY <1>1, <1>2, <1>3, <1>4, <1>5, <1>6, <1>7, <1>8, <1>9, <1>10, <1>11, <1>12, <1>13
     DEF Handle
LEMMA QueueTyped ==
    ASSUME TypeOK,
           \/ \E n \in starting : Dispatch(n)
           \/ \E j \in Jobs : Take(j) \/ Requeue(j)
           \/ DispatchFails \/ StarterDies
    PROVE  TypeOK'
<1>0. LogOK /\ StoreOK /\ QueueOK /\ WorkerOK /\ PeopleOK /\ BoundsOK /\ HistoryOK
  BY Parts
<1>1. ASSUME NEW n \in starting, Dispatch(n) PROVE TypeOK'
  <2>1. <<n, 0>> \in Jobs
    BY <1>0 DEF StoreOK, Jobs
  <2>2. QueueOK' /\ StoreOK'
    BY <1>0, <1>1, <2>1, AddTyped DEF Dispatch, StoreOK
  <2> QED
    BY <1>0, <1>1, <2>2, Framed, PartsNext DEF Dispatch, people
<1>2. ASSUME NEW j \in Jobs, Take(j) PROVE TypeOK'
  <2> DEFINE w == <<j, stalls[j]>>
  <2>1. w \in Runs
    BY <1>0 DEF QueueOK, Runs
  <2>2. QueueOK'
    BY <1>0, <1>2 DEF Take, QueueOK
  <2>3. (tries[j] + 1 >= Attempts) \in BOOLEAN
    OBVIOUS
  <2>4. /\ pc' = [pc EXCEPT ![w] = "claim"]
        /\ last' = [last EXCEPT ![w] = tries[j] + 1 >= Attempts]
        /\ UNCHANGED <<result, todo>>
    BY <1>2 DEF Take
  <2> HIDE DEF w
  <2>5. WorkerOK'
    BY <1>0, <2>1, <2>3, <2>4, LastTyped DEF WorkerOK, Pcs
  <2> QED
    BY <1>0, <1>2, <2>2, <2>5, Framed, PartsNext DEF Take, people
<1>3. ASSUME NEW j \in Jobs, Requeue(j) PROVE TypeOK'
  <2>1. QueueOK'
    BY <1>0, <1>3 DEF Requeue, QueueOK
  <2>2. BoundsOK'
    BY <1>0, <1>3, IncidentTyped DEF Requeue, BoundsOK, people
  <2> QED
    BY <1>0, <1>3, <2>1, <2>2, Framed, PartsNext DEF Requeue, people
<1>4. CASE DispatchFails
  <2>1. LogOK' /\ StoreOK' /\ BoundsOK'
    BY <1>0, <1>4, IncidentTyped DEF DispatchFails, LogOK, StoreOK, people
  <2> QED
    BY <1>0, <1>4, <2>1, Framed, PartsNext DEF DispatchFails, people
<1>5. CASE StarterDies
  <2>1. StoreOK' /\ BoundsOK'
    BY <1>0, <1>5, IncidentTyped DEF StarterDies, StoreOK, people
  <2> QED
    BY <1>0, <1>5, <2>1, Framed, PartsNext DEF StarterDies, people
<1> QED
  BY <1>1, <1>2, <1>3, <1>4, <1>5

LEMMA FailTyped == ASSUME TypeOK, Fail PROVE TypeOK'
<1>0. LogOK /\ StoreOK /\ QueueOK /\ WorkerOK /\ PeopleOK /\ BoundsOK /\ HistoryOK
  BY Parts
<1> PICK w \in Runs : ClaimFails(w) \/ FollowFails(w) \/ SettleFails(w) \/ Crash(w)
  BY DEF Fail
<1> USE DEF Pcs
<1>1. CASE ClaimFails(w)
  <2>1. WorkerOK' /\ StoreOK' /\ BoundsOK'
    BY <1>0, <1>1, MoveTyped, IncidentTyped, RunJob DEF ClaimFails, StoreOK, people
  <2> QED
    BY <1>0, <1>1, <2>1, Framed, PartsNext DEF ClaimFails, people
<1>2. CASE FollowFails(w)
  <2>1. WorkerOK' /\ BoundsOK'
    BY <1>0, <1>2, MoveTyped, IncidentTyped DEF FollowFails, people
  <2> QED
    BY <1>0, <1>2, <2>1, Framed, PartsNext DEF FollowFails, people
<1>3. CASE SettleFails(w)
  <2>1. WorkerOK' /\ BoundsOK'
    BY <1>0, <1>3, MoveTyped, IncidentTyped DEF SettleFails, people
  <2> QED
    BY <1>0, <1>3, <2>1, Framed, PartsNext DEF SettleFails, people
<1>4. CASE Crash(w)
  <2>1. WorkerOK' /\ BoundsOK'
    BY <1>0, <1>4, LeaveTyped, IncidentTyped DEF Crash, people
  <2> QED
    BY <1>0, <1>4, <2>1, Framed, PartsNext DEF Crash, people
<1> QED
  BY <1>1, <1>2, <1>3, <1>4

LEMMA StatusTyped ==
    ASSUME steps \in Seq(Step), NEW i, NEW s \in {"dlq", "retrying"}
    PROVE  [steps EXCEPT ![i].status = s] \in Seq(Step)
<1> DEFINE t == [steps EXCEPT ![i].status = s]
<1>1. Len(steps) \in Nat /\ DOMAIN steps = 1 .. Len(steps)
  OBVIOUS
<1>2. DOMAIN t = 1 .. Len(steps)
  BY <1>1
<1>3. ASSUME NEW k \in 1 .. Len(steps) PROVE t[k] \in Step
  <2>1. steps[k] \in Step
    OBVIOUS
  <2>2. PICK n \in Nodes, b \in {"success", "failed", "dlq", "retrying"} :
          steps[k] = [node |-> n, status |-> b]
    BY <2>1 DEF Step
  <2>3. [steps[k] EXCEPT !.status = s] = [node |-> n, status |-> s]
    BY <2>2
  <2>4. t[k] = steps[k] \/ t[k] = [steps[k] EXCEPT !.status = s]
    BY <1>1
  <2> QED
    BY <2>1, <2>3, <2>4 DEF Step
<1>4. t \in [1 .. Len(steps) -> Step]
  <2>1. t = [k \in 1 .. Len(steps) |-> t[k]]
    BY <1>1
  <2> HIDE DEF t
  <2> QED
    BY <1>2, <1>3, <2>1
<1> QED
  BY <1>1, <1>4

LEMMA RetryTyped == ASSUME TypeOK, Retry \/ \E n \in dead : MarkDlq(n) PROVE TypeOK'
<1>0. LogOK /\ StoreOK /\ QueueOK /\ WorkerOK /\ PeopleOK /\ BoundsOK /\ HistoryOK
  BY Parts
<1>1. ASSUME NEW n \in Nodes, RetryStep(n) PROVE TypeOK'
  <2>1. PICK i \in {First(StepsOf(n)), First(FailedSteps)} :
          steps' = [steps EXCEPT ![i].status = "retrying"]
    BY <1>1 DEF RetryStep
  <2>2. LogOK'
    BY <1>0, <1>1, <2>1, StatusTyped DEF RetryStep, LogOK
  <2>3. PeopleOK' /\ BoundsOK'
    BY <1>0, <1>1 DEF RetryStep, PeopleOK, BoundsOK
  <2> QED
    BY <1>0, <1>1, <2>2, <2>3, Framed, PartsNext DEF RetryStep
<1>2. CASE ClearClaim
  <2>1. PeopleOK' /\ StoreOK'
    BY <1>0, <1>2 DEF ClearClaim, PeopleOK, StoreOK
  <2> QED
    BY <1>0, <1>2, <2>1, Framed, PartsNext DEF ClearClaim
<1>3. CASE DispatchRetry
  <2>1. operator.node \in Nodes /\ retries \in 0 .. MaxIncidents
    BY <1>0, <1>3 DEF DispatchRetry, PeopleOK, BoundsOK
  <2>2. QueueOK'
    BY <1>0, <1>3, <2>1, AddTyped DEF DispatchRetry, Jobs
  <2>3. PeopleOK'
    BY <1>0, <1>3 DEF DispatchRetry, Idle, PeopleOK
  <2> QED
    BY <1>0, <1>3, <2>2, <2>3, Framed, PartsNext DEF DispatchRetry
<1>4. CASE RefuseRetry
  <2>1. PeopleOK'
    BY <1>0, <1>4 DEF RefuseRetry, Idle, PeopleOK
  <2> QED
    BY <1>0, <1>4, <2>1, Framed, PartsNext DEF RefuseRetry
<1>5. ASSUME NEW n \in dead, MarkDlq(n) PROVE TypeOK'
  <2>1. LogOK' /\ StoreOK'
    BY <1>0, <1>5, StatusTyped DEF MarkDlq, LogOK, StoreOK
  <2> QED
    BY <1>0, <1>5, <2>1, Framed, PartsNext DEF MarkDlq, people
<1> QED
  BY <1>1, <1>2, <1>3, <1>4, <1>5 DEF Retry

LEMMA TypeNext == TypeOK /\ [Next]_vars => TypeOK'
<1> SUFFICES ASSUME TypeOK, [Next]_vars PROVE TypeOK'
  OBVIOUS
<1>1. CASE Next
  BY <1>1, HandleTyped, QueueTyped, FailTyped, RetryTyped DEF Next, Work
<1>2. CASE UNCHANGED vars
  BY <1>2, Parts, Framed, PartsNext DEF vars, people
<1> QED
  BY <1>1, <1>2

\* Every variable of an execution keeps its type, however its jobs are retried,
\* stalled and run again and whatever fails; no job is given more attempts or
\* runs than BullMQ is configured for.
THEOREM Typing == Spec => []TypeOK
<1>1. Init => TypeOK
  BY TypeInit
<1>2. TypeOK /\ [Next]_vars => TypeOK'
  BY TypeNext
<1> QED
  BY <1>1, <1>2, PTL DEF Spec
(* Claims are paid for.  A run that holds its claim may still succeed, or     *)
(* give the claim back.  Successes and holders together never outnumber the   *)
(* claims that operators have deleted and the one that is in Redis: a claim   *)
(* is made only where there is none, a holder that succeeds takes its own     *)
(* place, and one that gives up deletes at most one claim, be it its own or   *)
(* that of a later run.                                                       *)

Holds(w) == pc[w] \in {"run", "release"} \/ (pc[w] = "log" /\ result[w] = "retry")
Held(n) == {w \in Runs : Node(w) = n /\ Holds(w)}
Key(n) == IF n \in claim THEN 1 ELSE 0

Paid == \A n \in Nodes : successes[n] + Cardinality(Held(n)) <= cleared[n] + Key(n)

\* What is confirmed is final.
ConfirmsFinal == \A w \in Runs : pc[w] = "confirm" => result[w] # "retry"

PInv == TypeOK /\ Paid /\ ConfirmsFinal

LEMMA RunsFinite == IsFiniteSet(Runs)
<1>1. IsFiniteSet(0 .. MaxIncidents) /\ IsFiniteSet(0 .. MaxStalls)
  BY FS_Interval
<1>2. IsFiniteSet(Jobs)
  BY <1>1, FS_Product DEF Jobs
<1> QED
  BY <1>1, <1>2, FS_Product DEF Runs

LEMMA HeldFinite ==
    \A n : IsFiniteSet(Held(n)) /\ Cardinality(Held(n)) \in Nat
<1>1. \A n : Held(n) \subseteq Runs
  BY DEF Held
<1> QED
  BY <1>1, RunsFinite, FS_Subset, FS_CardinalityType

\* Nobody starts to hold, nothing is counted and no claim is deleted.
LEMMA Frees ==
    ASSUME TypeOK, Paid, UNCHANGED <<successes, cleared>>, claim \subseteq claim',
           \A w \in Runs : Holds(w)' => Holds(w)
    PROVE  Paid'
<1> SUFFICES ASSUME NEW n \in Nodes
             PROVE  successes[n]' + Cardinality(Held(n)') <= cleared[n]' + Key(n)'
  BY DEF Paid
<1>1. Held(n)' \subseteq Held(n)
  BY DEF Held, Node
<1>2. Cardinality(Held(n)') \in Nat /\ Cardinality(Held(n)') <= Cardinality(Held(n))
  BY <1>1, HeldFinite, FS_Subset, FS_CardinalityType
<1>3. successes[n] \in Nat /\ cleared[n] \in Nat /\ Cardinality(Held(n)) \in Nat
  BY HeldFinite DEF TypeOK
<1>4. Key(n) \in {0, 1} /\ Key(n)' \in {0, 1} /\ Key(n) <= Key(n)'
  BY DEF Key
<1>5. successes[n] + Cardinality(Held(n)) <= cleared[n] + Key(n)
  BY DEF Paid
<1> QED
  BY <1>2, <1>3, <1>4, <1>5

\* One run of node m stops holding; what is counted for m with it is at most
\* what the run stood for.
LEMMA Gives ==
    ASSUME TypeOK, Paid, NEW w \in Runs, Holds(w), ~Holds(w)', UNCHANGED cleared,
           \A v \in Runs \ {w} : Holds(v)' = Holds(v),
           \/ /\ successes' = [successes EXCEPT ![Node(w)] = @ + 1]
              /\ UNCHANGED claim
           \/ /\ claim' = claim \ {Node(w)}
              /\ UNCHANGED successes
    PROVE  Paid'
<1> SUFFICES ASSUME NEW n \in Nodes
             PROVE  successes[n]' + Cardinality(Held(n)') <= cleared[n]' + Key(n)'
  BY DEF Paid
<1>1. successes[n] \in Nat /\ cleared[n] \in Nat /\ Cardinality(Held(n)) \in Nat
  BY HeldFinite DEF TypeOK
<1>2. successes[n] + Cardinality(Held(n)) <= cleared[n] + Key(n)
  BY DEF Paid
<1>3. CASE n = Node(w)
  <2>1. w \in Held(n) /\ Held(n)' = Held(n) \ {w}
    BY <1>3 DEF Held, Node
  <2>2. Cardinality(Held(n)') = Cardinality(Held(n)) - 1
    <3>1. IsFiniteSet(Held(n))
      BY HeldFinite
    <3>2. Cardinality(Held(n) \ {w}) = Cardinality(Held(n)) - 1
      BY <2>1, <3>1, FS_RemoveElement
    <3> QED
      BY <2>1, <3>2
  <2>3. CASE UNCHANGED claim /\ successes' = [successes EXCEPT ![Node(w)] = @ + 1]
    <3>1. successes[n]' = successes[n] + 1 /\ cleared[n]' = cleared[n] /\ Key(n)' = Key(n)
      BY <1>3, <2>3 DEF TypeOK, Key
    <3>2. Key(n) \in {0, 1}
      BY DEF Key
    <3> QED
      BY <1>1, <1>2, <2>2, <3>1, <3>2
  <2>4. CASE claim' = claim \ {Node(w)} /\ UNCHANGED successes
    <3>1. Key(n)' = 0 /\ Key(n) \in {0, 1}
      BY <1>3, <2>4 DEF Key
    <3> QED
      BY <1>1, <1>2, <2>2, <2>4, <3>1
  <2> QED
    BY <2>3, <2>4
<1>4. CASE n # Node(w)
  <2>1. Held(n)' = Held(n)
    BY <1>4 DEF Held, Node
  <2>2. Key(n)' = Key(n) /\ successes[n]' = successes[n]
    BY <1>4 DEF Key, TypeOK
  <2> QED
    BY <1>2, <2>1, <2>2
<1> QED
  BY <1>3, <1>4
LEMMA ClaimPaid == ASSUME TypeOK, Paid, NEW w \in Runs, Claim(w) PROVE Paid'
<1> SUFFICES ASSUME NEW n \in Nodes
             PROVE  successes[n]' + Cardinality(Held(n)') <= cleared[n]' + Key(n)'
  BY DEF Paid
<1>1. /\ UNCHANGED <<successes, cleared>>
      /\ \A v \in Runs : Holds(v)' <=> Holds(v) \/ v = w
      /\ Node(w) \notin claim /\ claim' = claim \cup {Node(w)}
  BY DEF Claim, Move, Holds, TypeOK, people, history
<1>2. successes[n] + Cardinality(Held(n)) <= cleared[n] + Key(n)
  BY DEF Paid
<1>3. CASE n = Node(w)
  <2>1. Held(n)' = Held(n) \cup {w} /\ w \notin Held(n)
    BY <1>1, <1>3 DEF Held, Node, Holds, Claim, Move
  <2>2. IsFiniteSet(Held(n)) /\ Cardinality(Held(n)) \in Nat
    BY HeldFinite
  <2>3. Cardinality(Held(n) \cup {w}) = Cardinality(Held(n)) + 1
    BY <2>1, <2>2, FS_AddElement
  <2>4. Key(n) = 0 /\ Key(n)' = 1
    BY <1>1, <1>3 DEF Key
  <2>5. Cardinality(Held(n)') = Cardinality(Held(n)) + 1
    BY <2>1, <2>3
  <2>6. successes[n] \in Nat /\ cleared[n] \in Nat
    BY DEF TypeOK
  <2> QED
    BY <1>1, <1>2, <2>2, <2>4, <2>5, <2>6
<1>4. CASE n # Node(w)
  <2>1. Held(n)' = Held(n) /\ Key(n)' = Key(n)
    BY <1>1, <1>4 DEF Held, Node, Key
  <2> QED
    BY <1>1, <1>2, <2>1
<1> QED
  BY <1>3, <1>4

LEMMA ExecutePaid == ASSUME PInv, NEW w \in Runs, Execute(w) PROVE Paid'
<1>0. TypeOK /\ Paid
  BY DEF PInv
<1>1. UNCHANGED <<claim, cleared>> /\ Holds(w)
  BY DEF Execute, Move, Holds, people
<1>2. CASE result'[w] = "success" /\ successes' = [successes EXCEPT ![Node(w)] = @ + 1]
  <2>1. ~Holds(w)' /\ \A v \in Runs \ {w} : Holds(v)' = Holds(v)
    BY <1>0, <1>2 DEF Execute, Move, Outcome, Holds, TypeOK
  <2> QED
    BY <1>0, <1>1, <1>2, <2>1, Gives
<1>3. CASE UNCHANGED successes
  <2>1. \A v \in Runs : Holds(v)' => Holds(v)
    BY <1>0 DEF Execute, Move, Outcome, Holds, TypeOK
  <2> QED
    BY <1>0, <1>1, <1>3, <2>1, Frees
<1> QED
  BY <1>0, <1>2, <1>3 DEF Execute, Outcome, TypeOK

LEMMA ReleasePaid == ASSUME TypeOK, Paid, NEW w \in Runs, Release(w) PROVE Paid'
<1>1. UNCHANGED <<successes, cleared>> /\ Holds(w) /\ ~Holds(w)'
  BY DEF Release, Move, Holds, TypeOK, people, history
<1>2. \A v \in Runs \ {w} : Holds(v)' = Holds(v)
  BY DEF Release, Move, Holds, TypeOK
<1>3. CASE claim' = claim \ {Node(w)}
  BY <1>1, <1>2, <1>3, Gives
<1>4. CASE UNCHANGED claim
  BY <1>1, <1>2, <1>4, Frees
<1> QED
  BY <1>3, <1>4 DEF Release

LEMMA ClearPaid == ASSUME TypeOK, Paid, ClearClaim PROVE Paid'
<1> SUFFICES ASSUME NEW n \in Nodes
             PROVE  successes[n]' + Cardinality(Held(n)') <= cleared[n]' + Key(n)'
  BY DEF Paid
<1>1. Held(n)' = Held(n) /\ UNCHANGED successes
  BY DEF ClearClaim, Held, Holds, Node, worker, history
<1>2. successes[n] + Cardinality(Held(n)) <= cleared[n] + Key(n)
  BY DEF Paid
<1>3. successes[n] \in Nat /\ cleared[n] \in Nat /\ Cardinality(Held(n)) \in Nat
  BY HeldFinite DEF TypeOK
<1>4. Key(n) \in {0, 1} /\ Key(n)' \in {0, 1}
  BY DEF Key
<1>5. CASE n = operator.node
  <2>1. cleared[n]' = cleared[n] + 1
    BY <1>5 DEF ClearClaim, TypeOK
  <2> QED
    BY <1>1, <1>2, <1>3, <1>4, <2>1
<1>6. CASE n # operator.node
  <2>1. cleared[n]' = cleared[n] /\ Key(n)' = Key(n)
    BY <1>6 DEF ClearClaim, TypeOK, Key
  <2> QED
    BY <1>1, <1>2, <2>1
<1> QED
  BY <1>5, <1>6

\* Every other step of a run: it neither starts to hold nor touches a claim that
\* exists.
LEMMA OtherPaid ==
    ASSUME PInv, NEW w \in Runs,
           \/ RefuseQuota(w) \/ Skip(w) \/ Confirm(w) \/ LogStep(w) \/ DeadLetter(w)
           \/ (\E n \in todo[w] : Follow(w, n)) \/ Abort(w) \/ Settle(w)
           \/ Return(w) \/ Throw(w)
           \/ ClaimFails(w) \/ FollowFails(w) \/ SettleFails(w) \/ Crash(w)
    PROVE  Paid'
<1>0. TypeOK /\ Paid /\ ConfirmsFinal
  BY DEF PInv
<1>1. UNCHANGED <<successes, cleared>> /\ claim \subseteq claim'
  BY DEF RefuseQuota, Skip, Confirm, LogStep, DeadLetter, Follow, Abort, Settle, Return,
         Throw, ClaimFails, FollowFails, SettleFails, Crash, people, history
<1>2. \A v \in Runs \ {w} : pc'[v] = pc[v] /\ result'[v] = result[v]
  BY <1>0 DEF RefuseQuota, Skip, Confirm, LogStep, DeadLetter, Follow, Abort, Settle, Return,
         Throw, ClaimFails, FollowFails, SettleFails, Crash, Move, Outcome, Leave, TypeOK
<1>3. Holds(w)' => Holds(w)
  <2>1. CASE RefuseQuota(w) \/ Skip(w)
    BY <1>0, <2>1 DEF RefuseQuota, Skip, Move, Outcome, Holds, TypeOK
  <2>2. CASE Confirm(w)
    BY <1>0, <2>2 DEF Confirm, Move, Holds, TypeOK, ConfirmsFinal
  <2>3. CASE LogStep(w)
    BY <1>0, <2>3 DEF LogStep, Move, AfterLog, Holds, TypeOK
  <2>4. CASE DeadLetter(w) \/ \E n \in todo[w] : Follow(w, n)
    BY <1>0, <2>4 DEF DeadLetter, Follow, Move, Holds, TypeOK
  <2>5. CASE Abort(w) \/ Settle(w) \/ FollowFails(w) \/ SettleFails(w) \/ ClaimFails(w)
    BY <1>0, <2>5 DEF Abort, Settle, FollowFails, SettleFails, ClaimFails, Move, Holds, TypeOK
  <2>6. CASE Return(w) \/ Throw(w) \/ Crash(w)
    BY <1>0, <2>6 DEF Return, Throw, Crash, Leave, Holds, TypeOK
  <2> QED
    BY <2>1, <2>2, <2>3, <2>4, <2>5, <2>6
<1> QED
  BY <1>0, <1>1, <1>2, <1>3, Frees DEF Holds

LEMMA PaidNext == PInv /\ [Next]_vars => PInv'
<1> SUFFICES ASSUME PInv, [Next]_vars PROVE PInv'
  OBVIOUS
<1>0. TypeOK /\ Paid /\ ConfirmsFinal
  BY DEF PInv
<1>1. TypeOK'
  BY <1>0, TypeNext
<1>2. ASSUME NEW w \in Runs, Handle(w) PROVE Paid' /\ ConfirmsFinal'
  <2>1. Paid'
    BY <1>0, <1>2, ClaimPaid, ExecutePaid, ReleasePaid, OtherPaid DEF Handle
  <2>2. ConfirmsFinal'
    BY <1>0, <1>2 DEF Handle, RefuseQuota, Claim, Skip, Execute, Confirm, LogStep, AfterLog,
       Release, DeadLetter, Follow, Abort, Settle, Return, Throw, Leave, Move, Outcome,
       ConfirmsFinal, TypeOK
  <2> QED
    BY <2>1, <2>2
<1>3. CASE Fail
  <2> PICK w \in Runs : ClaimFails(w) \/ FollowFails(w) \/ SettleFails(w) \/ Crash(w)
    BY <1>3 DEF Fail
  <2>1. ConfirmsFinal'
    BY <1>0 DEF ClaimFails, FollowFails, SettleFails, Crash, Leave, Move, ConfirmsFinal, TypeOK
  <2> QED
    BY <1>1, <2>1, OtherPaid DEF PInv
<1>4. ASSUME NEW j \in Jobs, Take(j) PROVE Paid' /\ ConfirmsFinal'
  <2>1. ConfirmsFinal' /\ \A v \in Runs : Holds(v)' => Holds(v)
    BY <1>0, <1>4 DEF Take, ConfirmsFinal, Holds, TypeOK
  <2>2. UNCHANGED <<successes, cleared, claim>>
    BY <1>4 DEF Take, people, history
  <2> QED
    BY <1>0, <2>1, <2>2, Frees
<1>5. CASE ClearClaim
  <2>1. ConfirmsFinal'
    BY <1>0, <1>5 DEF ClearClaim, ConfirmsFinal, worker
  <2> QED
    BY <1>0, <1>1, <1>5, <2>1, ClearPaid DEF PInv
<1>6. ASSUME UNCHANGED <<successes, cleared, claim, pc, result>>
      PROVE  Paid' /\ ConfirmsFinal'
  <2>1. ConfirmsFinal' /\ \A v \in Runs : Holds(v)' => Holds(v)
    BY <1>0, <1>6 DEF ConfirmsFinal, Holds
  <2> QED
    BY <1>0, <1>6, <2>1, Frees
<1>7. CASE \/ \E n \in starting : Dispatch(n)
           \/ \E j \in Jobs : Requeue(j)
           \/ DispatchFails \/ StarterDies
  <2>1. UNCHANGED <<successes, cleared, claim, pc, result>>
    BY <1>7 DEF Dispatch, Requeue, DispatchFails, StarterDies, worker, people, history
  <2> QED
    BY <1>1, <1>6, <2>1 DEF PInv
<1>8. CASE \/ \E n \in Nodes : RetryStep(n)
           \/ DispatchRetry \/ RefuseRetry
           \/ \E n \in dead : MarkDlq(n)
           \/ UNCHANGED vars
  <2>1. UNCHANGED <<successes, cleared, claim, pc, result>>
    BY <1>8 DEF RetryStep, DispatchRetry, RefuseRetry, MarkDlq, vars, worker, people, history
  <2> QED
    BY <1>1, <1>6, <2>1 DEF PInv
<1> QED
  BY <1>1, <1>2, <1>3, <1>4, <1>5, <1>7, <1>8 DEF Next, Work, Retry, PInv

\* An action succeeds at most once more than an operator has deleted its claim,
\* for any graph and however often jobs are retried, stalled and crash.
THEOREM SuccessIsClaimed == Spec => []SucceedsOnce
<1>1. Init => PInv
  <2> SUFFICES ASSUME Init PROVE PInv
    OBVIOUS
  <2>1. \A n : Held(n) = {}
    BY DEF Init, Held, Holds
  <2>2. \A n \in Nodes : successes[n] = 0 /\ cleared[n] = 0 /\ Key(n) = 0
    BY DEF Init, Key
  <2>3. Paid
    BY <2>1, <2>2, FS_EmptySet DEF Paid
  <2> QED
    BY <2>3, TypeInit DEF Init, PInv, ConfirmsFinal
<1>2. PInv /\ [Next]_vars => PInv'
  BY PaidNext
<1>3. PInv => SucceedsOnce
  <2> SUFFICES ASSUME PInv, NEW n \in Nodes PROVE successes[n] <= 1 + cleared[n]
    BY DEF SucceedsOnce
  <2>1. /\ successes[n] \in Nat /\ cleared[n] \in Nat /\ Cardinality(Held(n)) \in Nat
        /\ Key(n) \in {0, 1}
    BY HeldFinite DEF PInv, TypeOK, Key
  <2>2. successes[n] + Cardinality(Held(n)) <= cleared[n] + Key(n)
    BY DEF PInv, Paid
  <2> QED
    BY <2>1, <2>2
<1> QED
  BY <1>1, <1>2, <1>3, PTL DEF Spec

-----------------------------------------------------------------------------
(* One branch is paid for in the same way: by the claim under which the     *)
(* action ran.  A run whose verdict is still to be followed bears its claim *)
(* until it takes a branch, or gives the claim back for another attempt.    *)
(* Only a refusal for quota follows a branch without a claim.               *)

Bears(w) ==
    \/ pc[w] \in {"run", "confirm", "release"}
    \/ pc[w] = "log" /\ result[w] \in {"success", "failure", "retry"}
    \/ pc[w] = "deadLetter" /\ result[w] = "failure"

Bearing(n) == {w \in Runs : Node(w) = n /\ Bears(w)}

Spent ==
    \A n \in Nodes \ Metered :
        Cardinality(taken[n]) + Cardinality(Bearing(n)) <= cleared[n] + Key(n)

\* What a run has been told when it confirms, logs or gives up.
Refused(w) == Node(w) \in Metered /\ result[w] \in {"denied", "overQuota"}

Verdicts ==
    \A w \in Runs :
        /\ pc[w] = "confirm" => result[w] \in {"success", "failure"}
        /\ pc[w] = "log" => result[w] \in {"success", "failure", "retry"} \/ Refused(w)
        /\ pc[w] = "deadLetter" => result[w] = "failure" \/ Refused(w)

BInv == TypeOK /\ Spent /\ Verdicts

LEMMA BearingFinite ==
    \A n : IsFiniteSet(Bearing(n)) /\ Cardinality(Bearing(n)) \in Nat
<1>1. \A n : Bearing(n) \subseteq Runs
  BY DEF Bearing
<1> QED
  BY <1>1, RunsFinite, FS_Subset, FS_CardinalityType

LEMMA BranchesFinite ==
    \A S \in SUBSET Branches : IsFiniteSet(S) /\ Cardinality(S) \in Nat
<1>1. IsFiniteSet({"success"}) /\ Branches = {"success"} \cup {"failure"}
  BY FS_Singleton DEF Branches
<1>2. IsFiniteSet(Branches)
  BY <1>1, FS_AddElement
<1> QED
  BY <1>2, FS_Subset, FS_CardinalityType

\* No run begins to bear a claim, no branch is taken after an action that has no
\* quota, and no claim is deleted.
LEMMA SpendsNothing ==
    ASSUME TypeOK, Spent, UNCHANGED cleared, claim \subseteq claim',
           \A n \in Nodes \ Metered : taken'[n] = taken[n],
           \A w \in Runs : Bears(w)' => Bears(w)
    PROVE  Spent'
<1> SUFFICES ASSUME NEW n \in Nodes \ Metered
             PROVE  Cardinality(taken[n])' + Cardinality(Bearing(n)') <= cleared[n]' + Key(n)'
  BY DEF Spent
<1>1. Bearing(n)' \subseteq Bearing(n)
  BY DEF Bearing, Node
<1>2. Cardinality(Bearing(n)') \in Nat /\ Cardinality(Bearing(n)') <= Cardinality(Bearing(n))
  BY <1>1, BearingFinite, FS_Subset, FS_CardinalityType
<1>3. /\ Cardinality(taken[n]) \in Nat /\ cleared[n] \in Nat
      /\ Cardinality(Bearing(n)) \in Nat
  BY BearingFinite, BranchesFinite DEF TypeOK
<1>4. Key(n) \in {0, 1} /\ Key(n)' \in {0, 1} /\ Key(n) <= Key(n)'
  BY DEF Key
<1>5. Cardinality(taken[n]) + Cardinality(Bearing(n)) <= cleared[n] + Key(n)
  BY DEF Spent
<1>6. Cardinality(taken[n])' = Cardinality(taken[n]) /\ cleared[n]' = cleared[n]
  OBVIOUS
<1> QED
  BY <1>2, <1>3, <1>4, <1>5, <1>6

\* A run spends the claim it bears on one branch, or deletes a claim of its node.
LEMMA SpendsOne ==
    ASSUME TypeOK, Spent, NEW w \in Runs, Bears(w), ~Bears(w)', UNCHANGED cleared,
           \A v \in Runs \ {w} : Bears(v)' = Bears(v),
           \/ /\ \E b \in Branches : taken' = [taken EXCEPT ![Node(w)] = @ \cup {b}]
              /\ claim \subseteq claim'
           \/ /\ claim' = claim \ {Node(w)}
              /\ UNCHANGED taken
    PROVE  Spent'
<1> SUFFICES ASSUME NEW n \in Nodes \ Metered
             PROVE  Cardinality(taken[n])' + Cardinality(Bearing(n)') <= cleared[n]' + Key(n)'
  BY DEF Spent
<1>1. /\ Cardinality(taken[n]) \in Nat /\ cleared[n] \in Nat
      /\ Cardinality(Bearing(n)) \in Nat /\ IsFiniteSet(taken[n])
  BY BearingFinite, BranchesFinite DEF TypeOK
<1>2. Cardinality(taken[n]) + Cardinality(Bearing(n)) <= cleared[n] + Key(n)
  BY DEF Spent
<1>3. Key(n) \in {0, 1} /\ Key(n)' \in {0, 1}
  BY DEF Key
<1>4. CASE n = Node(w)
  <2>1. w \in Bearing(n) /\ Bearing(n)' = Bearing(n) \ {w}
    BY <1>4 DEF Bearing, Node
  <2>2. Cardinality(Bearing(n)') = Cardinality(Bearing(n)) - 1
    <3>1. IsFiniteSet(Bearing(n))
      BY BearingFinite
    <3>2. Cardinality(Bearing(n) \ {w}) = Cardinality(Bearing(n)) - 1
      BY <2>1, <3>1, FS_RemoveElement
    <3> QED
      BY <2>1, <3>2
  <2>3. ASSUME claim \subseteq claim',
               NEW b \in Branches, taken' = [taken EXCEPT ![Node(w)] = @ \cup {b}]
        PROVE  Cardinality(taken[n])' + Cardinality(Bearing(n)') <= cleared[n]' + Key(n)'
    <3>1. taken'[n] = taken[n] \cup {b} /\ cleared'[n] = cleared[n] /\ Key(n) <= Key(n)'
      BY <1>4, <2>3 DEF TypeOK, Key
    <3>2. Cardinality(taken[n] \cup {b}) =
              IF b \in taken[n] THEN Cardinality(taken[n]) ELSE Cardinality(taken[n]) + 1
      BY <1>1, FS_AddElement
    <3>3. Cardinality(taken'[n]) <= Cardinality(taken[n]) + 1 /\ Cardinality(taken'[n]) \in Nat
      BY <1>1, <3>1, <3>2
    <3> QED
      BY <1>1, <1>2, <1>3, <2>2, <3>1, <3>3
  <2>4. CASE claim' = claim \ {Node(w)} /\ UNCHANGED taken
    <3>1. Key(n)' = 0 /\ cleared'[n] = cleared[n] /\ taken'[n] = taken[n]
      BY <1>4, <2>4 DEF Key
    <3> QED
      BY <1>1, <1>2, <1>3, <2>2, <3>1
  <2> QED
    BY <2>3, <2>4
<1>5. CASE n # Node(w)
  <2>1. Bearing(n)' = Bearing(n)
    BY <1>5 DEF Bearing, Node
  <2>2. Key(n) <= Key(n)' /\ taken'[n] = taken[n] /\ cleared'[n] = cleared[n]
    BY <1>5 DEF Key, TypeOK
  <2> QED
    BY <1>1, <1>2, <1>3, <2>1, <2>2
<1> QED
  BY <1>4, <1>5

\* A claim is made where there is none, and borne by the run that has made it.
LEMMA ClaimSpent == ASSUME TypeOK, Spent, NEW w \in Runs, Claim(w) PROVE Spent'
<1> SUFFICES ASSUME NEW n \in Nodes \ Metered
             PROVE  Cardinality(taken[n])' + Cardinality(Bearing(n)') <= cleared[n]' + Key(n)'
  BY DEF Spent
<1>1. /\ UNCHANGED <<taken, cleared>>
      /\ \A v \in Runs : Bears(v)' <=> Bears(v) \/ v = w
      /\ Node(w) \notin claim /\ claim' = claim \cup {Node(w)}
  BY DEF Claim, Move, Bears, TypeOK, people, history
<1>2. Cardinality(taken[n]) + Cardinality(Bearing(n)) <= cleared[n] + Key(n)
  BY DEF Spent
<1>3. CASE n = Node(w)
  <2>1. Bearing(n)' = Bearing(n) \cup {w} /\ w \notin Bearing(n)
    BY <1>1, <1>3 DEF Bearing, Node, Bears, Claim, Move
  <2>2. IsFiniteSet(Bearing(n)) /\ Cardinality(Bearing(n)) \in Nat
    BY BearingFinite
  <2>3. Cardinality(Bearing(n) \cup {w}) = Cardinality(Bearing(n)) + 1
    BY <2>1, <2>2, FS_AddElement
  <2>4. Key(n) = 0 /\ Key(n)' = 1
    BY <1>1, <1>3 DEF Key
  <2>5. Cardinality(Bearing(n)') = Cardinality(Bearing(n)) + 1
    BY <2>1, <2>3
  <2>6. Cardinality(taken[n]) \in Nat /\ cleared[n] \in Nat
    BY BranchesFinite DEF TypeOK
  <2> QED
    BY <1>1, <1>2, <2>2, <2>4, <2>5, <2>6
<1>4. CASE n # Node(w)
  <2>1. Bearing(n)' = Bearing(n) /\ Key(n)' = Key(n)
    BY <1>1, <1>4 DEF Bearing, Node, Key
  <2> QED
    BY <1>1, <1>2, <2>1
<1> QED
  BY <1>3, <1>4

\* The operator who deletes a claim allows one more branch.
LEMMA ClearSpent == ASSUME TypeOK, Spent, ClearClaim PROVE Spent'
<1> SUFFICES ASSUME NEW n \in Nodes \ Metered
             PROVE  Cardinality(taken[n])' + Cardinality(Bearing(n)') <= cleared[n]' + Key(n)'
  BY DEF Spent
<1>1. Bearing(n)' = Bearing(n) /\ UNCHANGED taken
  BY DEF ClearClaim, Bearing, Bears, Node, worker, history
<1>2. Cardinality(taken[n]) + Cardinality(Bearing(n)) <= cleared[n] + Key(n)
  BY DEF Spent
<1>3. /\ Cardinality(taken[n]) \in Nat /\ cleared[n] \in Nat
      /\ Cardinality(Bearing(n)) \in Nat
  BY BearingFinite, BranchesFinite DEF TypeOK
<1>4. Key(n) \in {0, 1} /\ Key(n)' \in {0, 1}
  BY DEF Key
<1>5. CASE n = operator.node
  <2>1. cleared[n]' = cleared[n] + 1
    BY <1>5 DEF ClearClaim, TypeOK
  <2> QED
    BY <1>1, <1>2, <1>3, <1>4, <2>1
<1>6. CASE n # operator.node
  <2>1. cleared[n]' = cleared[n] /\ Key(n)' = Key(n)
    BY <1>6 DEF ClearClaim, TypeOK, Key
  <2> QED
    BY <1>1, <1>2, <2>1
<1> QED
  BY <1>5, <1>6

\* A step of one run leaves the others where they are.
LEMMA OthersStay ==
    ASSUME TypeOK, NEW w \in Runs,
           Handle(w) \/ ClaimFails(w) \/ FollowFails(w) \/ SettleFails(w) \/ Crash(w)
    PROVE  \A v \in Runs \ {w} : pc'[v] = pc[v] /\ result'[v] = result[v]
<1> USE DEF TypeOK, Move, Outcome, Leave
<1>1. CASE \/ RefuseQuota(w) \/ Claim(w) \/ Skip(w) \/ Execute(w) \/ Confirm(w)
           \/ LogStep(w) \/ Release(w) \/ DeadLetter(w)
  BY <1>1 DEF RefuseQuota, Claim, Skip, Execute, Confirm, LogStep, Release, DeadLetter
<1>2. CASE \/ (\E n \in todo[w] : Follow(w, n)) \/ Abort(w) \/ Settle(w)
           \/ Return(w) \/ Throw(w)
  BY <1>2 DEF Follow, Abort, Settle, Return, Throw
<1>3. CASE ClaimFails(w) \/ FollowFails(w) \/ SettleFails(w) \/ Crash(w)
  BY <1>3 DEF ClaimFails, FollowFails, SettleFails, Crash
<1> QED
  BY <1>1, <1>2, <1>3 DEF Handle

\* Whatever a run does next, it has the verdict that belongs to its place.
LEMMA VerdictsRun ==
    ASSUME TypeOK, Verdicts, NEW w \in Runs,
           Handle(w) \/ ClaimFails(w) \/ FollowFails(w) \/ SettleFails(w) \/ Crash(w)
    PROVE  Verdicts'
<1> DEFINE Fits(v) ==
        /\ pc[v] = "confirm" => result[v] \in {"success", "failure"}
        /\ pc[v] = "log" => result[v] \in {"success", "failure", "retry"} \/ Refused(v)
        /\ pc[v] = "deadLetter" => result[v] = "failure" \/ Refused(v)
<1>1. \A v \in Runs \ {w} : Fits(v)'
  BY OthersStay DEF Verdicts, Refused, Node
<1>2. Fits(w)'
  <2> USE DEF TypeOK, Move, Outcome, Leave, Refused, Node
  <2>1. CASE RefuseQuota(w) \/ Execute(w)
    BY <2>1 DEF RefuseQuota, Execute
  <2>2. CASE Confirm(w)
    BY <2>2 DEF Confirm, Verdicts
  <2>3. CASE LogStep(w)
    BY <2>3 DEF LogStep, AfterLog, Verdicts
  <2>4. CASE Claim(w) \/ Skip(w) \/ Release(w) \/ DeadLetter(w)
    BY <2>4 DEF Claim, Skip, Release, DeadLetter
  <2>5. CASE \/ (\E n \in todo[w] : Follow(w, n)) \/ Abort(w) \/ Settle(w)
             \/ Return(w) \/ Throw(w)
    BY <2>5 DEF Follow, Abort, Settle, Return, Throw
  <2>6. CASE ClaimFails(w) \/ FollowFails(w) \/ SettleFails(w) \/ Crash(w)
    BY <2>6 DEF ClaimFails, FollowFails, SettleFails, Crash
  <2> QED
    BY <2>1, <2>2, <2>3, <2>4, <2>5, <2>6 DEF Handle
<1> QED
  BY <1>1, <1>2 DEF Verdicts

\* The verdict is logged: a success takes its branch, a failure or another
\* attempt keeps the claim, a refusal never had one.
LEMMA LogSpent == ASSUME BInv, NEW w \in Runs, LogStep(w) PROVE Spent'
<1>0. TypeOK /\ Spent /\ Verdicts
  BY DEF BInv
<1>1. /\ UNCHANGED <<claim, cleared, result>>
      /\ pc[w] = "log" /\ pc'[w] = AfterLog(result[w])
  BY <1>0 DEF LogStep, Move, TypeOK, people
<1>2. \A v \in Runs \ {w} : Bears(v)' = Bears(v)
  BY <1>0, <1>1 DEF LogStep, Move, Bears, TypeOK
<1>3. CASE result[w] = "success"
  <2>1. Bears(w) /\ ~Bears(w)'
    BY <1>1, <1>3 DEF Bears, AfterLog
  <2>2. taken' = [taken EXCEPT ![Node(w)] = @ \cup {"success"}]
    BY <1>3 DEF LogStep, Continue, AfterLog, Branch
  <2> QED
    BY <1>0, <1>1, <1>2, <2>1, <2>2, SpendsOne DEF Branches
<1>4. CASE result[w] # "success"
  <2>1. UNCHANGED taken
    BY <1>1, <1>4 DEF LogStep, Continue, AfterLog
  <2>2. Bears(w)' => Bears(w)
    BY <1>0, <1>1, <1>4 DEF Bears, AfterLog, Verdicts, Refused
  <2> QED
    BY <1>0, <1>1, <1>2, <2>1, <2>2, SpendsNothing
<1> QED
  BY <1>3, <1>4

\* A failure takes its branch once it has been told of; an action over its quota
\* takes it too, but that one is metered.
LEMMA DeadLetterSpent == ASSUME BInv, NEW w \in Runs, DeadLetter(w) PROVE Spent'
<1>0. TypeOK /\ Spent /\ Verdicts
  BY DEF BInv
<1>1. /\ UNCHANGED <<claim, cleared, result>>
      /\ pc[w] = "deadLetter" /\ pc'[w] = "continue"
      /\ taken' = [taken EXCEPT ![Node(w)] = @ \cup {Branch(result[w])}]
  BY <1>0 DEF DeadLetter, Continue, Move, TypeOK, people
<1>2. \A v \in Runs \ {w} : Bears(v)' = Bears(v)
  BY <1>0, <1>1 DEF DeadLetter, Move, Bears, TypeOK
<1>3. ~Bears(w)'
  BY <1>1 DEF Bears
<1>4. CASE result[w] = "failure"
  <2>1. Bears(w) /\ Branch(result[w]) \in Branches
    BY <1>1, <1>4 DEF Bears, Branch, Branches
  <2> QED
    BY <1>0, <1>1, <1>2, <1>3, <2>1, SpendsOne
<1>5. CASE result[w] # "failure"
  <2>1. Node(w) \in Metered
    BY <1>0, <1>1, <1>5 DEF Verdicts, Refused
  <2>2. \A n \in Nodes \ Metered : taken'[n] = taken[n]
    BY <1>0, <1>1, <2>1 DEF TypeOK
  <2> QED
    BY <1>0, <1>1, <1>2, <1>3, <2>2, SpendsNothing
<1> QED
  BY <1>4, <1>5

LEMMA ReleaseSpent == ASSUME TypeOK, Spent, NEW w \in Runs, Release(w) PROVE Spent'
<1>1. UNCHANGED <<taken, cleared>> /\ Bears(w) /\ ~Bears(w)'
  BY DEF Release, Move, Bears, TypeOK, people, history
<1>2. \A v \in Runs \ {w} : Bears(v)' = Bears(v)
  BY DEF Release, Move, Bears, TypeOK
<1>3. CASE claim' = claim \ {Node(w)}
  BY <1>1, <1>2, <1>3, SpendsOne
<1>4. CASE UNCHANGED claim
  BY <1>1, <1>2, <1>4, SpendsNothing
<1> QED
  BY <1>3, <1>4 DEF Release

\* The other steps of a run: at most they let go of a claim.
LEMMA OtherSpent ==
    ASSUME BInv, NEW w \in Runs,
           \/ RefuseQuota(w) \/ Skip(w) \/ Execute(w) \/ Confirm(w)
           \/ (\E n \in todo[w] : Follow(w, n)) \/ Abort(w) \/ Settle(w)
           \/ Return(w) \/ Throw(w)
           \/ ClaimFails(w) \/ FollowFails(w) \/ SettleFails(w) \/ Crash(w)
    PROVE  Spent'
<1>0. TypeOK /\ Spent /\ Verdicts
  BY DEF BInv
<1>1. UNCHANGED <<taken, cleared>> /\ claim \subseteq claim'
  BY DEF RefuseQuota, Skip, Execute, Confirm, Follow, Abort, Settle, Return, Throw,
         ClaimFails, FollowFails, SettleFails, Crash, people, history
<1>2. \A v \in Runs \ {w} : Bears(v)' = Bears(v)
  BY <1>0, OthersStay DEF Bears, Handle
<1>3. Bears(w)' => Bears(w)
  <2>1. CASE RefuseQuota(w) \/ Skip(w) \/ ClaimFails(w)
    BY <1>0, <2>1 DEF RefuseQuota, Skip, ClaimFails, Move, Outcome, Bears, TypeOK
  <2>2. CASE Execute(w) \/ Confirm(w)
    BY <1>0, <2>2 DEF Execute, Confirm, Move, Outcome, Bears, TypeOK
  <2>3. CASE \/ (\E n \in todo[w] : Follow(w, n)) \/ Abort(w) \/ Settle(w)
             \/ FollowFails(w) \/ SettleFails(w)
    BY <1>0, <2>3 DEF Follow, Abort, Settle, FollowFails, SettleFails, Move, Bears, TypeOK
  <2>4. CASE Return(w) \/ Throw(w) \/ Crash(w)
    BY <1>0, <2>4 DEF Return, Throw, Crash, Leave, Bears, TypeOK
  <2> QED
    BY <2>1, <2>2, <2>3, <2>4
<1> QED
  BY <1>0, <1>1, <1>2, <1>3, SpendsNothing

LEMMA SpentNext == BInv /\ [Next]_vars => BInv'
<1> SUFFICES ASSUME BInv, [Next]_vars PROVE BInv'
  OBVIOUS
<1>0. TypeOK /\ Spent /\ Verdicts
  BY DEF BInv
<1>1. TypeOK'
  BY <1>0, TypeNext
<1>2. ASSUME NEW w \in Runs, Handle(w) PROVE Spent' /\ Verdicts'
  BY <1>0, <1>2, ClaimSpent, LogSpent, DeadLetterSpent, ReleaseSpent, OtherSpent, VerdictsRun
     DEF Handle
<1>3. CASE Fail
  BY <1>0, <1>1, <1>3, OtherSpent, VerdictsRun DEF Fail, BInv
<1>4. ASSUME NEW j \in Jobs, Take(j) PROVE Spent' /\ Verdicts'
  <2>1. Verdicts' /\ \A v \in Runs : Bears(v)' => Bears(v)
    BY <1>0, <1>4 DEF Take, Verdicts, Refused, Node, Bears, TypeOK
  <2>2. UNCHANGED <<taken, cleared, claim>>
    BY <1>4 DEF Take, people, history
  <2> QED
    BY <1>0, <2>1, <2>2, SpendsNothing
<1>5. CASE ClearClaim
  <2>1. Verdicts'
    BY <1>0, <1>5 DEF ClearClaim, Verdicts, Refused, Node, worker
  <2> QED
    BY <1>0, <1>1, <1>5, <2>1, ClearSpent DEF BInv
<1>6. ASSUME UNCHANGED <<taken, cleared, claim, pc, result>>
      PROVE  Spent' /\ Verdicts'
  <2>1. Verdicts' /\ \A v \in Runs : Bears(v)' => Bears(v)
    BY <1>0, <1>6 DEF Verdicts, Refused, Node, Bears
  <2> QED
    BY <1>0, <1>6, <2>1, SpendsNothing
<1>7. CASE \/ \E n \in starting : Dispatch(n)
           \/ \E j \in Jobs : Requeue(j)
           \/ DispatchFails \/ StarterDies
  <2>1. UNCHANGED <<taken, cleared, claim, pc, result>>
    BY <1>7 DEF Dispatch, Requeue, DispatchFails, StarterDies, worker, people, history
  <2> QED
    BY <1>1, <1>6, <2>1 DEF BInv
<1>8. CASE \/ \E n \in Nodes : RetryStep(n)
           \/ DispatchRetry \/ RefuseRetry
           \/ \E n \in dead : MarkDlq(n)
           \/ UNCHANGED vars
  <2>1. UNCHANGED <<taken, cleared, claim, pc, result>>
    BY <1>8 DEF RetryStep, DispatchRetry, RefuseRetry, MarkDlq, vars, worker, people, history
  <2> QED
    BY <1>1, <1>6, <2>1 DEF BInv
<1> QED
  BY <1>1, <1>2, <1>3, <1>4, <1>5, <1>7, <1>8 DEF Next, Work, Retry, BInv

\* The graph goes on along one branch of an action that nobody has retried by
\* hand, for any graph and however its jobs are retried, stalled and crash.
THEOREM OneBranchTaken == Spec => []OneBranch
<1>1. Init => BInv
  <2> SUFFICES ASSUME Init PROVE BInv
    OBVIOUS
  <2>1. \A n : Bearing(n) = {}
    BY DEF Init, Bearing, Bears
  <2>2. \A n \in Nodes : taken[n] = {} /\ cleared[n] = 0 /\ Key(n) = 0
    BY DEF Init, Key
  <2>3. Spent
    <3>1. Cardinality({}) = 0
      BY FS_EmptySet
    <3> QED
      BY <2>1, <2>2, <3>1 DEF Spent
  <2> QED
    BY <2>3, TypeInit DEF Init, BInv, Verdicts
<1>2. BInv /\ [Next]_vars => BInv'
  BY SpentNext
<1>3. BInv => OneBranch
  <2> SUFFICES ASSUME BInv, NEW n \in Nodes \ Metered, cleared[n] = 0, taken[n] = Branches
               PROVE  FALSE
    BY DEF OneBranch
  <2>1. Cardinality(Bearing(n)) \in Nat /\ Key(n) \in {0, 1}
    BY BearingFinite DEF Key
  <2>2. Cardinality(Branches) + Cardinality(Bearing(n)) <= 0 + Key(n)
    BY DEF BInv, Spent
  <2>3. Cardinality(Branches) = 2
    <3>1. IsFiniteSet({"success"}) /\ Cardinality({"success"}) = 1
      BY FS_Singleton
    <3>2. Cardinality({"success"} \cup {"failure"}) = 2
      <4>1. Cardinality({"success"} \cup {"failure"}) =
                IF "failure" \in {"success"} THEN Cardinality({"success"})
                ELSE Cardinality({"success"}) + 1
        BY <3>1, FS_AddElement
      <4> QED
        BY <3>1, <4>1
    <3>3. Branches = {"success"} \cup {"failure"}
      BY DEF Branches
    <3> QED
      BY <3>2, <3>3
  <2> QED
    BY <2>1, <2>2, <2>3
<1> QED
  BY <1>1, <1>2, <1>3, PTL DEF Spec

-----------------------------------------------------------------------------
(* A failure that has been followed shows, or is about to: its run is on    *)
(* the way to write it.                                                     *)

Telling(w) == pc[w] = "continue" /\ Branch(result[w]) = "failure"

Showing ==
    incidents = 0 =>
        \A n \in Nodes :
            "failure" \in taken[n] => status = "failed" \/ \E w \in Runs : Telling(w)

\* A job that waits to be taken, or to be taken once more, has no run yet.
Unstarted ==
    \A j \in Jobs :
        /\ job[j] \in {"none", "waiting"} => pc[<<j, stalls[j]>>] = "idle"
        /\ \A k \in 0 .. MaxStalls : k > stalls[j] => pc[<<j, k>>] = "idle"

LEMMA UnstartedNext == TypeOK /\ Unstarted /\ [Next]_vars => Unstarted'
<1> SUFFICES ASSUME TypeOK, Unstarted, [Next]_vars PROVE Unstarted'
  OBVIOUS
<1>0. /\ stalls \in [Jobs -> 0 .. MaxStalls]
      /\ job \in [Jobs -> {"none", "waiting", "active", "completed", "failed"}]
      /\ pc \in [Runs -> Pcs]
      /\ \A j \in Jobs, k \in 0 .. MaxStalls : <<j, k>> \in Runs
  BY DEF TypeOK, Runs
\* A step that leaves the queue alone is one of a run that has begun, or ends it.
<1>1. ASSUME UNCHANGED <<job, stalls>>,
             \A w \in Runs : pc[w] = "idle" => pc'[w] = "idle"
      PROVE  Unstarted'
  BY <1>0, <1>1 DEF Unstarted
<1>2. ASSUME NEW w \in Runs,
             Handle(w) \/ ClaimFails(w) \/ FollowFails(w) \/ SettleFails(w) \/ Crash(w)
      PROVE  Unstarted'
  <2>1. pc[w] # "idle"
    BY <1>2
       DEF Handle, RefuseQuota, Claim, Skip, Execute, Confirm, LogStep, Release, DeadLetter,
           Follow, Abort, Settle, Return, Throw, ClaimFails, FollowFails, SettleFails, Crash,
           Move
  <2>2. \A v \in Runs : pc[v] = "idle" => pc'[v] = "idle"
    BY <1>2, <2>1, OthersStay
  <2>3. CASE UNCHANGED <<job, stalls>>
    BY <1>1, <2>2, <2>3
  <2>4. ASSUME NEW n \in todo[w], Follow(w, n) PROVE Unstarted'
    BY <1>0, <2>2, <2>4 DEF Follow, Add, Unstarted
  \* The run that gives its job back has ended.
  <2>5. CASE Return(w) \/ Throw(w)
    <3>1. w[1] \in Jobs /\ w = <<w[1], w[2]>> /\ pc'[w] = "idle" /\ UNCHANGED stalls
      BY <1>0, <2>5 DEF Return, Throw, Leave, Runs
    <3>2. \A j \in Jobs :
             job'[j] = job[j] \/ (job[j] = "active" /\ <<j, stalls[j]>> = w)
      BY <1>0, <2>5, <3>1 DEF Return, Throw, Finish, Locked
    <3> QED
      BY <1>0, <2>2, <3>1, <3>2 DEF Unstarted
  <2> QED
    BY <1>2, <2>3, <2>4, <2>5
       DEF Handle, RefuseQuota, Claim, Skip, Execute, Confirm, LogStep, Release, DeadLetter,
           Abort, Settle, ClaimFails, FollowFails, SettleFails, Crash, queue
<1>3. ASSUME NEW j \in Jobs, Take(j) \/ Requeue(j) PROVE Unstarted'
  BY <1>0, <1>3 DEF Take, Requeue, Unstarted, worker
<1>4. CASE (\E n \in starting : Dispatch(n)) \/ DispatchRetry
  BY <1>0, <1>4 DEF Dispatch, DispatchRetry, Add, Unstarted, worker
<1>5. CASE \/ DispatchFails \/ StarterDies
           \/ (\E n \in Nodes : RetryStep(n)) \/ ClearClaim \/ RefuseRetry
           \/ (\E n \in dead : MarkDlq(n)) \/ UNCHANGED vars
  BY <1>1, <1>5
     DEF DispatchFails, StarterDies, RetryStep, ClearClaim, RefuseRetry, MarkDlq, vars, queue,
         worker
<1> QED
  BY <1>2, <1>3, <1>4, <1>5 DEF Next, Work, Fail, Retry

LEMMA IncidentCounted == ASSUME TypeOK, NEW f, Incident(f) PROVE incidents' # 0
  BY DEF TypeOK, Incident

LEMMA ShowingRun ==
    ASSUME TypeOK, Showing, NEW w \in Runs, Handle(w) PROVE Showing'
<1> SUFFICES ASSUME incidents' = 0 PROVE Showing'
  BY DEF Showing
<1>0. incidents = 0
  BY IncidentCounted
     DEF Handle, RefuseQuota, Claim, Skip, Execute, Confirm, LogStep, Release, DeadLetter,
         Follow, Abort, Settle, Return, Throw
<1>1. \A v \in Runs \ {w} : Telling(v) => Telling(v)'
  BY OthersStay DEF Telling
\* Only the end of a failure's story writes a failure's branch.
<1>2. CASE LogStep(w) \/ DeadLetter(w)
  <2>1. UNCHANGED <<status, result>> /\ ~Telling(w)
    BY <1>2 DEF LogStep, DeadLetter, Move, Telling, execution
  <2>2. CASE UNCHANGED taken
    BY <1>0, <1>1, <2>1, <2>2 DEF Showing
  <2>3. CASE /\ taken' = [taken EXCEPT ![Node(w)] = @ \cup {Branch(result[w])}]
             /\ pc'[w] = "continue"
    <3>1. \A n \in Nodes : "failure" \in taken'[n] =>
             "failure" \in taken[n] \/ Branch(result[w]) = "failure"
      BY <2>3 DEF TypeOK
    <3>2. Branch(result[w]) = "failure" => Telling(w)'
      BY <2>1, <2>3 DEF Telling, Branch
    <3> QED
      BY <1>0, <1>1, <2>1, <3>1, <3>2 DEF Showing
  <2> QED
    BY <1>2, <2>2, <2>3 DEF LogStep, DeadLetter, Continue, Move, AfterLog, TypeOK
<1>3. CASE Settle(w)
  <2>1. UNCHANGED <<taken, incidents>> /\ (status = "failed" => status' = "failed")
    BY <1>3 DEF Settle, Settled, history
  <2>2. Telling(w) => status' = "failed"
    BY <1>3 DEF Settle, Settled, Telling
  <2> QED
    BY <1>0, <1>1, <2>1, <2>2 DEF Showing
<1>4. CASE \/ RefuseQuota(w) \/ Claim(w) \/ Skip(w) \/ Execute(w) \/ Confirm(w)
           \/ Release(w) \/ Abort(w) \/ Return(w) \/ Throw(w)
  <2>1. UNCHANGED taken /\ ~Telling(w) /\ (status = "failed" => status' = "failed")
    BY <1>4
       DEF RefuseQuota, Claim, Skip, Execute, Confirm, Release, Abort, Return, Throw,
           Move, Telling, execution, history
  <2> QED
    BY <1>0, <1>1, <2>1 DEF Showing
<1>5. ASSUME NEW n \in todo[w], Follow(w, n) PROVE Showing'
  BY <1>0, <1>5 DEF Follow, Showing, Telling, execution, history
<1> QED
  BY <1>2, <1>3, <1>4, <1>5 DEF Handle

LEMMA ShowingNext == TypeOK /\ Unstarted /\ Showing /\ [Next]_vars => Showing'
<1> SUFFICES ASSUME TypeOK, Unstarted, Showing, [Next]_vars PROVE Showing'
  OBVIOUS
<1>1. ASSUME NEW w \in Runs, Handle(w) PROVE Showing'
  BY <1>1, ShowingRun
\* An incident ends what is promised.
<1>2. CASE Fail \/ DispatchFails \/ StarterDies
  <2>1. incidents' # 0
    BY <1>2, IncidentCounted
       DEF Fail, ClaimFails, FollowFails, SettleFails, Crash, DispatchFails, StarterDies
  <2> QED
    BY <2>1 DEF Showing
<1>3. ASSUME NEW j \in Jobs, Take(j) PROVE Showing'
  <2>1. UNCHANGED <<taken, status, result, incidents>>
    BY <1>3 DEF Take, execution, history
  <2>2. \A v \in Runs : Telling(v) => Telling(v)'
    BY <1>3 DEF Take, Telling, Unstarted, TypeOK
  <2> QED
    BY <2>1, <2>2 DEF Showing
<1>4. ASSUME NEW j \in Jobs, Requeue(j) PROVE Showing'
  <2>1. incidents' = 0 => incidents = 0
    BY <1>4, IncidentCounted DEF Requeue
  <2> QED
    BY <1>4, <2>1 DEF Requeue, Showing, Telling, execution, worker, history
<1>5. CASE \/ \E n \in starting : Dispatch(n)
           \/ Retry \/ \E n \in dead : MarkDlq(n)
           \/ UNCHANGED vars
  <2>1. UNCHANGED <<taken, status, pc, result, incidents>>
    BY <1>5
       DEF Dispatch, Retry, RetryStep, ClearClaim, DispatchRetry, RefuseRetry, MarkDlq, vars,
           execution, worker, history
  <2> QED
    BY <2>1 DEF Showing, Telling
<1> QED
  BY <1>1, <1>2, <1>3, <1>4, <1>5 DEF Next, Work

\* Parallel branches finish in any order, and none hides the failure of
\* another: once every worker rests, a failed action shows in the execution.
THEOREM FailuresShow == Spec => []FailureShows
<1>1. Init => Unstarted /\ Showing
  BY DEF Init, Unstarted, Showing, Runs
<1>2. TypeOK /\ Unstarted /\ Showing /\ [Next]_vars => Unstarted' /\ Showing'
  BY UnstartedNext, ShowingNext
<1>3. Showing => FailureShows
  BY DEF Showing, Telling, FailureShows
<1> QED
  BY <1>1, <1>2, <1>3, Typing, PTL DEF Spec
=============================================================================
