----------------------- MODULE AssignmentCommandProofs -----------------------
(***************************************************************************)
(* Proofs about AssignmentCommand, for any records, agents, workers,       *)
(* capacity, strategy and bounds.                                          *)
(***************************************************************************)
EXTENDS AssignmentCommand, FiniteSetTheorems, TLAPS

-----------------------------------------------------------------------------
(* Type correctness.                                                        *)

LEMMA DecrementType == \A n \in Nat : Decrement(n) \in Nat
  BY DEF Decrement

\* Whatever reserve() selects comes from the pool.
LEMMA SelectableInPool ==
    ASSUME NEW w \in Workers
    PROVE  Selectable(w) \subseteq pool[w]
  BY DEF Selectable, LeastLoaded, UnderCapacity

\* commitDirect runs only where a fallback owner is configured, so that the
\* candidate it does not look for is somebody.
DirectHasFallback == \A w \in Workers : Direct(w) => Fallback # None

TypeInv == TypeOK /\ DirectHasFallback

LEMMA TypeInvIsInvariant == Spec => []TypeInv
<1>1. Init => TypeInv
  BY ConstantsAssumption
     DEF Init, TypeInv, TypeOK, DirectHasFallback, Direct, Assignee, Pcs
<1>2. TypeInv /\ [Next]_vars => TypeInv'
  <2> SUFFICES ASSUME TypeInv, [Next]_vars PROVE TypeInv'
    OBVIOUS
  <2> USE ConstantsAssumption
      DEF TypeInv, TypeOK, DirectHasFallback, Direct, mongo, redis, run, local, env, At, Goto, Return,
          Assignee, Pcs, ExecutingPcs, Flags
  <2>1. ASSUME NEW w \in Workers, Advance(w) PROVE TypeInv'
    <3>1. CASE Enter(w)
      BY <3>1, SMTT(30) DEF Enter
    <3>2. CASE Create(w)
      BY <3>2 DEF Create, Begin
    <3>3. CASE Retry(w)
      BY <3>3 DEF Retry, Begin
    <3>4. CASE Conflict(w)
      BY <3>4 DEF Conflict
    <3>5. CASE ResolveTarget(w)
      BY <3>5 DEF ResolveTarget, QueueOrFallback
    <3>6. CASE Unrouted(w)
      BY <3>6 DEF Unrouted
    <3>7. CASE LookupLease(w)
      BY <3>7 DEF LookupLease
    <3>8. CASE DropStaleLoad(w)
      BY <3>8, DecrementType DEF DropStaleLoad
    <3>9. CASE DropStaleLease(w)
      BY <3>9 DEF DropStaleLease
    <3>10. CASE Reserve(w)
      BY <3>10, SelectableInPool DEF Reserve
    <3>11. CASE NoneReserved(w)
      BY <3>11 DEF NoneReserved, QueueOrFallback
    <3>12. CASE DirectUnreserved(w)
      BY <3>12, SMTT(30) DEF DirectUnreserved
    <3>13. CASE Commit(w)
      BY <3>13 DEF Commit
    <3>14. CASE CommitRaceLost(w)
      BY <3>14 DEF CommitRaceLost
    <3>15. CASE CommitFails(w)
      BY <3>15 DEF CommitFails
    <3>16. CASE ReleaseLoad(w)
      BY <3>16, DecrementType DEF ReleaseLoad
    <3>17. CASE ReleaseLease(w)
      BY <3>17, SMTT(30) DEF ReleaseLease, AfterRelease, QueueOrFallback
    <3>18. CASE ReleaseFails(w)
      BY <3>18, SMTT(30) DEF ReleaseFails, AfterRelease, QueueOrFallback
    <3>19. CASE CleanQueue(w)
      BY <3>19 DEF CleanQueue
    <3>20. CASE CompleteLease(w)
      BY <3>20 DEF CompleteLease
    <3>21. CASE Park(w)
      BY <3>21 DEF Park
    <3>22. CASE CompleteWithOutbox(w)
      BY <3>22, SMTT(30) DEF CompleteWithOutbox
    <3>23. CASE CompleteFails(w)
      BY <3>23 DEF CompleteFails
    <3>24. CASE Abort(w)
      BY <3>24 DEF Abort
    <3> QED
      BY <2>1, <3>1, <3>2, <3>3, <3>4, <3>5, <3>6, <3>7, <3>8, <3>9, <3>10, <3>11,
         <3>12, <3>13, <3>14, <3>15, <3>16, <3>17, <3>18, <3>19, <3>20, <3>21,
         <3>22, <3>23, <3>24 DEF Advance
  <2>2. ASSUME NEW w \in Workers, ScanStale(w) PROVE TypeInv'
    BY <2>2 DEF ScanStale
  <2>3. ASSUME NEW w \in Workers, NEW r \in Records, RecoverClaim(w, r) PROVE TypeInv'
    BY <2>3, SMTT(30) DEF RecoverClaim
  <2>4. ASSUME NEW w \in Workers, Crash(w) PROVE TypeInv'
    BY <2>4, SMTT(30) DEF Crash
  <2>5. ASSUME NEW w \in Workers, NEW r \in Records, Submit(w, r) PROVE TypeInv'
    BY <2>5 DEF Submit
  <2>6. ASSUME NEW r \in Records, NEW a \in Assignee, ChangeOwner(r, a) PROVE TypeInv'
    BY <2>6 DEF ChangeOwner
  <2>7. ASSUME NEW e \in pending, HandleLifecycle(e) PROVE TypeInv'
    BY <2>7, DecrementType DEF HandleLifecycle
  <2>8. CASE UNCHANGED vars
    BY <2>8 DEF vars
  <2> QED
    BY <2>1, <2>2, <2>3, <2>4, <2>5, <2>6, <2>7, <2>8 DEF Next, Recover
<1> QED
  BY <1>1, <1>2, PTL DEF Spec

\* The state has its type, and an execution has a candidate whenever it works
\* on a slot: nil never reaches the commit port or the release script.
THEOREM Typing == Spec => []TypeOK
  BY TypeInvIsInvariant, PTL DEF TypeInv

-----------------------------------------------------------------------------
(* What a recorded decision means, whatever fails or races.                 *)

\* A step that leaves the command store alone.
StoreUnchanged == UNCHANGED <<status, decision, announced, event>>

\* The steps of core.assign(), and the failure of the final transaction.
Assign(w) ==
    \/ ResolveTarget(w) \/ Unrouted(w)
    \/ LookupLease(w) \/ DropStaleLoad(w) \/ DropStaleLease(w)
    \/ Reserve(w) \/ NoneReserved(w) \/ DirectUnreserved(w)
    \/ Commit(w) \/ CommitRaceLost(w) \/ CommitFails(w)
    \/ ReleaseLoad(w) \/ ReleaseLease(w) \/ ReleaseFails(w)
    \/ CleanQueue(w) \/ CompleteLease(w) \/ Park(w) \/ CompleteFails(w)

\* A step from one place of core.assign() to another.
Within(w) ==
    /\ Executing(w) /\ pc'[w] \in ExecutingPcs
    /\ \A v \in Workers \ {w} : pc'[v] = pc[v] /\ pick'[v] = pick[v]
    /\ UNCHANGED <<rec, scan>>

LEMMA AssignStep ==
    ASSUME TypeOK, NEW w \in Workers, Assign(w)
    PROVE  Within(w) /\ StoreUnchanged
<1> USE DEF TypeOK, Within, StoreUnchanged, Executing, At, Goto,
            mongo, redis, run, env, Pcs, ExecutingPcs
<1>1. CASE ResolveTarget(w)
  BY <1>1 DEF ResolveTarget, QueueOrFallback
<1>2. CASE Unrouted(w)
  BY <1>2 DEF Unrouted
<1>3. CASE LookupLease(w)
  BY <1>3 DEF LookupLease
<1>4. CASE DropStaleLoad(w)
  BY <1>4 DEF DropStaleLoad
<1>5. CASE DropStaleLease(w)
  BY <1>5 DEF DropStaleLease
<1>6. CASE Reserve(w)
  BY <1>6 DEF Reserve
<1>7. CASE NoneReserved(w)
  BY <1>7 DEF NoneReserved, QueueOrFallback
<1>8. CASE DirectUnreserved(w)
  BY <1>8 DEF DirectUnreserved
<1>9. CASE Commit(w)
  BY <1>9 DEF Commit
<1>10. CASE CommitRaceLost(w)
  BY <1>10 DEF CommitRaceLost
<1>11. CASE CommitFails(w)
  BY <1>11 DEF CommitFails
<1>12. CASE ReleaseLoad(w)
  BY <1>12 DEF ReleaseLoad
<1>13. CASE ReleaseLease(w)
  BY <1>13 DEF ReleaseLease, AfterRelease, QueueOrFallback
<1>14. CASE ReleaseFails(w)
  BY <1>14 DEF ReleaseFails, AfterRelease, QueueOrFallback
<1>15. CASE CleanQueue(w)
  BY <1>15 DEF CleanQueue
<1>16. CASE CompleteLease(w)
  BY <1>16 DEF CompleteLease
<1>17. CASE Park(w)
  BY <1>17 DEF Park
<1>18. CASE CompleteFails(w)
  BY <1>18 DEF CompleteFails
<1> QED
  BY <1>1, <1>2, <1>3, <1>4, <1>5, <1>6, <1>7, <1>8, <1>9, <1>10, <1>11, <1>12,
     <1>13, <1>14, <1>15, <1>16, <1>17, <1>18 DEF Assign

\* Every step, sorted by what it does to the command store.
LEMMA Steps ==
    ASSUME [Next]_vars
    PROVE  \/ \E w \in Workers :
                \/ Assign(w) \/ Enter(w) \/ Create(w) \/ Retry(w) \/ Conflict(w)
                \/ CompleteWithOutbox(w) \/ Abort(w) \/ ScanStale(w) \/ Crash(w)
                \/ \E r \in Records : RecoverClaim(w, r) \/ Submit(w, r)
           \/ \E r \in Records, a \in Assignee : ChangeOwner(r, a)
           \/ \E e \in pending : HandleLifecycle(e)
           \/ UNCHANGED vars
  BY DEF Next, Advance, Recover, Assign

\* No step at all changes a decision that was recorded.
THEOREM DecisionsAreFinal == Spec => DecisionIsFinal
<1> DEFINE Kept == \A r \in Records :
             status[r] = "completed" => status'[r] = "completed" /\ decision'[r] = decision[r]
<1>1. TypeOK /\ [Next]_vars => [Kept]_vars
  <2> SUFFICES ASSUME TypeOK, [Next]_vars PROVE Kept
    OBVIOUS
  <2> USE DEF TypeOK, StoreUnchanged, mongo, env, At
  <2>1. ASSUME NEW w \in Workers, Assign(w) PROVE Kept
    BY <2>1, AssignStep
  <2>2. ASSUME NEW w \in Workers,
               Enter(w) \/ Conflict(w) \/ ScanStale(w) \/ Crash(w) PROVE Kept
    BY <2>2 DEF Enter, Conflict, ScanStale, Crash
  <2>3. ASSUME NEW w \in Workers, Create(w) \/ Retry(w) PROVE Kept
    BY <2>3 DEF Create, Retry, Begin
  \* The transaction writes the decision of a command in progress only.
  <2>4. ASSUME NEW w \in Workers, CompleteWithOutbox(w) PROVE Kept
    BY <2>4 DEF CompleteWithOutbox
  <2>5. ASSUME NEW w \in Workers, Abort(w) PROVE Kept
    BY <2>5 DEF Abort
  <2>6. ASSUME NEW w \in Workers, NEW r \in Records, RecoverClaim(w, r) \/ Submit(w, r)
        PROVE  Kept
    BY <2>6 DEF RecoverClaim, Submit
  <2>7. ASSUME NEW r \in Records, NEW a \in Assignee, ChangeOwner(r, a) PROVE Kept
    BY <2>7 DEF ChangeOwner
  <2>8. ASSUME NEW e \in pending, HandleLifecycle(e) PROVE Kept
    BY <2>8 DEF HandleLifecycle
  <2>9. CASE UNCHANGED vars
    BY <2>9 DEF vars
  <2> QED
    BY <2>1, <2>2, <2>3, <2>4, <2>5, <2>6, <2>7, <2>8, <2>9, Steps
<1> QED
  BY <1>1, Typing, PTL DEF Spec, DecisionIsFinal

\* A completed command has its outbox event, whatever fails or races.
THEOREM CompletedAnnounced == Spec => []CompletedIsAnnounced
<1>1. Init => CompletedIsAnnounced
  BY DEF Init, CompletedIsAnnounced
<1>2. TypeOK /\ CompletedIsAnnounced /\ [Next]_vars => CompletedIsAnnounced'
  <2> SUFFICES ASSUME TypeOK, CompletedIsAnnounced, [Next]_vars
               PROVE  CompletedIsAnnounced'
    OBVIOUS
  <2> USE DEF TypeOK, CompletedIsAnnounced, StoreUnchanged, mongo, env, At
  <2>1. ASSUME NEW w \in Workers, Assign(w) PROVE CompletedIsAnnounced'
    BY <2>1, AssignStep
  <2>2. ASSUME NEW w \in Workers,
               Enter(w) \/ Conflict(w) \/ ScanStale(w) \/ Crash(w)
        PROVE  CompletedIsAnnounced'
    BY <2>2 DEF Enter, Conflict, ScanStale, Crash
  <2>3. ASSUME NEW w \in Workers, Create(w) \/ Retry(w) \/ Abort(w)
        PROVE  CompletedIsAnnounced'
    BY <2>3 DEF Create, Retry, Begin, Abort
  \* Status and event are written by one transaction.
  <2>4. ASSUME NEW w \in Workers, CompleteWithOutbox(w) PROVE CompletedIsAnnounced'
    BY <2>4 DEF CompleteWithOutbox
  <2>5. ASSUME NEW w \in Workers, NEW r \in Records, RecoverClaim(w, r) \/ Submit(w, r)
        PROVE  CompletedIsAnnounced'
    BY <2>5 DEF RecoverClaim, Submit
  <2>6. ASSUME NEW r \in Records, NEW a \in Assignee, ChangeOwner(r, a)
        PROVE  CompletedIsAnnounced'
    BY <2>6 DEF ChangeOwner
  <2>7. ASSUME NEW e \in pending, HandleLifecycle(e) PROVE CompletedIsAnnounced'
    BY <2>7 DEF HandleLifecycle
  <2>8. CASE UNCHANGED vars
    BY <2>8 DEF vars
  <2> QED
    BY <2>1, <2>2, <2>3, <2>4, <2>5, <2>6, <2>7, <2>8, Steps
<1> QED
  BY <1>1, <1>2, Typing, PTL DEF Spec

-----------------------------------------------------------------------------
(* With one recovery cron and no live execution taken for dead, a command   *)
(* has one executor, and its decision and its event tell the truth.         *)

OneRecoverer ==
    /\ "slow" \notin Faults
    /\ \A u, v \in Recoverers : u = v

\* A command that is being executed is in progress.
ExecutingInProgress ==
    \A w \in Workers : Executing(w) => status[rec[w]] = "processing"

\* What the recovery has found and not yet tried stays abandoned.
ScanIsAbandoned ==
    \A w \in Workers : \A r \in scan[w] : w \in Recoverers /\ Abandoned(r)

Exclusive == SingleExecutor /\ ExecutingInProgress /\ ScanIsAbandoned

LEMMA ExclusiveIsInvariant ==
    ASSUME OneRecoverer
    PROVE  Spec => []Exclusive
<1>1. Init => Exclusive
  BY DEF Init, Exclusive, SingleExecutor, ExecutingInProgress, ScanIsAbandoned,
         Executing, ExecutingPcs
<1>2. TypeOK /\ Exclusive /\ [Next]_vars => Exclusive'
  <2> SUFFICES ASSUME TypeOK, Exclusive, [Next]_vars PROVE Exclusive'
    OBVIOUS
  <2> USE DEF TypeOK, Exclusive, SingleExecutor, ExecutingInProgress, ScanIsAbandoned,
              Abandoned, Executing, StoreUnchanged, At
  <2>1. ASSUME NEW w \in Workers, Assign(w) PROVE Exclusive'
    BY <2>1, AssignStep DEF Within
  <2>2. ASSUME NEW w \in Workers, Enter(w) \/ Conflict(w) PROVE Exclusive'
    <3>1. UNCHANGED <<status, scan>>
      BY <2>2 DEF Enter, Conflict, mongo
    <3>2. ~Executing(w)' /\ \A v \in Workers \ {w} : pc'[v] = pc[v] /\ rec'[v] = rec[v]
      BY <2>2 DEF Enter, Conflict, Goto, Return, run, ExecutingPcs
    <3> QED
      BY <3>1, <3>2
  \* The command was not in progress, so nobody executes it and no scan has it.
  <2>3. ASSUME NEW w \in Workers, Create(w) \/ Retry(w) PROVE Exclusive'
    BY <2>3 DEF Create, Retry, Begin, Goto, run, ExecutingPcs
  \* Its only executor leaves the command.
  <2>4. ASSUME NEW w \in Workers, CompleteWithOutbox(w) \/ Abort(w) PROVE Exclusive'
    <3>1. Executing(w) /\ rec[w] \in Records /\ UNCHANGED scan
      BY <2>4 DEF CompleteWithOutbox, Abort, ExecutingPcs
    <3>2. \A r \in Records \ {rec[w]} : status'[r] = status[r]
      BY <2>4 DEF CompleteWithOutbox, Abort
    <3>3. ~Executing(w)' /\ \A v \in Workers \ {w} : pc'[v] = pc[v] /\ rec'[v] = rec[v]
      BY <2>4 DEF CompleteWithOutbox, Abort, Goto, Return, ExecutingPcs
    <3>4. \A v \in Workers :
             /\ Executing(v) => rec[v] \in Records
             /\ scan[v] \subseteq Records
      BY DEF ExecutingPcs
    <3> HIDE DEF TypeOK
    <3> QED
      BY <3>1, <3>2, <3>3, <3>4
  <2>5. ASSUME NEW w \in Workers, ScanStale(w) PROVE Exclusive'
    BY <2>5, OneRecoverer DEF ScanStale, OneRecoverer, mongo, run
  <2>6. ASSUME NEW w \in Workers, Crash(w) PROVE Exclusive'
    BY <2>6 DEF Crash, Goto, Return, mongo, ExecutingPcs
  \* No executor loses its command: what was scanned is still abandoned.
  <2>7. ASSUME NEW w \in Workers, NEW r \in Records, RecoverClaim(w, r) PROVE Exclusive'
    <3>1. /\ r \in scan[w] /\ w \in Recoverers
          /\ \A v \in Workers \ {w} : scan[v] = {}
      BY <2>7, OneRecoverer DEF RecoverClaim, OneRecoverer
    <3>2. /\ \A q \in Records \ {r} : status'[q] = status[q]
          /\ scan'[w] = scan[w] \ {r}
          /\ \A v \in Workers \ {w} : scan'[v] = scan[v]
      BY <2>7 DEF RecoverClaim
    <3>3. /\ \A v \in Workers : Executing(v)' <=> Executing(v)
          /\ \A v \in Workers : Executing(v) => rec'[v] = rec[v]
      BY <2>7 DEF RecoverClaim, Goto, ExecutingPcs
    <3>4. \A v \in Workers :
             /\ Executing(v) => rec[v] \in Records
             /\ scan[v] \subseteq Records
      BY DEF ExecutingPcs
    <3> HIDE DEF TypeOK
    <3> QED
      BY <3>1, <3>2, <3>3, <3>4
  <2>8. ASSUME NEW w \in Workers, NEW r \in Records, Submit(w, r) PROVE Exclusive'
    BY <2>8 DEF Submit, Goto, mongo, ExecutingPcs
  <2>9. ASSUME NEW r \in Records, NEW a \in Assignee, ChangeOwner(r, a) PROVE Exclusive'
    BY <2>9 DEF ChangeOwner, local, run
  <2>10. ASSUME NEW e \in pending, HandleLifecycle(e) PROVE Exclusive'
    BY <2>10 DEF HandleLifecycle, local, run
  <2>11. CASE UNCHANGED vars
    BY <2>11 DEF vars, mongo, local, run
  <2> QED
    BY <2>1, <2>2, <2>3, <2>4, <2>5, <2>6, <2>7, <2>8, <2>9, <2>10, <2>11, Steps
<1> QED
  BY <1>1, <1>2, Typing, PTL DEF Spec

\* Two executions of one command never work at the same time.
THEOREM OneExecutor ==
    ASSUME OneRecoverer
    PROVE  Spec => []SingleExecutor
  BY ExclusiveIsInvariant, PTL DEF Exclusive

\* Between commit and completion, the committed person owns the record unless
\* somebody changed the owner by hand.
CommittedOwner ==
    \A w \in Workers :
        pc[w] \in {"clean", "settle", "finish"} /\ pick[w] # None /\ rec[w] \notin touched
            => owner[rec[w]] = pick[w]

\* Nobody is picked before the first reservation, nor on the way to the queue.
NobodyPicked ==
    \A w \in Workers :
        pc[w] \in {"idle", "enter", "create", "retry", "pool", "park"} => pick[w] = None

Truthful == CommittedOwner /\ NobodyPicked /\ EventMatchesDecision /\ DecidedOwner

\* A worker that leaves its command makes no claim about it any more.
LEMMA LeavingKeepsClaims ==
    ASSUME TypeOK, Truthful, NEW w \in Workers, Return(w), UNCHANGED <<owner, touched>>
    PROVE  CommittedOwner' /\ NobodyPicked'
<1>1. /\ pc' = [pc EXCEPT ![w] = "idle"]
      /\ rec' = [rec EXCEPT ![w] = None]
      /\ pick' = [pick EXCEPT ![w] = None]
  BY DEF Return, Goto
<1>2. /\ pc'[w] = "idle" /\ pick'[w] = None
      /\ \A v \in Workers \ {w} : pc'[v] = pc[v] /\ rec'[v] = rec[v] /\ pick'[v] = pick[v]
  BY <1>1 DEF TypeOK
<1>3. CommittedOwner'
  BY <1>2 DEF Truthful, CommittedOwner
<1>4. NobodyPicked'
  BY <1>2 DEF Truthful, NobodyPicked
<1> QED
  BY <1>3, <1>4

LEMMA TruthfulIsInvariant ==
    ASSUME OneRecoverer
    PROVE  Spec => []Truthful
<1>1. Init => Truthful
  BY DEF Init, Truthful, CommittedOwner, NobodyPicked, EventMatchesDecision, DecidedOwner
<1>2. TypeOK /\ Exclusive /\ Truthful /\ [Next]_vars => Truthful'
  <2> SUFFICES ASSUME TypeOK, Exclusive, Truthful, [Next]_vars PROVE Truthful'
    OBVIOUS
  <2> USE DEF TypeOK, Truthful, CommittedOwner, NobodyPicked, EventMatchesDecision,
              DecidedOwner, Exclusive, SingleExecutor, ExecutingInProgress,
              Executing, ExecutingPcs, StoreUnchanged, At, Goto
  <2>1. ASSUME NEW w \in Workers, Assign(w) PROVE Truthful'
    <3>1. Within(w) /\ StoreUnchanged
      BY <2>1, AssignStep
    \* Only Commit writes an owner: to a record whose command is in progress.
    <3>2. CASE Commit(w)
      BY <3>1, <3>2 DEF Commit, Within, run, env
    <3>3. CASE CleanQueue(w) \/ CompleteLease(w) \/ CompleteFails(w)
      BY <3>1, <3>3 DEF CleanQueue, CompleteLease, CompleteFails, Within, mongo, run, env
    <3>4. CASE \/ Unrouted(w) \/ Park(w)
      BY <3>1, <3>4 DEF Unrouted, Park, Within, mongo, run, env
    <3>5. CASE \/ LookupLease(w) \/ DropStaleLoad(w) \/ DropStaleLease(w)
               \/ Reserve(w) \/ DirectUnreserved(w) \/ CommitRaceLost(w)
               \/ CommitFails(w) \/ ReleaseLoad(w)
      BY <3>1, <3>5
         DEF LookupLease, DropStaleLoad, DropStaleLease, Reserve, DirectUnreserved,
             CommitRaceLost, CommitFails, ReleaseLoad, Within, mongo, run, env
    <3>6. CASE ResolveTarget(w) \/ NoneReserved(w)
      BY <3>1, <3>6 DEF ResolveTarget, NoneReserved, QueueOrFallback, Within, mongo, env
    <3>7. CASE ReleaseLease(w) \/ ReleaseFails(w)
      BY <3>1, <3>7
         DEF ReleaseLease, ReleaseFails, AfterRelease, QueueOrFallback, Within,
             mongo, run, env
    <3> QED
      BY <2>1, <3>2, <3>3, <3>4, <3>5, <3>6, <3>7 DEF Assign
  <2>2. ASSUME NEW w \in Workers, Enter(w) \/ Conflict(w) PROVE Truthful'
    <3>1. CASE Return(w) /\ UNCHANGED <<mongo, env>>
      BY <3>1, LeavingKeepsClaims DEF mongo, env
    <3>2. CASE Enter(w) /\ ~Return(w)
      BY <3>2 DEF Enter, mongo, run, env
    <3> QED
      BY <2>2, <3>1, <3>2 DEF Enter, Conflict
  <2>3. ASSUME NEW w \in Workers, Create(w) \/ Retry(w) PROVE Truthful'
    <3>1. CASE Create(w)
      BY <3>1 DEF Create, Begin, run, env
    <3>2. CASE Retry(w)
      BY <3>2 DEF Retry, Begin, run, env
    <3> QED
      BY <2>3, <3>1, <3>2
  \* The command was in progress, so it had no event and no decision yet.
  <2>4. ASSUME NEW w \in Workers, CompleteWithOutbox(w) PROVE Truthful'
    <3>1. /\ rec[w] \in Records /\ status[rec[w]] = "processing"
          /\ rec[w] \notin announced
          /\ pick[w] # None /\ rec[w] \notin touched => owner[rec[w]] = pick[w]
      BY <2>4 DEF CompleteWithOutbox
    <3>2. /\ status' = [status EXCEPT ![rec[w]] = "completed"]
          /\ decision' = [decision EXCEPT ![rec[w]] = pick[w]]
          /\ announced' = announced \cup {rec[w]}
          /\ event' = [event EXCEPT ![rec[w]] = pick[w]]
          /\ UNCHANGED <<owner, touched>> /\ Return(w)
      BY <2>4, <3>1 DEF CompleteWithOutbox, env
    <3>3. EventMatchesDecision'
      BY <3>1, <3>2
    <3>4. DecidedOwner'
      BY <3>1, <3>2
    <3>5. CommittedOwner' /\ NobodyPicked'
      BY <3>2, LeavingKeepsClaims
    <3> QED
      BY <3>3, <3>4, <3>5
  <2>5. ASSUME NEW w \in Workers, Abort(w) PROVE Truthful'
    <3>1. EventMatchesDecision' /\ DecidedOwner'
      BY <2>5 DEF Abort, env
    <3>2. CommittedOwner' /\ NobodyPicked'
      BY <2>5, LeavingKeepsClaims DEF Abort, env
    <3> QED
      BY <3>1, <3>2
  <2>6. ASSUME NEW w \in Workers, ScanStale(w) \/ Crash(w) PROVE Truthful'
    <3>1. CASE ScanStale(w)
      BY <3>1 DEF ScanStale, mongo, run
    <3>2. CASE Crash(w)
      BY <3>2, LeavingKeepsClaims DEF Crash, mongo
    <3> QED
      BY <2>6, <3>1, <3>2
  <2>7. ASSUME NEW w \in Workers, NEW r \in Records,
               RecoverClaim(w, r) \/ Submit(w, r) PROVE Truthful'
    BY <2>7 DEF RecoverClaim, Submit, mongo, env
  <2>8. ASSUME NEW r \in Records, NEW a \in Assignee, ChangeOwner(r, a) PROVE Truthful'
    BY <2>8 DEF ChangeOwner, local, run
  <2>9. ASSUME NEW e \in pending, HandleLifecycle(e) PROVE Truthful'
    BY <2>9 DEF HandleLifecycle, local, run
  <2>10. CASE UNCHANGED vars
    BY <2>10 DEF vars, mongo, local, run, env
  <2> QED
    BY <2>1, <2>2, <2>3, <2>4, <2>5, <2>6, <2>7, <2>8, <2>9, <2>10, Steps
<1> QED
  BY <1>1, <1>2, Typing, ExclusiveIsInvariant, PTL DEF Spec

\* The outbox announces the decision of a completed command and nothing else.
THEOREM EventsTellTheTruth ==
    ASSUME OneRecoverer
    PROVE  Spec => []EventMatchesDecision
  BY TruthfulIsInvariant, PTL DEF Truthful

\* A recorded assignee owns the record until somebody changes it by hand.
THEOREM DecisionsTellTheTruth ==
    ASSUME OneRecoverer
    PROVE  Spec => []DecidedOwner
  BY TruthfulIsInvariant, PTL DEF Truthful

-----------------------------------------------------------------------------
(* The slots of the load store.  Where no process dies, Redis answers and a *)
(* command is executed once, the store counts what people own.              *)

\* A process that dies or a call of Redis that fails leaves a slot behind, and
\* so does a second execution of a command whose first one committed and then
\* failed.  Two moves of one record may be counted in the wrong order.
Calm ==
    /\ Faults \subseteq {"mongo"}
    /\ "mongo" \in Faults => MaxAsks <= 1
    /\ MaxMoves <= 1
    /\ IsFiniteSet(Workers) /\ IsFiniteSet(Records)

\* What is in progress is being executed, so there is nothing to recover.
Undisturbed ==
    /\ \A w \in Workers : scan[w] = {} /\ pc[w] # "retry"
    /\ \A r \in Records :
         status[r] = "processing" => \E w \in Workers : Executing(w) /\ rec[w] = r
    /\ SingleExecutor
    /\ ExecutingInProgress

\* Only the database makes an execution fail.
FailsByMongo ==
    "mongo" \notin Faults =>
        /\ \A r \in Records : status[r] # "failed"
        /\ \A w \in Workers : pc[w] # "abort" /\ ~Failing(w)

\* Where a command can fail it is asked for once, so one worker knows of it.
AskedOnce ==
    "mongo" \in Faults =>
        /\ \A r \in Records :
             asks[r] = 0 => status[r] = "none" /\ \A w \in Workers : rec[w] # r
        /\ \A v, w \in Workers : rec[v] \in Records /\ rec[v] = rec[w] => v = w
        /\ \A w \in Workers : pc[w] \in {"enter", "create"} => status[rec[w]] = "none"

\* Places of an execution that holds no lease, and those where it may hold one.
Free == {"pool", "lookup", "reserve", "park"}
Holding == {"commit", "unload", "unlease"}

\* An execution commits once: its command has not been stamped before.
FirstCommit ==
    /\ \A r \in Records : status[r] = "none" => r \notin stamped
    /\ \A w \in Workers : pc[w] \in Free \cup Holding => rec[w] \notin stamped

\* A lease belongs to the execution that took it, so none is ever found.
LeaseIsHeld ==
    /\ \A r \in Records : status[r] # "processing" => lease[r] = None
    /\ \A w \in Workers :
         /\ pc[w] \in Free \cup {"finish", "abort"} => lease[rec[w]] = None
         /\ pc[w] \notin {"dropLoad", "dropLease"}

\* The owner a person chose stays until her move has been counted.
MoveStands ==
    \A e \in pending :
        /\ pending = {e} /\ moves = 1
        /\ e.from # e.to
        /\ e.rec \in touched
        /\ e.to # None => owner[e.rec] = e.to

\* commitDirect asks for the fallback owner only.
DirectIsFallback ==
    \A w \in Workers :
        /\ pc[w] \in {"idle", "enter", "create", "pool"} => ~Direct(w)
        /\ pc[w] \in {"lookup", "reserve"} /\ Direct(w) => pool[w] = {Fallback}

Orderly ==
    /\ Undisturbed
    /\ FailsByMongo
    /\ AskedOnce
    /\ FirstCommit
    /\ LeaseIsHeld
    /\ MoveStands
    /\ DirectIsFallback

\* The steps of core.assign() move no owner by hand.
LEMMA AssignKeepsEnv ==
    ASSUME NEW w \in Workers, Assign(w)
    PROVE  UNCHANGED <<pending, touched, asks, moves>>
<1> USE DEF env
<1>1. CASE \/ ResolveTarget(w) \/ Unrouted(w) \/ LookupLease(w) \/ DropStaleLoad(w)
           \/ DropStaleLease(w) \/ Reserve(w) \/ NoneReserved(w) \/ DirectUnreserved(w)
  BY <1>1 DEF ResolveTarget, Unrouted, LookupLease, DropStaleLoad, DropStaleLease,
              Reserve, NoneReserved, DirectUnreserved
<1>2. CASE \/ Commit(w) \/ CommitRaceLost(w) \/ CommitFails(w) \/ ReleaseLoad(w)
           \/ ReleaseLease(w) \/ ReleaseFails(w) \/ CleanQueue(w) \/ CompleteLease(w)
           \/ Park(w) \/ CompleteFails(w)
  BY <1>2 DEF Commit, CommitRaceLost, CommitFails, ReleaseLoad, ReleaseLease,
              ReleaseFails, CleanQueue, CompleteLease, Park, CompleteFails
<1> QED
  BY <1>1, <1>2 DEF Assign

\* The steps that are left when nothing is abandoned.
LEMMA CalmSteps ==
    ASSUME Calm, Undisturbed, [Next]_vars
    PROVE  \/ \E w \in Workers :
                \/ Assign(w) \/ Enter(w) \/ Create(w) \/ Conflict(w)
                \/ CompleteWithOutbox(w) \/ Abort(w)
                \/ \E r \in Records : Submit(w, r)
           \/ \E r \in Records, a \in Assignee : ChangeOwner(r, a)
           \/ \E e \in pending : HandleLifecycle(e)
           \/ UNCHANGED vars
<1>1. ASSUME NEW w \in Workers PROVE ~Retry(w) /\ ~Crash(w)
  BY DEF Retry, Crash, At, Calm, Undisturbed
<1>2. ASSUME NEW w \in Workers PROVE ~ScanStale(w)
  <2> SUFFICES ASSUME ScanStale(w) PROVE FALSE
    OBVIOUS
  <2>1. \A r \in Records : ~Abandoned(r)
    BY DEF Undisturbed, Abandoned
  <2>2. scan' = [scan EXCEPT ![w] = {r \in Records : Abandoned(r)}] /\ scan'[w] # {}
    BY DEF ScanStale, Calm
  <2> QED
    BY <2>1, <2>2 DEF Undisturbed
<1>3. ASSUME NEW w \in Workers, NEW r \in Records PROVE ~RecoverClaim(w, r)
  BY DEF RecoverClaim, Undisturbed
<1> QED
  BY <1>1, <1>2, <1>3, Steps

LEMMA UndisturbedNext ==
    ASSUME TypeOK, Calm, Orderly, [Next]_vars
    PROVE  Undisturbed'
<1> USE DEF TypeOK, Orderly, Undisturbed, SingleExecutor, ExecutingInProgress, Executing,
            StoreUnchanged, At
<1>1. ASSUME NEW w \in Workers, Assign(w) PROVE Undisturbed'
  <2>1. Within(w) /\ StoreUnchanged
    BY <1>1, AssignStep
  <2>2. pc'[w] # "retry" /\ \A v \in Workers : Executing(v)' <=> Executing(v)
    BY <2>1 DEF Within, ExecutingPcs
  <2> QED
    BY <2>1, <2>2 DEF Within
\* A command that has failed is not asked for again.
<1>2. ASSUME NEW w \in Workers, Enter(w) \/ Conflict(w) PROVE Undisturbed'
  <2>1. UNCHANGED <<status, scan>>
    BY <1>2 DEF Enter, Conflict, mongo
  <2>2. ~Executing(w)' /\ \A v \in Workers \ {w} : pc'[v] = pc[v] /\ rec'[v] = rec[v]
    BY <1>2 DEF Enter, Conflict, Goto, Return, run, ExecutingPcs
  <2>3. ~Executing(w) /\ pc'[w] # "retry"
    BY <1>2 DEF Enter, Conflict, Goto, Return, ExecutingPcs, AskedOnce, FailsByMongo
  <2> QED
    BY <2>1, <2>2, <2>3
<1>3. ASSUME NEW w \in Workers, Create(w) PROVE Undisturbed'
  BY <1>3 DEF Create, Begin, Goto, run, ExecutingPcs
<1>4. ASSUME NEW w \in Workers, CompleteWithOutbox(w) \/ Abort(w) PROVE Undisturbed'
  <2>1. Executing(w) /\ rec[w] \in Records /\ UNCHANGED scan
    BY <1>4 DEF CompleteWithOutbox, Abort, ExecutingPcs
  <2>2. /\ \A r \in Records \ {rec[w]} : status'[r] = status[r]
        /\ status'[rec[w]] # "processing"
    BY <1>4 DEF CompleteWithOutbox, Abort
  <2>3. /\ ~Executing(w)' /\ pc'[w] # "retry"
        /\ \A v \in Workers \ {w} : pc'[v] = pc[v] /\ rec'[v] = rec[v]
    BY <1>4 DEF CompleteWithOutbox, Abort, Goto, Return, ExecutingPcs
  <2>4. \A v \in Workers : Executing(v) => rec[v] \in Records
    BY DEF ExecutingPcs
  <2> HIDE DEF TypeOK
  <2> QED
    BY <2>1, <2>2, <2>3, <2>4
<1>5. ASSUME NEW w \in Workers, NEW r \in Records, Submit(w, r) PROVE Undisturbed'
  BY <1>5 DEF Submit, Goto, mongo, ExecutingPcs
<1>6. ASSUME NEW r \in Records, NEW a \in Assignee, ChangeOwner(r, a) PROVE Undisturbed'
  BY <1>6 DEF ChangeOwner, local, run
<1>7. ASSUME NEW e \in pending, HandleLifecycle(e) PROVE Undisturbed'
  BY <1>7 DEF HandleLifecycle, local, run
<1>8. CASE UNCHANGED vars
  BY <1>8 DEF vars, mongo, local, run
<1> QED
  BY <1>1, <1>2, <1>3, <1>4, <1>5, <1>6, <1>7, <1>8, CalmSteps

LEMMA FailsByMongoNext ==
    ASSUME TypeOK, Calm, Orderly, [Next]_vars
    PROVE  FailsByMongo'
<1> SUFFICES ASSUME "mongo" \notin Faults PROVE FailsByMongo'
  BY DEF FailsByMongo
<1> USE DEF TypeOK, Orderly, FailsByMongo, Failing, StoreUnchanged, At, Goto
<1>1. ASSUME NEW w \in Workers, Assign(w) PROVE FailsByMongo'
  <2>1. Within(w) /\ StoreUnchanged
    BY <1>1, AssignStep
  <2>2. ~CommitFails(w) /\ ~CompleteFails(w) /\ ~Failing(w)
    BY DEF CommitFails, CompleteFails
  <2>3. pc'[w] # "abort" /\ "failing" \notin flags'[w]
    <3>1. CASE \/ Unrouted(w) \/ LookupLease(w) \/ DropStaleLoad(w) \/ DropStaleLease(w)
               \/ Reserve(w) \/ DirectUnreserved(w) \/ Commit(w) \/ CommitRaceLost(w)
               \/ ReleaseLoad(w) \/ CleanQueue(w) \/ CompleteLease(w) \/ Park(w)
      BY <3>1 DEF Unrouted, LookupLease, DropStaleLoad, DropStaleLease, Reserve,
             DirectUnreserved, Commit, CommitRaceLost, ReleaseLoad, CleanQueue,
             CompleteLease, Park, run
    <3>2. CASE \/ ResolveTarget(w) \/ NoneReserved(w) \/ ReleaseLease(w) \/ ReleaseFails(w)
      BY <3>2 DEF ResolveTarget, NoneReserved, ReleaseLease, ReleaseFails,
             AfterRelease, QueueOrFallback, run
    <3> QED
      BY <1>1, <2>2, <3>1, <3>2 DEF Assign
  <2>4. \A v \in Workers \ {w} : pc'[v] = pc[v] /\ flags'[v] = flags[v]
    <3>1. CASE \/ Unrouted(w) \/ LookupLease(w) \/ DropStaleLoad(w) \/ DropStaleLease(w)
               \/ Reserve(w) \/ DirectUnreserved(w) \/ Commit(w) \/ CommitRaceLost(w)
               \/ ReleaseLoad(w) \/ CleanQueue(w) \/ CompleteLease(w) \/ Park(w)
      BY <3>1 DEF Unrouted, LookupLease, DropStaleLoad, DropStaleLease, Reserve,
             DirectUnreserved, Commit, CommitRaceLost, ReleaseLoad, CleanQueue,
             CompleteLease, Park, run
    <3>2. CASE \/ ResolveTarget(w) \/ NoneReserved(w) \/ ReleaseLease(w) \/ ReleaseFails(w)
      BY <3>2 DEF ResolveTarget, NoneReserved, ReleaseLease, ReleaseFails,
             AfterRelease, QueueOrFallback, run
    <3> QED
      BY <1>1, <2>2, <3>1, <3>2 DEF Assign
  <2> QED
    BY <2>1, <2>3, <2>4
<1>2. ASSUME NEW w \in Workers, Enter(w) \/ Conflict(w) PROVE FailsByMongo'
  BY <1>2 DEF Enter, Conflict, Return, mongo, run
<1>3. ASSUME NEW w \in Workers, Create(w) PROVE FailsByMongo'
  BY <1>3 DEF Create, Begin, run
<1>4. ASSUME NEW w \in Workers, CompleteWithOutbox(w) \/ Abort(w) PROVE FailsByMongo'
  BY <1>4 DEF CompleteWithOutbox, Abort, Return
<1>5. ASSUME NEW w \in Workers, NEW r \in Records, Submit(w, r) PROVE FailsByMongo'
  BY <1>5 DEF Submit, mongo
<1>6. ASSUME NEW r \in Records, NEW a \in Assignee, ChangeOwner(r, a) PROVE FailsByMongo'
  BY <1>6 DEF ChangeOwner, local, run
<1>7. ASSUME NEW e \in pending, HandleLifecycle(e) PROVE FailsByMongo'
  BY <1>7 DEF HandleLifecycle, local, run
<1>8. CASE UNCHANGED vars
  BY <1>8 DEF vars, mongo, local, run
<1> QED
  BY <1>1, <1>2, <1>3, <1>4, <1>5, <1>6, <1>7, <1>8, CalmSteps

LEMMA AskedOnceNext ==
    ASSUME TypeOK, Calm, Orderly, [Next]_vars
    PROVE  AskedOnce'
<1> SUFFICES ASSUME "mongo" \in Faults PROVE AskedOnce'
  BY DEF AskedOnce
<1> USE ConstantsAssumption DEF TypeOK, Orderly, AskedOnce, StoreUnchanged, At, Goto
<1>1. ASSUME NEW w \in Workers, Assign(w) PROVE AskedOnce'
  BY <1>1, AssignStep, AssignKeepsEnv, SMTT(30) DEF Within, Executing, ExecutingPcs
<1>2. ASSUME NEW w \in Workers, Enter(w) \/ Conflict(w) PROVE AskedOnce'
  BY <1>2 DEF Enter, Conflict, Return, mongo, run, env
<1>3. ASSUME NEW w \in Workers, Create(w) PROVE AskedOnce'
  BY <1>3 DEF Create, Begin, run, env
<1>4. ASSUME NEW w \in Workers, CompleteWithOutbox(w) \/ Abort(w) PROVE AskedOnce'
  <2>1. rec[w] \in Records /\ UNCHANGED asks
    BY <1>4 DEF CompleteWithOutbox, Abort, env
  <2>2. \A r \in Records \ {rec[w]} : status'[r] = status[r]
    BY <1>4 DEF CompleteWithOutbox, Abort
  <2>3. /\ pc'[w] = "idle" /\ rec'[w] = None
        /\ \A v \in Workers \ {w} : pc'[v] = pc[v] /\ rec'[v] = rec[v]
    BY <1>4 DEF CompleteWithOutbox, Abort, Return
  <2>4. \A v \in Workers : pc[v] \in {"enter", "create"} => rec[v] \in Records
    OBVIOUS
  <2> HIDE DEF TypeOK
  <2> QED
    BY <2>1, <2>2, <2>3, <2>4
\* The record has not been asked for before: nobody works on it.
<1>5. ASSUME NEW w \in Workers, NEW r \in Records, Submit(w, r) PROVE AskedOnce'
  <2>1. asks[r] = 0
    BY <1>5 DEF Submit, Calm
  <2> QED
    BY <1>5, <2>1 DEF Submit, mongo
<1>6. ASSUME NEW r \in Records, NEW a \in Assignee, ChangeOwner(r, a) PROVE AskedOnce'
  BY <1>6 DEF ChangeOwner, local, run
<1>7. ASSUME NEW e \in pending, HandleLifecycle(e) PROVE AskedOnce'
  BY <1>7 DEF HandleLifecycle, local, run
<1>8. CASE UNCHANGED vars
  BY <1>8 DEF vars, mongo, local, run, env
<1> QED
  BY <1>1, <1>2, <1>3, <1>4, <1>5, <1>6, <1>7, <1>8, CalmSteps

LEMMA FirstCommitNext ==
    ASSUME TypeOK, Calm, Orderly, [Next]_vars
    PROVE  FirstCommit'
<1> USE DEF TypeOK, Orderly, FirstCommit, StoreUnchanged, At, Goto, Free, Holding
<1>1. ASSUME NEW w \in Workers, Assign(w) PROVE FirstCommit'
  <2>1. Within(w) /\ StoreUnchanged
    BY <1>1, AssignStep
  <2>2. CASE Commit(w)
    BY <2>1, <2>2
       DEF Commit, Within, Executing, ExecutingPcs, Undisturbed, SingleExecutor,
           ExecutingInProgress
  \* An execution that has released or completed its lease does not commit again.
  <2>3. CASE ~Commit(w)
    <3>1. UNCHANGED stamped
      BY <1>1, <2>3
         DEF Assign, ResolveTarget, Unrouted, LookupLease, DropStaleLoad, DropStaleLease,
             Reserve, NoneReserved, DirectUnreserved, CommitRaceLost, CommitFails,
             ReleaseLoad, ReleaseLease, ReleaseFails, CleanQueue, CompleteLease, Park,
             CompleteFails, mongo
    <3>2. pc[w] \in {"clean", "settle", "finish", "abort"} => pc'[w] \notin Free \cup Holding
      BY <1>1
         DEF Assign, ResolveTarget, Unrouted, LookupLease, DropStaleLoad, DropStaleLease,
             Reserve, NoneReserved, DirectUnreserved, Commit, CommitRaceLost, CommitFails,
             ReleaseLoad, ReleaseLease, ReleaseFails, CleanQueue, CompleteLease, Park,
             CompleteFails
    <3>3. pc[w] \in Free \cup Holding \cup {"clean", "settle", "finish", "abort"}
      BY <2>1 DEF Within, Executing, ExecutingPcs, LeaseIsHeld
    <3> QED
      BY <2>1, <3>1, <3>2, <3>3 DEF Within
  <2> QED
    BY <2>2, <2>3
<1>2. ASSUME NEW w \in Workers, Enter(w) \/ Conflict(w) PROVE FirstCommit'
  BY <1>2 DEF Enter, Conflict, Return, mongo, run
<1>3. ASSUME NEW w \in Workers, Create(w) PROVE FirstCommit'
  BY <1>3 DEF Create, Begin, run
<1>4. ASSUME NEW w \in Workers, CompleteWithOutbox(w) \/ Abort(w) PROVE FirstCommit'
  <2>1. rec[w] \in Records /\ UNCHANGED stamped
    BY <1>4 DEF CompleteWithOutbox, Abort
  <2>2. \A r \in Records : status'[r] = "none" => status[r] = "none"
    BY <1>4 DEF CompleteWithOutbox, Abort
  <2>3. pc'[w] = "idle" /\ \A v \in Workers \ {w} : pc'[v] = pc[v] /\ rec'[v] = rec[v]
    BY <1>4 DEF CompleteWithOutbox, Abort, Return
  <2> HIDE DEF TypeOK
  <2> QED
    BY <2>1, <2>2, <2>3
<1>5. ASSUME NEW w \in Workers, NEW r \in Records, Submit(w, r) PROVE FirstCommit'
  BY <1>5 DEF Submit, mongo
<1>6. ASSUME NEW r \in Records, NEW a \in Assignee, ChangeOwner(r, a) PROVE FirstCommit'
  BY <1>6 DEF ChangeOwner, local, run
<1>7. ASSUME NEW e \in pending, HandleLifecycle(e) PROVE FirstCommit'
  BY <1>7 DEF HandleLifecycle, local, run
<1>8. CASE UNCHANGED vars
  BY <1>8 DEF vars, mongo, local, run
<1> QED
  BY <1>1, <1>2, <1>3, <1>4, <1>5, <1>6, <1>7, <1>8, CalmSteps

LEMMA LeaseIsHeldNext ==
    ASSUME TypeOK, Calm, Orderly, [Next]_vars
    PROVE  LeaseIsHeld'
<1> USE DEF TypeOK, Orderly, LeaseIsHeld, StoreUnchanged, At, Goto, Free
<1>1. ASSUME NEW w \in Workers, Assign(w) PROVE LeaseIsHeld'
  <2>1. Within(w) /\ StoreUnchanged
    BY <1>1, AssignStep
  <2>2. rec[w] \in Records /\ status[rec[w]] = "processing"
    BY <2>1 DEF Within, Executing, ExecutingPcs, Undisturbed, ExecutingInProgress
  <2>3. \A r \in Records \ {rec[w]} : lease'[r] = lease[r]
    <3>1. CASE Reserve(w) \/ ReleaseLease(w) \/ CompleteLease(w) \/ DropStaleLease(w)
      BY <3>1 DEF Reserve, ReleaseLease, CompleteLease, DropStaleLease
    <3>2. CASE ~(Reserve(w) \/ ReleaseLease(w) \/ CompleteLease(w) \/ DropStaleLease(w))
      BY <1>1, <3>2
         DEF Assign, ResolveTarget, Unrouted, LookupLease, DropStaleLoad, NoneReserved,
             DirectUnreserved, Commit, CommitRaceLost, CommitFails, ReleaseLoad,
             ReleaseFails, CleanQueue, Park, CompleteFails, redis
    <3> QED
      BY <3>1, <3>2
  <2>4. pc'[w] \notin {"dropLoad", "dropLease"}
    BY <1>1
       DEF Assign, ResolveTarget, Unrouted, LookupLease, DropStaleLoad, DropStaleLease,
           Reserve, NoneReserved, DirectUnreserved, Commit, CommitRaceLost, CommitFails,
           ReleaseLoad, ReleaseLease, ReleaseFails, AfterRelease, QueueOrFallback,
           CleanQueue, CompleteLease, Park, CompleteFails
  <2>5. pc'[w] \in Free \cup {"finish", "abort"} => lease'[rec[w]] = None
    <3>1. CASE ReleaseLease(w) \/ CompleteLease(w)
      BY <2>2, <3>1 DEF ReleaseLease, CompleteLease, Calm
    <3>2. CASE \/ ResolveTarget(w) \/ Unrouted(w) \/ LookupLease(w) \/ NoneReserved(w)
               \/ Park(w) \/ CompleteFails(w)
      BY <3>2
         DEF ResolveTarget, Unrouted, LookupLease, NoneReserved, Park, CompleteFails, redis
    <3>3. CASE \/ Reserve(w) \/ Commit(w) \/ CommitRaceLost(w) \/ CommitFails(w)
               \/ ReleaseLoad(w) \/ CleanQueue(w)
      BY <3>3 DEF Reserve, Commit, CommitRaceLost, CommitFails, ReleaseLoad, CleanQueue
    <3>4. ~DropStaleLoad(w) /\ ~DropStaleLease(w) /\ ~DirectUnreserved(w) /\ ~ReleaseFails(w)
      BY DEF DropStaleLoad, DropStaleLease, DirectUnreserved, ReleaseFails, Calm
    <3> QED
      BY <1>1, <3>1, <3>2, <3>3, <3>4 DEF Assign
  \* No other execution works on the command of this one.
  <2>6. \A v \in Workers \ {w} : pc[v] \in ExecutingPcs => rec[v] \in Records \ {rec[w]}
    BY <2>1 DEF Within, Executing, ExecutingPcs, Undisturbed, SingleExecutor
  <2>7. Free \cup {"finish", "abort"} \subseteq ExecutingPcs
    BY DEF ExecutingPcs
  <2> HIDE DEF TypeOK
  <2> QED
    BY <2>1, <2>2, <2>3, <2>4, <2>5, <2>6, <2>7 DEF Within
<1>2. ASSUME NEW w \in Workers, Enter(w) \/ Conflict(w) PROVE LeaseIsHeld'
  BY <1>2 DEF Enter, Conflict, Return, mongo, redis, run
<1>3. ASSUME NEW w \in Workers, Create(w) PROVE LeaseIsHeld'
  BY <1>3 DEF Create, Begin, redis, run
<1>4. ASSUME NEW w \in Workers, CompleteWithOutbox(w) \/ Abort(w) PROVE LeaseIsHeld'
  <2>1. rec[w] \in Records /\ lease[rec[w]] = None /\ UNCHANGED lease
    BY <1>4 DEF CompleteWithOutbox, Abort, redis
  <2>2. \A r \in Records \ {rec[w]} : status'[r] = status[r]
    BY <1>4 DEF CompleteWithOutbox, Abort
  <2>3. pc'[w] = "idle" /\ \A v \in Workers \ {w} : pc'[v] = pc[v] /\ rec'[v] = rec[v]
    BY <1>4 DEF CompleteWithOutbox, Abort, Return
  <2> HIDE DEF TypeOK
  <2> QED
    BY <2>1, <2>2, <2>3
<1>5. ASSUME NEW w \in Workers, NEW r \in Records, Submit(w, r) PROVE LeaseIsHeld'
  BY <1>5 DEF Submit, mongo, redis
<1>6. ASSUME NEW r \in Records, NEW a \in Assignee, ChangeOwner(r, a) PROVE LeaseIsHeld'
  BY <1>6 DEF ChangeOwner, local, redis, run
<1>7. ASSUME NEW e \in pending, HandleLifecycle(e) PROVE LeaseIsHeld'
  BY <1>7 DEF HandleLifecycle, local, run
<1>8. CASE UNCHANGED vars
  BY <1>8 DEF vars, mongo, redis, local, run
<1> QED
  BY <1>1, <1>2, <1>3, <1>4, <1>5, <1>6, <1>7, <1>8, CalmSteps

\* A claim filter that the execution passes finds the record without an owner.
LEMMA CommitFindsNobody ==
    ASSUME TypeOK, Orderly, NEW w \in Workers, Commit(w)
    PROVE  rec[w] \in Records /\ owner[rec[w]] = None /\ pick[w] \in Agents
  BY DEF TypeOK, Orderly, FirstCommit, Holding, Commit, At, Claimable

LEMMA MoveStandsNext ==
    ASSUME TypeOK, Calm, Orderly, [Next]_vars
    PROVE  MoveStands'
<1> USE DEF TypeOK, Orderly, MoveStands
<1>1. ASSUME NEW w \in Workers, Assign(w) PROVE MoveStands'
  <2>1. UNCHANGED <<pending, touched, moves>>
    BY <1>1, AssignKeepsEnv
  <2>2. \A r \in Records : owner[r] # None => owner'[r] = owner[r]
    <3>1. CASE Commit(w)
      BY <3>1, CommitFindsNobody DEF Commit
    <3>2. CASE ~Commit(w)
      BY <1>1, <3>2
         DEF Assign, ResolveTarget, Unrouted, LookupLease, DropStaleLoad, DropStaleLease,
             Reserve, NoneReserved, DirectUnreserved, CommitRaceLost, CommitFails,
             ReleaseLoad, ReleaseLease, ReleaseFails, CleanQueue, CompleteLease, Park,
             CompleteFails, mongo
    <3> QED
      BY <3>1, <3>2
  <2> QED
    BY <2>1, <2>2
<1>2. ASSUME NEW w \in Workers, Enter(w) \/ Conflict(w) PROVE MoveStands'
  BY <1>2 DEF Enter, Conflict, mongo, env
<1>3. ASSUME NEW w \in Workers, Create(w) PROVE MoveStands'
  BY <1>3 DEF Create, Begin, env
<1>4. ASSUME NEW w \in Workers, CompleteWithOutbox(w) \/ Abort(w) PROVE MoveStands'
  BY <1>4 DEF CompleteWithOutbox, Abort, env
<1>5. ASSUME NEW w \in Workers, NEW r \in Records, Submit(w, r) PROVE MoveStands'
  BY <1>5 DEF Submit, mongo
\* The only move there is.
<1>6. ASSUME NEW r \in Records, NEW a \in Assignee, ChangeOwner(r, a) PROVE MoveStands'
  <2>1. moves = 0 /\ moves' = 1 /\ pending = {}
    BY <1>6, ConstantsAssumption DEF ChangeOwner, Calm
  <2>2. pending' = {[id |-> moves, rec |-> r, from |-> owner[r], to |-> a]}
    BY <1>6, <2>1 DEF ChangeOwner
  <2>3. owner[r] # a /\ owner'[r] = a /\ r \in touched'
    BY <1>6 DEF ChangeOwner
  <2> QED
    BY <2>1, <2>2, <2>3
<1>7. ASSUME NEW e \in pending, HandleLifecycle(e) PROVE MoveStands'
  BY <1>7 DEF HandleLifecycle
<1>8. CASE UNCHANGED vars
  BY <1>8 DEF vars, mongo, env
<1> QED
  BY <1>1, <1>2, <1>3, <1>4, <1>5, <1>6, <1>7, <1>8, CalmSteps

LEMMA DirectIsFallbackNext ==
    ASSUME TypeOK, Calm, Orderly, [Next]_vars
    PROVE  DirectIsFallback'
<1> USE DEF TypeOK, Orderly, DirectIsFallback, Direct, At, Goto
<1>1. ASSUME NEW w \in Workers, Assign(w) PROVE DirectIsFallback'
  <2>1. Within(w)
    BY <1>1, AssignStep
  <2>2. \A v \in Workers \ {w} : flags'[v] = flags[v] /\ pool'[v] = pool[v]
    BY <1>1
       DEF Assign, ResolveTarget, Unrouted, LookupLease, DropStaleLoad, DropStaleLease,
           Reserve, NoneReserved, DirectUnreserved, Commit, CommitRaceLost, CommitFails,
           ReleaseLoad, ReleaseLease, ReleaseFails, AfterRelease, QueueOrFallback,
           CleanQueue, CompleteLease, Park, CompleteFails, run
  <2>3. pc'[w] \notin {"idle", "enter", "create", "pool"}
    BY <1>1
       DEF Assign, ResolveTarget, Unrouted, LookupLease, DropStaleLoad, DropStaleLease,
           Reserve, NoneReserved, DirectUnreserved, Commit, CommitRaceLost, CommitFails,
           ReleaseLoad, ReleaseLease, ReleaseFails, AfterRelease, QueueOrFallback,
           CleanQueue, CompleteLease, Park, CompleteFails
  <2>4. pc'[w] \in {"lookup", "reserve"} /\ "direct" \in flags'[w] => pool'[w] = {Fallback}
    <3>1. CASE ResolveTarget(w)
      BY <3>1 DEF ResolveTarget, QueueOrFallback
    <3>2. CASE NoneReserved(w) \/ ReleaseLease(w) \/ ReleaseFails(w)
      BY <3>2 DEF NoneReserved, ReleaseLease, ReleaseFails, AfterRelease, QueueOrFallback
    <3>3. CASE LookupLease(w) \/ CompleteFails(w) \/ Unrouted(w)
      BY <3>3 DEF LookupLease, CompleteFails, Unrouted, run
    <3>4. ~DropStaleLoad(w) /\ ~DropStaleLease(w)
      BY DEF DropStaleLoad, DropStaleLease, LeaseIsHeld
    <3>5. CASE \/ Reserve(w) \/ DirectUnreserved(w) \/ Commit(w) \/ CommitRaceLost(w)
               \/ CommitFails(w) \/ ReleaseLoad(w) \/ CleanQueue(w) \/ CompleteLease(w)
               \/ Park(w)
      BY <3>5 DEF Reserve, DirectUnreserved, Commit, CommitRaceLost, CommitFails,
             ReleaseLoad, CleanQueue, CompleteLease, Park
    <3> QED
      BY <1>1, <3>1, <3>2, <3>3, <3>4, <3>5 DEF Assign
  <2> QED
    BY <2>1, <2>2, <2>3, <2>4 DEF Within
<1>2. ASSUME NEW w \in Workers, Enter(w) \/ Conflict(w) PROVE DirectIsFallback'
  BY <1>2 DEF Enter, Conflict, Return, run
<1>3. ASSUME NEW w \in Workers, Create(w) PROVE DirectIsFallback'
  BY <1>3 DEF Create, Begin, run
<1>4. ASSUME NEW w \in Workers, CompleteWithOutbox(w) \/ Abort(w) PROVE DirectIsFallback'
  BY <1>4 DEF CompleteWithOutbox, Abort, Return
<1>5. ASSUME NEW w \in Workers, NEW r \in Records, Submit(w, r) PROVE DirectIsFallback'
  BY <1>5 DEF Submit
<1>6. ASSUME NEW r \in Records, NEW a \in Assignee, ChangeOwner(r, a) PROVE DirectIsFallback'
  BY <1>6 DEF ChangeOwner, local, run
<1>7. ASSUME NEW e \in pending, HandleLifecycle(e) PROVE DirectIsFallback'
  BY <1>7 DEF HandleLifecycle, local, run
<1>8. CASE UNCHANGED vars
  BY <1>8 DEF vars, local, run
<1> QED
  BY <1>1, <1>2, <1>3, <1>4, <1>5, <1>6, <1>7, <1>8, CalmSteps

LEMMA OrderlyIsInvariant ==
    ASSUME Calm
    PROVE  Spec => []Orderly
<1>1. Init => Orderly
  BY ConstantsAssumption
     DEF Init, Orderly, Undisturbed, SingleExecutor, ExecutingInProgress, Executing,
         ExecutingPcs, FailsByMongo, Failing, AskedOnce, FirstCommit, LeaseIsHeld, Free,
         Holding, MoveStands, DirectIsFallback, Direct
<1>2. TypeOK /\ Orderly /\ [Next]_vars => Orderly'
  BY UndisturbedNext, FailsByMongoNext, AskedOnceNext, FirstCommitNext, LeaseIsHeldNext,
     MoveStandsNext, DirectIsFallbackNext DEF Orderly
<1> QED
  BY <1>1, <1>2, Typing, PTL DEF Spec

LEMMA SlotsAreFinite ==
    ASSUME Calm, NEW a \in Agents
    PROVE  /\ IsFiniteSet(Owned(a)) /\ Cardinality(Owned(a)) \in Nat
           /\ IsFiniteSet(Held(a)) /\ Cardinality(Held(a)) \in Nat
<1>1. Owned(a) \subseteq Records /\ Held(a) \subseteq Workers
  BY DEF Owned, Held
<1>2. IsFiniteSet(Owned(a)) /\ IsFiniteSet(Held(a))
  BY <1>1, FS_Subset DEF Calm
<1> QED
  BY <1>2, FS_CardinalityType

\* A move that is still to be counted is the only one.
LEMMA OneIsPending ==
    ASSUME TypeOK, MoveStands, NEW a \in Agents
    PROVE  /\ Cardinality(Gained(a)) \in {0, 1} /\ Cardinality(Ceded(a)) \in {0, 1}
           /\ Cardinality(Gained(a)) = 1 <=> \E e \in pending : e.to = a
           /\ Cardinality(Ceded(a)) = 1 <=> \E e \in pending : e.from = a
           /\ ~(Cardinality(Gained(a)) = 1 /\ Cardinality(Ceded(a)) = 1)
<1>1. CASE pending = {}
  <2>1. Gained(a) = {} /\ Ceded(a) = {}
    BY <1>1 DEF Gained, Ceded
  <2> QED
    BY <1>1, <2>1, FS_EmptySet
<1>2. CASE pending # {}
  <2> PICK e \in pending : TRUE
    BY <1>2
  <2>1. pending = {e} /\ e.from # e.to
    BY DEF MoveStands
  <2>2. /\ Gained(a) = IF e.to = a THEN {e} ELSE {}
        /\ Ceded(a) = IF e.from = a THEN {e} ELSE {}
    BY <2>1 DEF Gained, Ceded
  <2> QED
    BY <2>1, <2>2, FS_EmptySet, FS_Singleton
<1> QED
  BY <1>1, <1>2

\* The places where a slot is held, and one person's side of the accounts.
HeldPcs == {"commit", "unload", "dropLoad"}

Balanced(a) ==
    load[a] + Cardinality(Gained(a))
        = Cardinality(Owned(a)) + Cardinality(Held(a)) + Cardinality(Ceded(a))

\* A step of one execution moves at most its own slot.
LEMMA HeldStep ==
    ASSUME TypeOK, Calm, NEW w \in Workers, NEW a \in Agents, Within(w)
    PROVE  Cardinality(Held(a))' =
               IF pc'[w] \in HeldPcs /\ pick'[w] = a
               THEN IF w \in Held(a) THEN Cardinality(Held(a)) ELSE Cardinality(Held(a)) + 1
               ELSE IF w \in Held(a) THEN Cardinality(Held(a)) - 1 ELSE Cardinality(Held(a))
<1>1. IsFiniteSet(Held(a))
  BY SlotsAreFinite
<1>2. CASE pc'[w] \in HeldPcs /\ pick'[w] = a
  <2>1. Held(a)' = Held(a) \cup {w}
    BY <1>2 DEF Held, HeldPcs, Within
  <2> QED
    BY <1>1, <1>2, <2>1, FS_AddElement
<1>3. CASE ~(pc'[w] \in HeldPcs /\ pick'[w] = a)
  <2>1. Held(a)' = Held(a) \ {w}
    BY <1>3 DEF Held, HeldPcs, Within
  <2> QED
    BY <1>1, <1>3, <2>1, FS_RemoveElement
<1> QED
  BY <1>2, <1>3

\* What is counted stays where it was when nothing it counts changes.
LEMMA SameOwned ==
    ASSUME NEW a \in Agents, UNCHANGED owner
    PROVE  Owned(a)' = Owned(a)
  BY DEF Owned

LEMMA SamePending ==
    ASSUME NEW a \in Agents, UNCHANGED pending
    PROVE  Gained(a)' = Gained(a) /\ Ceded(a)' = Ceded(a)
  BY DEF Gained, Ceded

\* A slot that an execution holds, or a move that takes a record away, is
\* counted in the load: the clamp of the release script does not bite.
LEMMA LoadIsPositive ==
    ASSUME TypeOK, Calm, MoveStands, NEW a \in Agents, Balanced(a),
           Held(a) # {} \/ \E e \in pending : e.from = a
    PROVE  load[a] \in Nat \ {0}
<1>1. load[a] \in Nat
  BY DEF TypeOK
<1>2. /\ Cardinality(Gained(a)) \in {0, 1} /\ Cardinality(Ceded(a)) \in {0, 1}
      /\ Cardinality(Gained(a)) = 1 => \E e \in pending : e.to = a
      /\ (\E e \in pending : e.from = a) => Cardinality(Ceded(a)) = 1
      /\ ~(Cardinality(Gained(a)) = 1 /\ Cardinality(Ceded(a)) = 1)
  BY OneIsPending
<1>3. /\ Cardinality(Owned(a)) \in Nat /\ Cardinality(Held(a)) \in Nat
      /\ IsFiniteSet(Owned(a)) /\ IsFiniteSet(Held(a))
  BY SlotsAreFinite
<1>4. Cardinality(Gained(a)) = 1 => Cardinality(Owned(a)) # 0
  <2> SUFFICES ASSUME NEW e \in pending, e.to = a PROVE Cardinality(Owned(a)) # 0
    BY <1>2
  <2>1. e.rec \in Owned(a)
    BY ConstantsAssumption DEF MoveStands, Owned, TypeOK
  <2> QED
    BY <1>3, <2>1, FS_EmptySet
<1>5. Held(a) # {} => Cardinality(Held(a)) # 0
  BY <1>3, FS_EmptySet
<1> QED
  BY <1>1, <1>2, <1>3, <1>4, <1>5 DEF Balanced

\* One step of one execution keeps everybody's accounts.
LEMMA AssignKeepsBalance ==
    ASSUME TypeOK, Calm, Orderly, NEW w \in Workers, NEW a \in Agents, Assign(w), Balanced(a)
    PROVE  Balanced(a)'
<1>1. Within(w)
  BY AssignStep
<1>2. Gained(a)' = Gained(a) /\ Ceded(a)' = Ceded(a)
  BY AssignKeepsEnv, SamePending
<1>3. /\ load[a] \in Nat /\ Cardinality(Owned(a)) \in Nat /\ Cardinality(Held(a)) \in Nat
      /\ Cardinality(Gained(a)) \in {0, 1} /\ Cardinality(Ceded(a)) \in {0, 1}
      /\ IsFiniteSet(Owned(a))
  BY SlotsAreFinite, OneIsPending DEF TypeOK, Orderly
<1>4. w \in Held(a) <=> pc[w] \in HeldPcs /\ pick[w] = a
  BY DEF Held, HeldPcs
<1>5. CASE Reserve(w)
  <2>1. Owned(a)' = Owned(a) /\ pc[w] \notin HeldPcs /\ pc'[w] \in HeldPcs
    BY <1>5, SameOwned DEF Reserve, mongo, At, Goto, HeldPcs, TypeOK
  <2>2. load'[a] = IF pick'[w] = a THEN load[a] + 1 ELSE load[a]
    BY <1>5 DEF Reserve, TypeOK
  <2> QED
    BY <1>1, <1>2, <1>3, <1>4, <2>1, <2>2, HeldStep DEF Balanced
<1>6. CASE Commit(w)
  <2>1. rec[w] \in Records /\ owner[rec[w]] = None
    BY <1>6, CommitFindsNobody
  <2>2. Owned(a)' = IF pick[w] = a THEN Owned(a) \cup {rec[w]} ELSE Owned(a)
    BY <1>6, <2>1, ConstantsAssumption DEF Commit, Owned, TypeOK
  <2>3. rec[w] \notin Owned(a)
    BY <2>1, ConstantsAssumption DEF Owned
  <2>4. Cardinality(Owned(a))' =
            IF pick[w] = a THEN Cardinality(Owned(a)) + 1 ELSE Cardinality(Owned(a))
    BY <1>3, <2>2, <2>3, FS_AddElement
  <2>5. load'[a] = load[a] /\ pc[w] \in HeldPcs /\ pc'[w] \notin HeldPcs
    BY <1>6 DEF Commit, redis, At, Goto, HeldPcs, TypeOK
  <2> QED
    BY <1>1, <1>2, <1>3, <1>4, <2>4, <2>5, HeldStep DEF Balanced
<1>7. CASE ReleaseLoad(w)
  <2>1. Owned(a)' = Owned(a) /\ pc[w] \in HeldPcs /\ pc'[w] \notin HeldPcs
    BY <1>7, SameOwned DEF ReleaseLoad, mongo, At, Goto, HeldPcs, TypeOK
  <2>2. load'[a] = IF pick[w] = a THEN load[a] - 1 ELSE load[a]
    <3>1. CASE pick[w] = a
      <4>1. load[a] \in Nat \ {0}
        BY <1>4, <2>1, <3>1, LoadIsPositive DEF Orderly
      <4> QED
        BY <1>7, <3>1, <4>1 DEF ReleaseLoad, Decrement, TypeOK
    <3>2. CASE pick[w] # a
      BY <1>7, <3>2 DEF ReleaseLoad, TypeOK
    <3> QED
      BY <3>1, <3>2
  <2> QED
    BY <1>1, <1>2, <1>3, <1>4, <2>1, <2>2, HeldStep DEF Balanced
<1>8. CASE ~(Reserve(w) \/ Commit(w) \/ ReleaseLoad(w))
  <2>1. ~DropStaleLoad(w) /\ ~DropStaleLease(w) /\ ~DirectUnreserved(w) /\ ~ReleaseFails(w)
    BY DEF DropStaleLoad, DropStaleLease, DirectUnreserved, ReleaseFails, Calm, Orderly,
           LeaseIsHeld, At
  <2>2. UNCHANGED <<owner, load>>
    BY <1>8, <2>1
       DEF Assign, ResolveTarget, Unrouted, LookupLease, NoneReserved, CommitRaceLost,
           CommitFails, ReleaseLease, CleanQueue, CompleteLease, Park, CompleteFails,
           mongo, redis
  <2>3. pc'[w] \in HeldPcs /\ pick'[w] = a <=> pc[w] \in HeldPcs /\ pick[w] = a
    <3>1. CASE CommitRaceLost(w) \/ CommitFails(w)
      BY <3>1 DEF CommitRaceLost, CommitFails, run, At, Goto, HeldPcs, TypeOK
    <3>2. CASE LookupLease(w)
      BY <3>2, ConstantsAssumption DEF LookupLease, Orderly, LeaseIsHeld, Free, At, Goto, HeldPcs, TypeOK
    <3>3. CASE \/ ResolveTarget(w) \/ Unrouted(w) \/ NoneReserved(w) \/ ReleaseLease(w)
               \/ CleanQueue(w) \/ CompleteLease(w) \/ Park(w) \/ CompleteFails(w)
      BY <3>3
         DEF ResolveTarget, Unrouted, NoneReserved, ReleaseLease, AfterRelease,
             QueueOrFallback, CleanQueue, CompleteLease, Park, CompleteFails, At, Goto,
             HeldPcs, TypeOK
    <3> QED
      BY <1>8, <2>1, <3>1, <3>2, <3>3 DEF Assign
  <2> QED
    BY <1>1, <1>2, <1>3, <1>4, <2>2, <2>3, SameOwned, HeldStep DEF Balanced
<1> QED
  BY <1>5, <1>6, <1>7, <1>8

\* The steps before and after core.assign() hold no slot.
LEMMA OutsideKeepsHeld ==
    ASSUME TypeOK, NEW w \in Workers, NEW a \in Agents,
           \/ Enter(w) \/ Create(w) \/ Conflict(w) \/ CompleteWithOutbox(w) \/ Abort(w)
           \/ \E r \in Records : Submit(w, r)
    PROVE  Held(a)' = Held(a) /\ UNCHANGED <<owner, load, pending, touched>>
<1>1. /\ pc[w] \notin HeldPcs /\ pc'[w] \notin HeldPcs
      /\ \A v \in Workers \ {w} : pc'[v] = pc[v] /\ pick'[v] = pick[v]
  <2>1. CASE Enter(w) \/ Create(w) \/ Conflict(w)
    BY <2>1 DEF Enter, Create, Conflict, Begin, Return, run, At, Goto, HeldPcs, TypeOK
  <2>2. CASE CompleteWithOutbox(w) \/ Abort(w) \/ \E r \in Records : Submit(w, r)
    BY <2>2 DEF CompleteWithOutbox, Abort, Submit, Return, At, Goto, HeldPcs, TypeOK
  <2> QED
    BY <2>1, <2>2
<1>2. UNCHANGED <<owner, load, pending, touched>>
  BY DEF Enter, Create, Conflict, Begin, CompleteWithOutbox, Abort, Submit, mongo, redis, env
<1> QED
  BY <1>1, <1>2 DEF Held, HeldPcs

\* A person's move takes the record from one side and puts it on the other.
LEMMA MoveKeepsBalance ==
    ASSUME TypeOK, Calm, Orderly, NEW a \in Agents, Balanced(a),
           NEW r \in Records, NEW b \in Assignee, ChangeOwner(r, b)
    PROVE  Balanced(a)'
<1> DEFINE e == [id |-> moves, rec |-> r, from |-> owner[r], to |-> b]
<1>1. pending = {} /\ pending' = {e} /\ owner[r] # b
  <2>1. moves = 0 /\ pending = {}
    BY ConstantsAssumption DEF ChangeOwner, Calm, Orderly, MoveStands, TypeOK
  <2> QED
    BY <2>1 DEF ChangeOwner
<1>2. Held(a)' = Held(a) /\ load'[a] = load[a]
  BY DEF ChangeOwner, Held, local, redis, run
<1>3. Gained(a) = {} /\ Ceded(a) = {}
  BY <1>1 DEF Gained, Ceded
<1>4. /\ Gained(a)' = IF b = a THEN {e} ELSE {}
      /\ Ceded(a)' = IF owner[r] = a THEN {e} ELSE {}
  BY <1>1 DEF Gained, Ceded
<1>5. Owned(a)' = IF b = a THEN Owned(a) \cup {r} ELSE Owned(a) \ {r}
  BY DEF ChangeOwner, Owned, TypeOK
<1>6. r \in Owned(a) <=> owner[r] = a
  BY DEF Owned
<1>7. /\ load[a] \in Nat /\ Cardinality(Owned(a)) \in Nat /\ Cardinality(Held(a)) \in Nat
      /\ IsFiniteSet(Owned(a))
  BY SlotsAreFinite DEF TypeOK
<1>8. Cardinality(Owned(a))' = IF b = a THEN Cardinality(Owned(a)) + 1
                               ELSE IF owner[r] = a THEN Cardinality(Owned(a)) - 1
                               ELSE Cardinality(Owned(a))
  <2>1. CASE b = a
    BY <1>1, <1>5, <1>6, <1>7, <2>1, FS_AddElement
  <2>2. CASE b # a
    BY <1>5, <1>6, <1>7, <2>2, FS_RemoveElement
  <2> QED
    BY <2>1, <2>2
<1>9. /\ Cardinality(Gained(a)) = 0 /\ Cardinality(Ceded(a)) = 0
      /\ Cardinality(Gained(a))' = IF b = a THEN 1 ELSE 0
      /\ Cardinality(Ceded(a))' = IF owner[r] = a THEN 1 ELSE 0
  BY <1>3, <1>4, FS_EmptySet, FS_Singleton
<1> QED
  BY <1>1, <1>2, <1>7, <1>8, <1>9 DEF Balanced

\* Counting the move settles both sides.
LEMMA HandlingKeepsBalance ==
    ASSUME TypeOK, Calm, Orderly, NEW a \in Agents, Balanced(a),
           NEW e \in pending, HandleLifecycle(e)
    PROVE  Balanced(a)'
<1>1. pending = {e} /\ pending' = {} /\ e.from # e.to
  BY DEF HandleLifecycle, Orderly, MoveStands
<1>2. Held(a)' = Held(a) /\ Owned(a)' = Owned(a)
  BY DEF HandleLifecycle, Held, Owned, local, run
<1>3. /\ Gained(a) = IF e.to = a THEN {e} ELSE {}
      /\ Ceded(a) = IF e.from = a THEN {e} ELSE {}
      /\ Gained(a)' = {} /\ Ceded(a)' = {}
  BY <1>1 DEF Gained, Ceded
<1>4. /\ Cardinality(Gained(a)) = IF e.to = a THEN 1 ELSE 0
      /\ Cardinality(Ceded(a)) = IF e.from = a THEN 1 ELSE 0
      /\ Cardinality(Gained(a))' = 0 /\ Cardinality(Ceded(a))' = 0
  BY <1>3, FS_EmptySet, FS_Singleton
<1>5. load[a] \in Nat /\ Cardinality(Owned(a)) \in Nat /\ Cardinality(Held(a)) \in Nat
  BY SlotsAreFinite DEF TypeOK
<1>6. load'[a] = IF e.from = a THEN load[a] - 1
                 ELSE IF e.to = a THEN load[a] + 1 ELSE load[a]
  <2>1. CASE e.from = a
    <3>1. load[a] \in Nat \ {0}
      BY <2>1, LoadIsPositive DEF Orderly
    <3> QED
      BY <1>1, <2>1, <3>1 DEF HandleLifecycle, Decrement
  <2>2. CASE e.from # a
    BY <2>2 DEF HandleLifecycle
  <2> QED
    BY <2>1, <2>2
<1> QED
  BY <1>1, <1>2, <1>4, <1>5, <1>6 DEF Balanced

\* The load store counts exactly the records a person owns and the slots held
\* for her, up to lifecycle events that are still to be handled: however many
\* executions reserve, commit, lose the race or roll back at the same time.
THEOREM SlotsAreAccounted ==
    ASSUME Calm
    PROVE  Spec => []ReservationAccounting
<1>1. Init => ReservationAccounting
  <2> SUFFICES ASSUME Init, NEW a \in Agents PROVE Balanced(a)
    BY DEF ReservationAccounting, Balanced
  <2>1. /\ Gained(a) = {} /\ Ceded(a) = {} /\ Owned(a) = {} /\ Held(a) = {} /\ load[a] = 0
    BY ConstantsAssumption DEF Init, Gained, Ceded, Owned, Held
  <2> QED
    BY <2>1, FS_EmptySet DEF Balanced
<1>2. TypeOK /\ Orderly /\ ReservationAccounting /\ [Next]_vars => ReservationAccounting'
  <2> SUFFICES ASSUME TypeOK, Orderly, [Next]_vars, NEW a \in Agents, Balanced(a)
               PROVE  Balanced(a)'
    BY DEF ReservationAccounting, Balanced
  <2>1. ASSUME NEW w \in Workers, Assign(w) PROVE Balanced(a)'
    BY <2>1, AssignKeepsBalance
  <2>2. ASSUME NEW w \in Workers,
               \/ Enter(w) \/ Create(w) \/ Conflict(w) \/ CompleteWithOutbox(w) \/ Abort(w)
               \/ \E r \in Records : Submit(w, r)
        PROVE  Balanced(a)'
    <3>1. Held(a)' = Held(a) /\ UNCHANGED <<owner, load, pending>>
      BY <2>2, OutsideKeepsHeld
    <3> QED
      BY <3>1, SameOwned, SamePending DEF Balanced
  <2>3. ASSUME NEW r \in Records, NEW b \in Assignee, ChangeOwner(r, b) PROVE Balanced(a)'
    BY <2>3, MoveKeepsBalance
  <2>4. ASSUME NEW e \in pending, HandleLifecycle(e) PROVE Balanced(a)'
    BY <2>4, HandlingKeepsBalance
  <2>5. CASE UNCHANGED vars
    BY <2>5 DEF vars, mongo, redis, local, run, env, Balanced, Gained, Ceded, Owned, Held
  <2> QED
    BY <2>1, <2>2, <2>3, <2>4, <2>5, CalmSteps DEF Orderly
<1> QED
  BY <1>1, <1>2, Typing, OrderlyIsInvariant, PTL DEF Spec

\* What a person owns without anybody having moved it, and holds, is counted.
Untouched(a) == Owned(a) \ touched

LEMMA UntouchedIsCounted ==
    ASSUME TypeOK, Calm, MoveStands, NEW a \in Agents, Balanced(a)
    PROVE  /\ IsFiniteSet(Untouched(a))
           /\ Cardinality(Untouched(a)) \in Nat
           /\ Cardinality(Untouched(a)) + Cardinality(Held(a)) <= load[a]
<1>1. /\ IsFiniteSet(Owned(a)) /\ Cardinality(Owned(a)) \in Nat
      /\ Cardinality(Held(a)) \in Nat /\ load[a] \in Nat
  BY SlotsAreFinite DEF TypeOK
<1>2. /\ Cardinality(Gained(a)) \in {0, 1} /\ Cardinality(Ceded(a)) \in {0, 1}
      /\ Cardinality(Gained(a)) = 1 => \E e \in pending : e.to = a
  BY OneIsPending
<1>3. /\ IsFiniteSet(Untouched(a))
      /\ Cardinality(Untouched(a)) \in Nat
      /\ Cardinality(Untouched(a)) <= Cardinality(Owned(a))
  <2>1. Untouched(a) \in SUBSET Owned(a)
    BY DEF Untouched
  <2> QED
    BY <1>1, <2>1, FS_Subset, FS_CardinalityType
\* The record of a move that is not counted yet is owned and touched.
<1>4. Cardinality(Gained(a)) = 1 =>
          Cardinality(Untouched(a)) <= Cardinality(Owned(a)) - 1
  <2> SUFFICES ASSUME NEW e \in pending, e.to = a
               PROVE  Cardinality(Untouched(a)) <= Cardinality(Owned(a)) - 1
    BY <1>2
  <2>1. e.rec \in Owned(a) /\ e.rec \in touched
    BY ConstantsAssumption DEF MoveStands, Owned, TypeOK
  <2>2. /\ IsFiniteSet(Owned(a) \ {e.rec})
        /\ Cardinality(Owned(a) \ {e.rec}) = Cardinality(Owned(a)) - 1
    BY <1>1, <2>1, FS_RemoveElement
  <2>3. Untouched(a) \in SUBSET (Owned(a) \ {e.rec})
    BY <2>1 DEF Untouched
  <2> QED
    BY <2>2, <2>3, FS_Subset
<1> QED
  BY <1>1, <1>2, <1>3, <1>4 DEF Balanced

UnderCeiling(a) == Cardinality(Untouched(a)) + Cardinality(Held(a)) <= Cap

LEMMA AssignRespectsCeiling ==
    ASSUME TypeOK, Calm, Orderly, Strategy # "least-busy", NEW w \in Workers,
           NEW a \in Agents \ {Fallback}, Assign(w), Balanced(a), UnderCeiling(a)
    PROVE  UnderCeiling(a)'
<1>1. Within(w) /\ UNCHANGED touched
  BY AssignStep, AssignKeepsEnv
<1>2. /\ Cardinality(Held(a)) \in Nat /\ load[a] \in Nat /\ Cap \in Nat
      /\ IsFiniteSet(Untouched(a)) /\ Cardinality(Untouched(a)) \in Nat
      /\ Cardinality(Untouched(a)) + Cardinality(Held(a)) <= load[a]
  BY SlotsAreFinite, UntouchedIsCounted, ConstantsAssumption DEF TypeOK, Orderly
<1>3. w \in Held(a) <=> pc[w] \in HeldPcs /\ pick[w] = a
  BY DEF Held, HeldPcs
\* The script looks at the load and counts the slot in one step.
<1>4. CASE Reserve(w)
  <2>1. Owned(a)' = Owned(a) /\ pc[w] \notin HeldPcs
    BY <1>4, SameOwned DEF Reserve, mongo, At, Goto, HeldPcs, TypeOK
  <2>2. Untouched(a)' = Untouched(a)
    BY <1>1, <2>1 DEF Untouched
  <2>3. pick'[w] = a => load[a] < Cap
    <3> SUFFICES ASSUME pick'[w] = a PROVE load[a] < Cap
      OBVIOUS
    <3>1. a \in Selectable(w)
      BY <1>4 DEF Reserve, TypeOK
    <3>2. ~Direct(w)
      BY <1>4, <3>1, SelectableInPool DEF Reserve, At, Orderly, DirectIsFallback
    <3> QED
      BY <3>1, <3>2 DEF Selectable, UnderCapacity, LeastLoaded
  <2> QED
    BY <1>1, <1>2, <1>3, <2>1, <2>2, <2>3, HeldStep DEF UnderCeiling
<1>5. CASE Commit(w)
  <2>1. rec[w] \in Records /\ owner[rec[w]] = None
    BY <1>5, CommitFindsNobody
  <2>2. Owned(a)' = IF pick[w] = a THEN Owned(a) \cup {rec[w]} ELSE Owned(a)
    BY <1>5, <2>1, ConstantsAssumption DEF Commit, Owned, TypeOK
  <2>3. /\ pick[w] = a /\ rec[w] \notin touched => Untouched(a)' = Untouched(a) \cup {rec[w]}
        /\ ~(pick[w] = a /\ rec[w] \notin touched) => Untouched(a)' = Untouched(a)
    BY <1>1, <2>2 DEF Untouched
  <2>4. /\ Cardinality(Untouched(a) \cup {rec[w]}) \in Nat
        /\ Cardinality(Untouched(a) \cup {rec[w]}) <= Cardinality(Untouched(a)) + 1
    <3>1. Cardinality(Untouched(a) \cup {rec[w]}) =
              IF rec[w] \in Untouched(a) THEN Cardinality(Untouched(a))
              ELSE Cardinality(Untouched(a)) + 1
      BY <1>2, FS_AddElement
    <3> QED
      BY <1>2, <3>1
  <2>5. /\ Cardinality(Untouched(a))' \in Nat
        /\ Cardinality(Untouched(a))' <= Cardinality(Untouched(a)) + 1
        /\ pick[w] # a => Cardinality(Untouched(a))' = Cardinality(Untouched(a))
    BY <1>2, <2>3, <2>4
  <2>6. pc[w] \in HeldPcs /\ pc'[w] \notin HeldPcs
    BY <1>5 DEF Commit, At, Goto, HeldPcs, TypeOK
  <2> QED
    BY <1>1, <1>2, <1>3, <2>5, <2>6, HeldStep DEF UnderCeiling
<1>6. CASE ~(Reserve(w) \/ Commit(w))
  <2>1. ~DropStaleLoad(w) /\ ~DropStaleLease(w) /\ ~DirectUnreserved(w) /\ ~ReleaseFails(w)
    BY DEF DropStaleLoad, DropStaleLease, DirectUnreserved, ReleaseFails, Calm, Orderly,
           LeaseIsHeld, At
  <2>2. UNCHANGED owner
    BY <1>6, <2>1
       DEF Assign, ResolveTarget, Unrouted, LookupLease, NoneReserved, CommitRaceLost,
           CommitFails, ReleaseLoad, ReleaseLease, CleanQueue, CompleteLease, Park,
           CompleteFails, mongo
  <2>3. pc'[w] \in HeldPcs /\ pick'[w] = a => pc[w] \in HeldPcs /\ pick[w] = a
    <3>1. CASE CommitRaceLost(w) \/ CommitFails(w) \/ ReleaseLoad(w)
      BY <3>1 DEF CommitRaceLost, CommitFails, ReleaseLoad, run, At, Goto, HeldPcs, TypeOK
    <3>2. CASE LookupLease(w)
      BY <3>2, ConstantsAssumption
         DEF LookupLease, Orderly, LeaseIsHeld, Free, At, Goto, HeldPcs, TypeOK
    <3>3. CASE \/ ResolveTarget(w) \/ Unrouted(w) \/ NoneReserved(w) \/ ReleaseLease(w)
               \/ CleanQueue(w) \/ CompleteLease(w) \/ Park(w) \/ CompleteFails(w)
      BY <3>3
         DEF ResolveTarget, Unrouted, NoneReserved, ReleaseLease, AfterRelease,
             QueueOrFallback, CleanQueue, CompleteLease, Park, CompleteFails, At, Goto,
             HeldPcs, TypeOK
    <3> QED
      BY <1>6, <2>1, <3>1, <3>2, <3>3 DEF Assign
  <2>4. Untouched(a)' = Untouched(a)
    BY <1>1, <2>2 DEF Owned, Untouched
  <2> QED
    <3>1. Cardinality(Held(a))' \in Int /\ Cardinality(Held(a))' <= Cardinality(Held(a))
      BY <1>1, <1>2, <1>3, <2>3, HeldStep
    <3> QED
      BY <1>2, <2>4, <3>1 DEF UnderCeiling
<1> QED
  BY <1>4, <1>5, <1>6

\* With a strategy that has a ceiling, concurrent decisions never give one
\* person more than the ceiling, whoever moves another record meanwhile.
THEOREM CeilingHolds ==
    ASSUME Calm, Strategy # "least-busy"
    PROVE  Spec => []CapacityRespected
<1>1. Init => CapacityRespected
  <2> SUFFICES ASSUME Init, NEW a \in Agents PROVE UnderCeiling(a)
    BY DEF CapacityRespected, UnderCeiling, Untouched
  <2>1. Untouched(a) = {} /\ Held(a) = {}
    BY ConstantsAssumption DEF Init, Owned, Held, Untouched
  <2> QED
    BY <2>1, FS_EmptySet, ConstantsAssumption DEF UnderCeiling
<1>2. /\ TypeOK /\ Orderly /\ ReservationAccounting /\ CapacityRespected /\ [Next]_vars
      => CapacityRespected'
  <2> SUFFICES ASSUME TypeOK, Orderly, [Next]_vars, NEW a \in Agents \ {Fallback},
                      Balanced(a), UnderCeiling(a)
               PROVE  UnderCeiling(a)'
    BY DEF ReservationAccounting, CapacityRespected, Balanced, UnderCeiling, Untouched
  <2>1. ASSUME NEW w \in Workers, Assign(w) PROVE UnderCeiling(a)'
    BY <2>1, AssignRespectsCeiling
  <2>2. ASSUME NEW w \in Workers,
               \/ Enter(w) \/ Create(w) \/ Conflict(w) \/ CompleteWithOutbox(w) \/ Abort(w)
               \/ \E r \in Records : Submit(w, r)
        PROVE  UnderCeiling(a)'
    <3>1. Held(a)' = Held(a) /\ UNCHANGED <<owner, touched>>
      BY <2>2, OutsideKeepsHeld
    <3> QED
      BY <3>1, SameOwned DEF UnderCeiling, Untouched
  <2>3. ASSUME NEW r \in Records, NEW b \in Assignee, ChangeOwner(r, b)
        PROVE  UnderCeiling(a)'
    <3>1. Held(a)' = Held(a)
      BY <2>3 DEF ChangeOwner, Held, local, run
    <3>2. Untouched(a)' \in SUBSET Untouched(a)
      BY <2>3 DEF ChangeOwner, Owned, Untouched, TypeOK
    <3>3. /\ IsFiniteSet(Untouched(a)) /\ Cardinality(Held(a)) \in Nat
          /\ Cardinality(Untouched(a)) \in Nat /\ Cap \in Nat
      BY UntouchedIsCounted, SlotsAreFinite, ConstantsAssumption DEF Orderly
    <3>4. /\ Cardinality(Untouched(a))' \in Nat
          /\ Cardinality(Untouched(a))' <= Cardinality(Untouched(a))
      BY <3>2, <3>3, FS_Subset, FS_CardinalityType
    <3> QED
      BY <3>1, <3>3, <3>4 DEF UnderCeiling
  <2>4. ASSUME NEW e \in pending, HandleLifecycle(e) PROVE UnderCeiling(a)'
    BY <2>4 DEF HandleLifecycle, UnderCeiling, Untouched, Owned, Held, local, run
  <2>5. CASE UNCHANGED vars
    BY <2>5 DEF vars, mongo, redis, local, run, env, UnderCeiling, Untouched, Owned, Held
  <2> QED
    BY <2>1, <2>2, <2>3, <2>4, <2>5, CalmSteps DEF Orderly
<1> QED
  BY <1>1, <1>2, Typing, OrderlyIsInvariant, SlotsAreAccounted, PTL DEF Spec
=============================================================================
