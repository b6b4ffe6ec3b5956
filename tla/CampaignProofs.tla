---------------------------- MODULE CampaignProofs ----------------------------
(***************************************************************************)
(* Proofs about Campaign for any finite audience, any finite number of     *)
(* workers, any requests and incidents: its types, that the provider takes *)
(* a message at most once more than once for each incident, and, until     *)
(* something fails, that a completed campaign has nobody left to send to   *)
(* and that its counters agree with its ledger.                            *)
(***************************************************************************)
EXTENDS Campaign, TLAPS, FiniteSetTheorems

USE CampaignAssumption

\* The parts of the type.
CampaignOK ==
    /\ status \in {"draft", "scheduled", "sending", "paused", "completed", "cancelled"}
    /\ sized \in BOOLEAN
    /\ stats \in [sent : Int, failed : Int]

LedgerOK == row \in [Recipients -> {"none", "sent", "failed", "skipped"} \cup Unfinished]

QueueOK == dispatches \in Nat /\ batches \in [SUBSET Recipients -> Nat]

WorkerOK ==
    /\ pc \in [Workers -> Pcs]
    /\ job \in [Workers -> SUBSET Recipients]
    /\ left \in [Workers -> SUBSET Recipients]
    /\ at \in [Workers -> Recipients \cup {None}]
    /\ \A w \in Workers : at[w] # None <=> pc[w] \in Holding
    /\ done \in [Workers -> [sent : SUBSET Recipients, failed : SUBSET Recipients]]

PersonOK ==
    /\ op \in {"none", "launch", "pause", "resume", "cancel", "skip",
               "retry", "reopen", "subtract", "enqueue"}
    /\ undone \in Nat
    /\ retried \in BOOLEAN

BoundsOK ==
    /\ requests \in Nat /\ incidents \in 0 .. MaxIncidents
    /\ requests + incidents <= MaxEvents

HistoryOK == sends \in [Recipients -> Nat]

LEMMA Parts ==
    TypeOK <=> /\ CampaignOK /\ LedgerOK /\ QueueOK /\ WorkerOK
               /\ PersonOK /\ BoundsOK /\ HistoryOK
  BY DEF TypeOK, CampaignOK, LedgerOK, QueueOK, WorkerOK, PersonOK, BoundsOK, HistoryOK

LEMMA PartsNext ==
    /\ CampaignOK' /\ LedgerOK' /\ QueueOK' /\ WorkerOK'
    /\ PersonOK' /\ BoundsOK' /\ HistoryOK'
    => TypeOK'
  BY DEF TypeOK, CampaignOK, LedgerOK, QueueOK, WorkerOK, PersonOK, BoundsOK, HistoryOK

LEMMA Framed ==
    /\ CampaignOK /\ UNCHANGED campaign => CampaignOK'
    /\ LedgerOK /\ UNCHANGED row => LedgerOK'
    /\ QueueOK /\ UNCHANGED queue => QueueOK'
    /\ WorkerOK /\ UNCHANGED worker => WorkerOK'
    /\ PersonOK /\ UNCHANGED <<op, undone, retried>> => PersonOK'
    /\ BoundsOK /\ UNCHANGED <<requests, incidents>> => BoundsOK'
    /\ HistoryOK /\ UNCHANGED sends => HistoryOK'
  BY DEF CampaignOK, LedgerOK, QueueOK, WorkerOK, PersonOK, BoundsOK, HistoryOK,
         campaign, queue, worker

LEMMA Counted ==
    ASSUME BoundsOK, NEW f, Incident(f), UNCHANGED requests
    PROVE  BoundsOK'
  BY DEF BoundsOK, Incident

LEMMA Left ==
    ASSUME WorkerOK, NEW w \in Workers, Leave(w)
    PROVE  WorkerOK'
  BY DEF WorkerOK, Leave, Pcs, Holding, Nothing

LEMMA Returned ==
    ASSUME QueueOK, WorkerOK, NEW w \in Workers, Return(w)
    PROVE  QueueOK'
  BY DEF QueueOK, WorkerOK, Return, queue

LEMMA Finite ==
    \A S : S \subseteq Recipients => IsFiniteSet(S) /\ Cardinality(S) \in Nat
  BY FS_Subset, FS_CardinalityType

LEMMA Committed ==
    ASSUME CampaignOK, WorkerOK, NEW w \in Workers, CommitOutcome(w), UNCHANGED <<status, sized>>
    PROVE  CampaignOK'
<1>1. done[w].sent \subseteq Recipients /\ done[w].failed \subseteq Recipients
  BY DEF WorkerOK
<1>2. Cardinality(done[w].sent) \in Nat /\ Cardinality(done[w].failed) \in Nat
  BY <1>1, Finite
<1> QED
  BY <1>2 DEF CampaignOK, CommitOutcome

LEMMA NoStats == [sent |-> 0, failed |-> 0] \in [sent : Int, failed : Int]
  OBVIOUS

LEMMA Marked ==
    ASSUME LedgerOK, NEW r \in Recipients, NEW s \in {"sent", "failed", "pending"}, Mark(r, s)
    PROVE  LedgerOK'
  BY DEF LedgerOK, Mark, Unfinished

LEMMA PersonTyped ==
    ASSUME TypeOK, Ask \/ Save \/ RequestFails
    PROVE  TypeOK'
<1> USE Parts, PartsNext, Framed
<1>1. CASE Ask
  <2>1. PICK k \in {"launch", "pause", "resume", "cancel", "retry"} : \E S : Request(k, S)
    BY <1>1 DEF Ask
  <2>2. PersonOK' /\ BoundsOK'
    BY <2>1 DEF Request, PersonOK, BoundsOK
  <2> QED
    BY <2>1, <2>2 DEF Request
<1>2. CASE RequestFails
  <2>1. PersonOK' /\ BoundsOK'
    BY <1>2, Counted DEF RequestFails, PersonOK
  <2> QED
    BY <1>2, <2>1 DEF RequestFails
<1>3. CASE Save
  <2>1. CASE \E s \in {"scheduled", "sending"} : Launch(s)
    <3>1. CampaignOK'
      BY <2>1, NoStats DEF Launch, CampaignOK
    <3>2. PersonOK'
      BY <2>1 DEF Launch, PersonOK
    <3> QED
      BY <2>1, <3>1, <3>2 DEF Launch
  <2>2. CASE Pause \/ Resume \/ Cancel \/ Reopen
    <3>1. CampaignOK' /\ PersonOK'
      BY <2>2 DEF Pause, Resume, Cancel, Reopen, CampaignOK, PersonOK
    <3> QED
      BY <2>2, <3>1 DEF Pause, Resume, Cancel, Reopen
  <2>3. CASE SkipOpen
    <3>1. LedgerOK' /\ PersonOK'
      BY <2>3 DEF SkipOpen, LedgerOK, PersonOK
    <3> QED
      BY <2>3, <3>1 DEF SkipOpen
  <2>4. CASE RetryFailed
    <3>1. Cardinality(Status({"failed"})) \in Nat
      BY Finite DEF Status
    <3>2. PersonOK'
      BY <2>4, <3>1 DEF RetryFailed, PersonOK
    <3>3. LedgerOK'
      BY <2>4 DEF RetryFailed, LedgerOK, Unfinished
    <3> QED
      BY <2>4, <3>2, <3>3 DEF RetryFailed
  <2>5. CASE SubtractFailed
    <3>1. CampaignOK' /\ PersonOK'
      BY <2>5 DEF SubtractFailed, CampaignOK, PersonOK
    <3> QED
      BY <2>5, <3>1 DEF SubtractFailed
  <2>6. CASE EnqueueDispatch
    <3>1. QueueOK' /\ PersonOK'
      BY <2>6 DEF EnqueueDispatch, QueueOK, PersonOK
    <3> QED
      BY <2>6, <3>1 DEF EnqueueDispatch
  <2> QED
    BY <1>3, <2>1, <2>2, <2>3, <2>4, <2>5, <2>6 DEF Save
<1> QED
  BY <1>1, <1>2, <1>3

LEMMA DispatchTyped ==
    ASSUME TypeOK, NEW w \in Workers, Dispatch(w) \/ Outgrow(w)
    PROVE  TypeOK'
<1> USE Parts, PartsNext, Framed DEF person
<1>1. CASE TakeDispatch(w)
  <2>1. QueueOK'
    BY <1>1 DEF TakeDispatch, QueueOK
  <2>2. WorkerOK'
    BY <1>1 DEF TakeDispatch, WorkerOK, Pcs, Holding
  <2> QED
    BY <1>1, <2>1, <2>2 DEF TakeDispatch
<1>2. CASE \E r \in Recipients, s \in {"pending", "skipped"} : Write(w, r, s)
  <2>1. LedgerOK'
    BY <1>2 DEF Write, LedgerOK, Unfinished
  <2>2. WorkerOK'
    BY <1>2 DEF Write, WorkerOK
  <2> QED
    BY <1>2, <2>1, <2>2 DEF Write
<1>3. CASE Outgrow(w)
  <2>1. LedgerOK' /\ BoundsOK'
    BY <1>3, Counted DEF Outgrow, LedgerOK
  <2>2. WorkerOK'
    BY <1>3 DEF Outgrow, Move, WorkerOK, Pcs, Holding
  <2> QED
    BY <1>3, <2>1, <2>2 DEF Outgrow
<1>4. CASE CountLedger(w)
  <2>1. WorkerOK'
    BY <1>4 DEF CountLedger, Move, WorkerOK, Pcs, Holding
  <2> QED
    BY <1>4, <2>1 DEF CountLedger
<1>5. CASE SetSize(w)
  <2>1. WorkerOK' /\ CampaignOK'
    BY <1>5 DEF SetSize, Move, WorkerOK, CampaignOK, Pcs, Holding
  <2> QED
    BY <1>5, <2>1 DEF SetSize
<1>6. CASE RecoverStaleClaims(w)
  <2>1. LedgerOK'
    BY <1>6 DEF RecoverStaleClaims, LedgerOK, Unfinished
  <2>2. WorkerOK'
    BY <1>6 DEF RecoverStaleClaims, Move, WorkerOK, Pcs, Holding
  <2>3. BoundsOK'
    BY <1>6, Counted DEF RecoverStaleClaims
  <2> QED
    BY <1>6, <2>1, <2>2, <2>3 DEF RecoverStaleClaims
<1>7. CASE \E B \in SUBSET Recipients : EnqueueBatch(w, B)
  <2>1. QueueOK'
    BY <1>7 DEF EnqueueBatch, QueueOK
  <2>2. WorkerOK'
    BY <1>7 DEF EnqueueBatch, WorkerOK, Pcs, Holding
  <2> QED
    BY <1>7, <2>1, <2>2 DEF EnqueueBatch
<1>8. CASE \E r \in Recipients : Pass(w, r)
  <2>1. WorkerOK'
    BY <1>8 DEF Pass, WorkerOK
  <2> QED
    BY <1>8, <2>1 DEF Pass
<1>9. CASE EndQueueing(w)
  <2>1. WorkerOK'
    BY <1>9, Left DEF EndQueueing, Move, WorkerOK, Pcs, Holding
  <2> QED
    BY <1>9, <2>1 DEF EndQueueing
<1> QED
  BY <1>1, <1>2, <1>3, <1>4, <1>5, <1>6, <1>7, <1>8, <1>9 DEF Dispatch

LEMMA SendTyped ==
    ASSUME TypeOK, NEW w \in Workers, SendBatch(w)
    PROVE  TypeOK'
<1> USE Parts, PartsNext, Framed DEF person
<1>1. CASE \E B \in SUBSET Recipients : TakeBatch(w, B)
  <2>1. QueueOK'
    BY <1>1 DEF TakeBatch, QueueOK
  <2>2. WorkerOK'
    <3>1. PICK B \in SUBSET Recipients : TakeBatch(w, B)
      BY <1>1
    <3>2. CASE status # "sending"
      BY <3>1, <3>2 DEF TakeBatch, WorkerOK
    <3>3. CASE status = "sending"
      <4>1. /\ pc' = [pc EXCEPT ![w] = "opening"] /\ job' = [job EXCEPT ![w] = B]
            /\ left' = [left EXCEPT ![w] = B] /\ UNCHANGED <<at, done>>
            /\ pc[w] = "idle"
        BY <3>1, <3>3 DEF TakeBatch
      <4>2. \A v \in Workers : at'[v] # None <=> pc'[v] \in Holding
        BY <4>1 DEF WorkerOK, Holding
      <4> QED
        BY <4>1, <4>2 DEF WorkerOK, Pcs, Holding
    <3> QED
      BY <3>2, <3>3
  <2> QED
    BY <1>1, <2>1, <2>2 DEF TakeBatch
<1>2. CASE Open(w) \/ StopWhenPaused(w) \/ EndBatch(w)
  <2>1. WorkerOK'
    BY <1>2 DEF Open, StopWhenPaused, EndBatch, Move, WorkerOK, Pcs, Holding
  <2> QED
    BY <1>2, <2>1 DEF Open, StopWhenPaused, EndBatch
<1>3. CASE \E r \in Recipients : Claim(w, r)
  <2>1. LedgerOK'
    BY <1>3 DEF Claim, LedgerOK, Unfinished
  <2>2. WorkerOK'
    <3>1. PICK r \in Recipients : Claim(w, r)
      BY <1>3
    <3>2. CASE ~Claimable(r)
      BY <3>1, <3>2 DEF Claim, WorkerOK
    <3>3. CASE Claimable(r)
      <4>1. /\ pc' = [pc EXCEPT ![w] = "sending"] /\ at' = [at EXCEPT ![w] = r]
            /\ left' = [left EXCEPT ![w] = @ \ {r}] /\ UNCHANGED <<job, done>>
        BY <3>1, <3>3 DEF Claim
      <4>2. \A v \in Workers : at'[v] # None <=> pc'[v] \in Holding
        BY <4>1 DEF WorkerOK, Holding
      <4> QED
        BY <4>1, <4>2 DEF WorkerOK, Pcs, Holding
    <3> QED
      BY <3>2, <3>3
  <2> QED
    BY <1>3, <2>1, <2>2 DEF Claim
<1>4. CASE Accept(w)
  <2>1. at[w] \in Recipients
    BY <1>4 DEF Accept, Move, WorkerOK, Holding
  <2>2. WorkerOK'
    BY <1>4 DEF Accept, Move, WorkerOK, Pcs, Holding
  <2>3. HistoryOK' /\ BoundsOK'
    BY <1>4, <2>1, Counted DEF Accept, HistoryOK, person
  <2> QED
    BY <1>4, <2>2, <2>3 DEF Accept
<1>5. CASE Refuse(w)
  <2>1. WorkerOK'
    BY <1>5 DEF Refuse, Move, WorkerOK, Pcs, Holding
  <2> QED
    BY <1>5, <2>1 DEF Refuse
<1>6. CASE MarkSent(w) \/ MarkFailed(w) \/ PutBack(w)
  <2>1. at[w] \in Recipients
    BY <1>6 DEF MarkSent, MarkFailed, PutBack, Move, WorkerOK, Holding
  <2>2. LedgerOK'
    BY <1>6, <2>1, Marked DEF MarkSent, MarkFailed, PutBack
  <2>3. WorkerOK'
    <3>1. CASE MarkSent(w)
      BY <3>1, <2>1 DEF MarkSent, Move, WorkerOK, Pcs, Holding
    <3>2. CASE MarkFailed(w)
      BY <3>2, <2>1 DEF MarkFailed, Move, WorkerOK, Pcs, Holding
    <3>3. CASE PutBack(w)
      BY <3>3, <2>1 DEF PutBack, Move, WorkerOK, Pcs, Holding
    <3> QED
      BY <1>6, <3>1, <3>2, <3>3
  <2> QED
    BY <1>6, <2>2, <2>3 DEF MarkSent, MarkFailed, PutBack
<1> QED
  BY <1>1, <1>2, <1>3, <1>4, <1>5, <1>6 DEF SendBatch

LEMMA EndTyped ==
    ASSUME TypeOK, NEW w \in Workers,
           Abort(w) \/ Commit(w) \/ CountOpen(w) \/ Complete(w) \/ CommitAndThrow(w)
    PROVE  TypeOK'
<1> USE Parts, PartsNext, Framed DEF person
<1>1. CASE Abort(w)
  <2>1. WorkerOK' /\ CampaignOK'
    BY <1>1, Left DEF Abort, Move, WorkerOK, CampaignOK, Pcs, Holding
  <2> QED
    BY <1>1, <2>1 DEF Abort
<1>2. CASE Commit(w)
  <2>1. CampaignOK'
    BY <1>2, Committed DEF Commit
  <2>2. WorkerOK'
    BY <1>2 DEF Commit, Move, WorkerOK, Pcs, Holding, Nothing
  <2> QED
    BY <1>2, <2>1, <2>2 DEF Commit
<1>3. CASE CountOpen(w)
  <2>1. WorkerOK'
    BY <1>3, Left DEF CountOpen, Move, WorkerOK, Pcs, Holding
  <2> QED
    BY <1>3, <2>1 DEF CountOpen
<1>4. CASE Complete(w)
  <2>1. CampaignOK' /\ WorkerOK'
    BY <1>4, Left DEF Complete, CampaignOK
  <2> QED
    BY <1>4, <2>1 DEF Complete
<1>5. CASE CommitAndThrow(w)
  <2>1. CampaignOK' /\ WorkerOK' /\ QueueOK'
    BY <1>5, Left, Returned, Committed DEF CommitAndThrow
  <2> QED
    BY <1>5, <2>1 DEF CommitAndThrow
<1> QED
  BY <1>1, <1>2, <1>3, <1>4, <1>5

LEMMA FailureTyped ==
    ASSUME TypeOK, NEW w \in Workers,
           MarkSentFails(w) \/ BatchFails(w) \/ JobFails(w) \/ Crash(w)
    PROVE  TypeOK'
<1> USE Parts, PartsNext, Framed DEF person
<1>1. CASE MarkSentFails(w)
  <2>1. WorkerOK' /\ BoundsOK'
    BY <1>1, Counted DEF MarkSentFails, Move, WorkerOK, Pcs, Holding
  <2> QED
    BY <1>1, <2>1 DEF MarkSentFails
<1>2. CASE BatchFails(w)
  <2>1. WorkerOK' /\ BoundsOK'
    BY <1>2, Counted DEF BatchFails, WorkerOK, Pcs, Holding
  <2> QED
    BY <1>2, <2>1 DEF BatchFails
<1>3. CASE JobFails(w) \/ Crash(w)
  <2>1. WorkerOK' /\ QueueOK' /\ BoundsOK'
    BY <1>3, Left, Returned, Counted DEF JobFails, Crash
  <2> QED
    BY <1>3, <2>1 DEF JobFails, Crash
<1> QED
  BY <1>1, <1>2, <1>3

LEMMA StepTyped == TypeOK /\ [Next]_vars => TypeOK'
<1> SUFFICES ASSUME TypeOK, [Next]_vars PROVE TypeOK'
  OBVIOUS
<1>1. CASE UNCHANGED vars
  BY <1>1, Parts, PartsNext, Framed DEF vars, person
<1>2. CASE Next
  BY <1>2, PersonTyped, DispatchTyped, SendTyped, EndTyped, FailureTyped DEF Next, Work, Fails
<1> QED
  BY <1>1, <1>2

\* The campaign, its ledger, the jobs and the workers are typed, and a worker
\* names a recipient exactly while it holds one.
THEOREM Typing == Spec => []TypeOK
<1>1. Init => TypeOK
  <2> SUFFICES ASSUME Init PROVE TypeOK
    OBVIOUS
  <2>1. CampaignOK
    BY NoStats DEF Init, CampaignOK
  <2>2. WorkerOK
    BY DEF Init, WorkerOK, Pcs, Holding, Nothing
  <2>3. LedgerOK /\ QueueOK /\ HistoryOK
    BY DEF Init, LedgerOK, QueueOK, HistoryOK
  <2>4. PersonOK
    BY DEF Init, PersonOK
  <2>5. BoundsOK
    BY DEF Init, BoundsOK
  <2> QED
    BY <2>1, <2>2, <2>3, <2>4, <2>5, Parts
<1>2. TypeOK /\ [Next]_vars => TypeOK'
  BY StepTyped
<1> QED
  BY <1>1, <1>2, PTL DEF Spec

-----------------------------------------------------------------------------
(* The provider takes a message once.  What may still make it take one more: *)
(* a worker that holds the row and has not been answered, and a row somebody *)
(* can yet claim, which a claimed row becomes when its worker is lost.       *)

Before(r) == {w \in Workers : at[w] = r /\ pc[w] # "accepted"}
Loose(r) == IF row[r] \in {"none", "pending", "failed"} \/ Stale(r) THEN 1 ELSE 0
Within(r) == sends[r] + Cardinality(Before(r)) + Loose(r) <= 1 + incidents
Owed == \A r \in Recipients : Within(r)

LEMMA BeforeFinite == \A r : IsFiniteSet(Before(r)) /\ Cardinality(Before(r)) \in Nat
<1>1. \A r : Before(r) \in SUBSET Workers
  BY DEF Before
<1> QED
  BY <1>1, FS_Subset, FS_CardinalityType

LEMMA BeforeFiniteNext ==
    \A r : IsFiniteSet(Before(r)') /\ Cardinality(Before(r)') \in Nat
<1>1. \A r : Before(r)' \in SUBSET Workers
  BY DEF Before
<1> QED
  BY <1>1, FS_Subset, FS_CardinalityType

LEMMA Level == TypeOK /\ UNCHANGED incidents => incidents' >= incidents
  BY DEF TypeOK

LEMMA LooseBit == \A r : Loose(r) \in {0, 1} /\ Loose(r)' \in {0, 1}
  BY DEF Loose

\* A step that adds no more to one side than to the other.
LEMMA Balanced ==
    ASSUME TypeOK, TypeOK', NEW r \in Recipients, Within(r),
           sends[r]' + Cardinality(Before(r)') + Loose(r)' + incidents
             <= sends[r] + Cardinality(Before(r)) + Loose(r) + incidents'
    PROVE  Within(r)'
<1>1. /\ sends[r] \in Nat /\ sends[r]' \in Nat
      /\ incidents \in Nat /\ incidents' \in Nat
  BY DEF TypeOK
<1>2. /\ Cardinality(Before(r)) \in Nat /\ Cardinality(Before(r)') \in Nat
      /\ Loose(r) \in Nat /\ Loose(r)' \in Nat
  BY BeforeFinite, BeforeFiniteNext, LooseBit
<1> QED
  BY <1>1, <1>2 DEF Within

\* A recipient whose row, sends and holders stay as they are.
LEMMA Untouched ==
    ASSUME TypeOK, TypeOK', NEW r \in Recipients, Within(r),
           row[r]' = row[r], sends[r]' = sends[r], incidents' >= incidents,
           \A w \in Workers : (at[w] = r <=> at[w]' = r),
           \A w \in Workers : at[w] = r => (pc[w]' = "accepted" <=> pc[w] = "accepted")
    PROVE  Within(r)'
<1>1. Before(r)' = Before(r)
  BY DEF Before
<1>2. Loose(r)' = Loose(r)
  BY DEF Loose, Stale, Held
<1>3. /\ sends[r] \in Nat /\ incidents \in Nat /\ incidents' \in Nat
      /\ Cardinality(Before(r)) \in Nat /\ Loose(r) \in {0, 1}
  <2>1. sends[r] \in Nat /\ incidents \in Nat /\ incidents' \in Nat
    BY DEF TypeOK
  <2> QED
    BY <2>1, BeforeFinite, LooseBit
<1>4. sends[r]' + Cardinality(Before(r)') + Loose(r)' + incidents
        <= sends[r] + Cardinality(Before(r)) + Loose(r) + incidents'
  BY <1>1, <1>2, <1>3
<1> QED
  BY <1>4, Balanced

\* Its holders and sends stay, and its row is changed as the incidents allow.
LEMMA RowMoved ==
    ASSUME TypeOK, TypeOK', NEW r \in Recipients, Within(r),
           sends[r]' = sends[r], Before(r)' = Before(r),
           (Loose(r)' <= Loose(r) /\ incidents' = incidents) \/ incidents' = incidents + 1
    PROVE  Within(r)'
<1>1. /\ sends[r] \in Nat /\ incidents \in Nat
      /\ Cardinality(Before(r)) \in Nat /\ Loose(r) \in {0, 1} /\ Loose(r)' \in {0, 1}
  BY BeforeFinite, LooseBit DEF TypeOK
<1>2. sends[r]' + Cardinality(Before(r)') + Loose(r)' + incidents
        <= sends[r] + Cardinality(Before(r)) + Loose(r) + incidents'
  BY <1>1
<1> QED
  BY <1>2, Balanced

\* A worker that has not had the provider's answer lets its row go, whatever
\* becomes of the row.
LEMMA LetGo ==
    ASSUME TypeOK, TypeOK', Owed, NEW w \in Workers, NEW x,
           at[w] \in Recipients, pc[w] # "accepted", incidents' >= incidents,
           at' = [at EXCEPT ![w] = None], pc' = [pc EXCEPT ![w] = x],
           UNCHANGED sends, \A r \in Recipients \ {at[w]} : row[r]' = row[r]
    PROVE  Owed'
<1> SUFFICES ASSUME NEW r \in Recipients PROVE Within(r)'
  BY DEF Owed
<1>1. Within(r)
  BY DEF Owed
<1>2. CASE r # at[w]
  <2>1. \A v \in Workers : (at[v] = r <=> at[v]' = r)
    BY <1>2 DEF TypeOK
  <2>2. \A v \in Workers : at[v] = r => (pc[v]' = "accepted" <=> pc[v] = "accepted")
    BY <1>2 DEF TypeOK
  <2> QED
    BY <1>1, <1>2, <2>1, <2>2, Untouched
<1>3. CASE r = at[w]
  <2>1. Before(r)' = Before(r) \ {w} /\ w \in Before(r)
    BY <1>3 DEF Before, TypeOK
  <2>2. Cardinality(Before(r)') = Cardinality(Before(r)) - 1
    BY <2>1, BeforeFinite, FS_RemoveElement
  <2>3. /\ sends[r]' = sends[r] /\ sends[r] \in Nat
        /\ incidents \in Nat /\ incidents' \in Nat
        /\ Cardinality(Before(r)) \in Nat /\ Loose(r) \in {0, 1} /\ Loose(r)' \in {0, 1}
    BY BeforeFinite, LooseBit DEF TypeOK
  <2>4. sends[r]' + Cardinality(Before(r)') + Loose(r)' + incidents
          <= sends[r] + Cardinality(Before(r)) + Loose(r) + incidents'
    BY <2>2, <2>3
  <2> QED
    BY <1>1, <2>4, Balanced
<1> QED
  BY <1>2, <1>3

\* Nobody's row, sends or holder change.
LEMMA Quiet ==
    ASSUME TypeOK, TypeOK', Owed, UNCHANGED <<row, sends, at>>, incidents' >= incidents,
           \A w \in Workers : pc[w] \in Holding => (pc[w]' = "accepted" <=> pc[w] = "accepted")
    PROVE  Owed'
<1> SUFFICES ASSUME NEW r \in Recipients PROVE Within(r)'
  BY DEF Owed
<1>1. Within(r)
  BY DEF Owed
<1>2. \A w \in Workers : at[w] = r => pc[w] \in Holding
  BY DEF TypeOK
<1> QED
  BY <1>1, <1>2, Untouched

\* Only rows change, and only as the incidents allow.
LEMMA RowsMoved ==
    ASSUME TypeOK, TypeOK', Owed, UNCHANGED <<sends, at>>,
           \A w \in Workers : pc[w] \in Holding => pc[w]' = pc[w],
           \/ incidents' = incidents /\ \A r \in Recipients : Loose(r)' <= Loose(r)
           \/ incidents' = incidents + 1
    PROVE  Owed'
<1> SUFFICES ASSUME NEW r \in Recipients PROVE Within(r)'
  BY DEF Owed
<1>1. Within(r)
  BY DEF Owed
<1>2. \A w \in Workers : at[w] = r => pc[w] \in Holding
  BY DEF TypeOK
<1>3. Before(r)' = Before(r)
  BY <1>2 DEF Before
<1> QED
  BY <1>1, <1>3, RowMoved

\* A worker without a row that finishes its job changes nobody's.
LEMMA LeftEmptyHanded ==
    ASSUME TypeOK, NEW w \in Workers, Leave(w), pc[w] \notin Holding
    PROVE  /\ at' = at
           /\ \A v \in Workers : pc[v] \in Holding => pc[v]' = pc[v]
  BY DEF Leave, TypeOK

LEMMA PersonOwes ==
    ASSUME TypeOK, TypeOK', Owed, Ask \/ Save \/ RequestFails
    PROVE  Owed'
<1> USE DEF worker
<1>1. CASE Ask
  BY <1>1, Quiet, Level DEF Ask, Request
<1>2. CASE RequestFails
  BY <1>2, Quiet DEF RequestFails, Incident, TypeOK
<1>3. CASE SkipOpen
  <2>1. \A r \in Recipients : Loose(r)' <= Loose(r)
    BY <1>3 DEF SkipOpen, Loose, Stale, Held, TypeOK, Unfinished
  <2> QED
    BY <1>3, <2>1, RowsMoved DEF SkipOpen
<1>4. CASE RetryFailed
  <2>1. \A r \in Recipients : Loose(r)' <= Loose(r)
    BY <1>4 DEF RetryFailed, Loose, Stale, Held, TypeOK, Unfinished
  <2> QED
    BY <1>4, <2>1, RowsMoved DEF RetryFailed
<1>5. CASE \/ \E s \in {"scheduled", "sending"} : Launch(s)
           \/ Pause \/ Resume \/ Cancel \/ Reopen \/ SubtractFailed \/ EnqueueDispatch
  BY <1>5, Quiet, Level DEF Launch, Pause, Resume, Cancel, Reopen, SubtractFailed, EnqueueDispatch
<1> QED
  BY <1>1, <1>2, <1>3, <1>4, <1>5 DEF Save

LEMMA DispatchOwes ==
    ASSUME TypeOK, TypeOK', Owed, NEW w \in Workers, Dispatch(w) \/ Outgrow(w)
    PROVE  Owed'
<1>1. CASE TakeDispatch(w)
  <2>1. \A v \in Workers : pc[v] \in Holding => (pc[v]' = "accepted" <=> pc[v] = "accepted")
    BY <1>1 DEF TakeDispatch, TypeOK, Holding
  <2> QED
    BY <1>1, <2>1, Quiet, Level DEF TakeDispatch
<1>2. CASE \E r \in Recipients, s \in {"pending", "skipped"} : Write(w, r, s)
  <2>1. PICK r \in Recipients, s \in {"pending", "skipped"} : Write(w, r, s)
    BY <1>2
  <2>2. \A q \in Recipients : Loose(q)' <= Loose(q)
    BY <2>1 DEF Write, Loose, Stale, Held, TypeOK
  <2> QED
    BY <2>1, <2>2, RowsMoved DEF Write
<1>3. CASE Outgrow(w)
  <2>1. \A v \in Workers : pc[v] \in Holding => pc[v]' = pc[v]
    BY <1>3 DEF Outgrow, Move, Holding, TypeOK
  <2> QED
    BY <1>3, <2>1, RowsMoved DEF Outgrow, Incident
<1>4. CASE CountLedger(w) \/ SetSize(w)
  <2>1. \A v \in Workers : pc[v] \in Holding => (pc[v]' = "accepted" <=> pc[v] = "accepted")
    BY <1>4 DEF CountLedger, SetSize, Move, TypeOK, Holding
  <2> QED
    BY <1>4, <2>1, Quiet, Level DEF CountLedger, SetSize
<1>5. CASE RecoverStaleClaims(w)
  <2>1. \A v \in Workers : pc[v] \in Holding => pc[v]' = pc[v]
    BY <1>5 DEF RecoverStaleClaims, Move, Holding, TypeOK
  <2>2. PICK S \in SUBSET Status({"sending"}) :
            /\ \/ (\A r \in S : Stale(r)) /\ UNCHANGED incidents
               \/ Incident("slow")
            /\ row' = [r \in Recipients |-> IF r \in S THEN "pending" ELSE row[r]]
    BY <1>5 DEF RecoverStaleClaims
  <2>3. CASE (\A r \in S : Stale(r)) /\ UNCHANGED incidents
    <3>1. \A r \in Recipients : Loose(r)' <= Loose(r)
      BY <1>5, <2>2, <2>3 DEF RecoverStaleClaims, Loose, Stale, Held
    <3> QED
      BY <1>5, <2>1, <2>3, <3>1, RowsMoved DEF RecoverStaleClaims
  <2>4. CASE Incident("slow")
    BY <1>5, <2>1, <2>4, RowsMoved DEF RecoverStaleClaims, Incident
  <2> QED
    BY <2>2, <2>3, <2>4
<1>6. CASE \E B \in SUBSET Recipients : EnqueueBatch(w, B)
  <2>1. \A v \in Workers : pc[v] \in Holding => (pc[v]' = "accepted" <=> pc[v] = "accepted")
    BY <1>6 DEF EnqueueBatch, TypeOK, Holding
  <2> QED
    BY <1>6, <2>1, Quiet, Level DEF EnqueueBatch
<1>7. CASE \E r \in Recipients : Pass(w, r)
  BY <1>7, Quiet, Level DEF Pass
<1>8. CASE EndQueueing(w)
  <2>1. /\ at' = at
        /\ \A v \in Workers : pc[v] \in Holding => pc[v]' = pc[v]
    <3>1. CASE Move(w, "queueing", "counting") /\ at' = at
      BY <3>1 DEF Move, TypeOK, Holding
    <3>2. CASE pc[w] = "queued" /\ Leave(w)
      BY <3>2, LeftEmptyHanded DEF Holding
    <3> QED
      BY <1>8, <3>1, <3>2 DEF EndQueueing
  <2> QED
    BY <1>8, <2>1, Quiet, Level DEF EndQueueing
<1> QED
  BY <1>1, <1>2, <1>3, <1>4, <1>5, <1>6, <1>7, <1>8 DEF Dispatch

LEMMA ClaimOwes ==
    ASSUME TypeOK, TypeOK', Owed, NEW w \in Workers, NEW c \in Recipients, Claim(w, c)
    PROVE  Owed'
<1>1. CASE ~Claimable(c)
  BY <1>1, Quiet, Level DEF Claim
<1>2. CASE Claimable(c)
  <2> SUFFICES ASSUME NEW r \in Recipients PROVE Within(r)'
    BY DEF Owed
  <2>1. Within(r)
    BY DEF Owed
  <2>2. /\ row' = [row EXCEPT ![c] = "sending"] /\ at' = [at EXCEPT ![w] = c]
        /\ pc' = [pc EXCEPT ![w] = "sending"] /\ at[w] = None
        /\ UNCHANGED <<sends, incidents>>
    BY <1>2 DEF Claim, TypeOK, Holding
  <2>3. CASE r # c
    <3>1. \A v \in Workers : (at[v] = r <=> at[v]' = r)
      BY <2>2, <2>3 DEF TypeOK
    <3>2. \A v \in Workers : at[v] = r => (pc[v]' = "accepted" <=> pc[v] = "accepted")
      BY <2>2, <2>3 DEF TypeOK
    <3> QED
      BY <2>1, <2>2, <2>3, <3>1, <3>2, Level, Untouched
  <2>4. CASE r = c
    <3>1. Before(r)' = Before(r) \cup {w} /\ w \notin Before(r)
      BY <2>2, <2>4 DEF Before, TypeOK
    <3>2. Cardinality(Before(r)') = Cardinality(Before(r)) + 1
      BY <3>1, BeforeFinite, FS_AddElement
    <3>3. Loose(r) = 1
      BY <1>2, <2>4 DEF Loose, Claimable
    <3>4. row[r]' = "sending" /\ Held(r)'
      BY <2>2, <2>4 DEF Held, TypeOK
    <3>5. Loose(r)' = 0
      BY <3>4 DEF Loose, Stale
    <3>6. /\ sends[r]' = sends[r] /\ sends[r] \in Nat /\ incidents' = incidents
          /\ incidents \in Nat /\ Cardinality(Before(r)) \in Nat
      BY <2>2, BeforeFinite DEF TypeOK
    <3>7. sends[r]' + Cardinality(Before(r)') + Loose(r)' + incidents
            <= sends[r] + Cardinality(Before(r)) + Loose(r) + incidents'
      BY <3>2, <3>3, <3>5, <3>6
    <3> QED
      BY <2>1, <3>7, Balanced
  <2> QED
    BY <2>3, <2>4
<1> QED
  BY <1>1, <1>2

\* The provider takes the message, or takes it and the answer is lost.
LEMMA AcceptOwes ==
    ASSUME TypeOK, TypeOK', Owed, NEW w \in Workers, Accept(w)
    PROVE  Owed'
<1> SUFFICES ASSUME NEW r \in Recipients PROVE Within(r)'
  BY DEF Owed
<1>1. Within(r)
  BY DEF Owed
<1>2. /\ pc[w] = "sending" /\ at[w] \in Recipients /\ UNCHANGED <<row, at>>
      /\ sends' = [sends EXCEPT ![at[w]] = @ + 1]
  BY DEF Accept, Move, TypeOK, Holding
<1>3. /\ \/ pc' = [pc EXCEPT ![w] = "accepted"] /\ incidents' = incidents
         \/ pc' = [pc EXCEPT ![w] = "failing"] /\ incidents' = incidents + 1
  BY DEF Accept, Move, Incident
<1>4. incidents \in Nat /\ incidents' >= incidents
  BY <1>3 DEF TypeOK
<1>5. CASE r # at[w]
  <2>1. sends[r]' = sends[r]
    BY <1>2, <1>5 DEF TypeOK
  <2>2. \A v \in Workers : at[v] = r => (pc[v]' = "accepted" <=> pc[v] = "accepted")
    BY <1>3, <1>5 DEF TypeOK
  <2> QED
    BY <1>1, <1>2, <1>4, <2>1, <2>2, Untouched
<1>6. CASE r = at[w]
  <2>1. Loose(r)' = Loose(r) /\ Loose(r) \in {0, 1}
    BY <1>2, LooseBit DEF Loose, Stale, Held
  <2>2. sends[r]' = sends[r] + 1 /\ sends[r] \in Nat /\ Cardinality(Before(r)) \in Nat
    BY <1>2, <1>6, BeforeFinite DEF TypeOK
  <2>3. CASE pc' = [pc EXCEPT ![w] = "accepted"] /\ incidents' = incidents
    <3>1. Before(r)' = Before(r) \ {w} /\ w \in Before(r)
      BY <1>2, <1>6, <2>3 DEF Before, TypeOK
    <3>2. Cardinality(Before(r)') = Cardinality(Before(r)) - 1
      BY <3>1, BeforeFinite, FS_RemoveElement
    <3>3. sends[r]' + Cardinality(Before(r)') + Loose(r)' + incidents
            <= sends[r] + Cardinality(Before(r)) + Loose(r) + incidents'
      BY <1>4, <2>1, <2>2, <2>3, <3>2
    <3> QED
      BY <1>1, <3>3, Balanced
  <2>4. CASE pc' = [pc EXCEPT ![w] = "failing"] /\ incidents' = incidents + 1
    <3>1. Before(r)' = Before(r)
      BY <1>2, <2>4 DEF Before, TypeOK
    <3>2. sends[r]' + Cardinality(Before(r)') + Loose(r)' + incidents
            <= sends[r] + Cardinality(Before(r)) + Loose(r) + incidents'
      BY <1>4, <2>1, <2>2, <2>4, <3>1
    <3> QED
      BY <1>1, <3>2, Balanced
  <2> QED
    BY <1>3, <2>3, <2>4
<1> QED
  BY <1>5, <1>6

LEMMA MarkSentOwes ==
    ASSUME TypeOK, TypeOK', Owed, NEW w \in Workers, MarkSent(w)
    PROVE  Owed'
<1> SUFFICES ASSUME NEW r \in Recipients PROVE Within(r)'
  BY DEF Owed
<1>1. Within(r)
  BY DEF Owed
<1>2. /\ pc[w] = "accepted" /\ at[w] \in Recipients /\ Mark(at[w], "sent")
      /\ pc' = [pc EXCEPT ![w] = "delivering"] /\ at' = [at EXCEPT ![w] = None]
      /\ UNCHANGED <<sends, incidents>> /\ incidents \in Nat
  BY DEF MarkSent, Move, TypeOK, Holding
<1>3. CASE r # at[w]
  <2>1. row[r]' = row[r]
    BY <1>2, <1>3 DEF Mark, TypeOK
  <2>2. \A v \in Workers : (at[v] = r <=> at[v]' = r)
    BY <1>2, <1>3 DEF TypeOK
  <2>3. \A v \in Workers : at[v] = r => (pc[v]' = "accepted" <=> pc[v] = "accepted")
    BY <1>2, <1>3 DEF TypeOK
  <2> QED
    BY <1>1, <1>2, <2>1, <2>2, <2>3, Untouched
<1>4. CASE r = at[w]
  <2>1. Before(r)' = Before(r)
    BY <1>2, <1>4 DEF Before, TypeOK
  <2>2. Loose(r)' <= Loose(r)
    BY <1>2, <1>4 DEF Mark, Loose, Stale, TypeOK
  <2> QED
    BY <1>1, <1>2, <2>1, <2>2, RowMoved
<1> QED
  BY <1>3, <1>4

LEMMA SendOwes ==
    ASSUME TypeOK, TypeOK', Owed, NEW w \in Workers, SendBatch(w)
    PROVE  Owed'
<1>1. CASE \E B \in SUBSET Recipients : TakeBatch(w, B)
  <2>1. \A v \in Workers : pc[v] \in Holding => (pc[v]' = "accepted" <=> pc[v] = "accepted")
    BY <1>1 DEF TakeBatch, TypeOK, Holding
  <2> QED
    BY <1>1, <2>1, Quiet, Level DEF TakeBatch
<1>2. CASE Open(w) \/ StopWhenPaused(w) \/ EndBatch(w) \/ Refuse(w)
  <2>1. \A v \in Workers : pc[v] \in Holding => (pc[v]' = "accepted" <=> pc[v] = "accepted")
    BY <1>2 DEF Open, StopWhenPaused, EndBatch, Refuse, Move, TypeOK, Holding
  <2> QED
    BY <1>2, <2>1, Quiet, Level DEF Open, StopWhenPaused, EndBatch, Refuse
<1>3. CASE MarkFailed(w) \/ PutBack(w)
  <2>1. PICK x, s : /\ pc' = [pc EXCEPT ![w] = x] /\ Mark(at[w], s)
                    /\ pc[w] \in {"failing", "putback"}
                    /\ at' = [at EXCEPT ![w] = None] /\ UNCHANGED <<sends, incidents>>
    BY <1>3 DEF MarkFailed, PutBack, Move
  <2>2. at[w] \in Recipients /\ pc[w] # "accepted" /\ incidents' >= incidents
    BY <2>1 DEF TypeOK, Holding
  <2>3. \A r \in Recipients \ {at[w]} : row[r]' = row[r]
    BY <2>1, <2>2 DEF Mark, TypeOK
  <2> QED
    BY <2>1, <2>2, <2>3, LetGo
<1> QED
  BY <1>1, <1>2, <1>3, ClaimOwes, AcceptOwes, MarkSentOwes DEF SendBatch

LEMMA EndOwes ==
    ASSUME TypeOK, TypeOK', Owed, NEW w \in Workers,
           \/ Abort(w) \/ Commit(w) \/ CountOpen(w) \/ Complete(w)
           \/ CommitAndThrow(w) \/ JobFails(w)
    PROVE  Owed'
<1>1. /\ at' = at /\ UNCHANGED <<row, sends>>
      /\ \A v \in Workers : pc[v] \in Holding => pc[v]' = pc[v]
  BY LeftEmptyHanded DEF Abort, Commit, CountOpen, Complete, CommitAndThrow, JobFails,
                         Move, TypeOK, Holding
<1>2. incidents' >= incidents
  BY DEF Abort, Commit, CountOpen, Complete, CommitAndThrow, JobFails, Incident, TypeOK
<1> QED
  BY <1>1, <1>2, Quiet

LEMMA FailureOwes ==
    ASSUME TypeOK, TypeOK', Owed, NEW w \in Workers,
           MarkSentFails(w) \/ BatchFails(w) \/ Crash(w)
    PROVE  Owed'
<1>1. incidents \in Nat /\ incidents' = incidents + 1 /\ UNCHANGED <<row, sends>>
  BY DEF MarkSentFails, BatchFails, Crash, Incident, TypeOK
<1>2. CASE MarkSentFails(w)
  <2> SUFFICES ASSUME NEW r \in Recipients PROVE Within(r)'
    BY DEF Owed
  <2>1. Within(r)
    BY DEF Owed
  <2>2. pc[w] = "accepted" /\ pc' = [pc EXCEPT ![w] = "failing"] /\ UNCHANGED at
    BY <1>2 DEF MarkSentFails, Move
  <2>3. CASE r # at[w]
    <3>1. \A v \in Workers : at[v] = r => (pc[v]' = "accepted" <=> pc[v] = "accepted")
      BY <2>2, <2>3 DEF TypeOK
    <3> QED
      BY <1>1, <2>1, <2>2, <2>3, <3>1, Untouched
  <2>4. CASE r = at[w]
    <3>1. Before(r)' = Before(r) \cup {w} /\ w \notin Before(r)
      BY <2>2, <2>4 DEF Before, TypeOK
    <3>2. Cardinality(Before(r)') = Cardinality(Before(r)) + 1
      BY <3>1, BeforeFinite, FS_AddElement
    <3>3. Loose(r)' = Loose(r) /\ Loose(r) \in {0, 1}
      BY <1>1, <2>2, LooseBit DEF Loose, Stale, Held
    <3>4. sends[r]' = sends[r] /\ sends[r] \in Nat /\ Cardinality(Before(r)) \in Nat
      BY <1>1, BeforeFinite DEF TypeOK
    <3>5. sends[r]' + Cardinality(Before(r)') + Loose(r)' + incidents
            <= sends[r] + Cardinality(Before(r)) + Loose(r) + incidents'
      BY <1>1, <3>2, <3>3, <3>4
    <3> QED
      BY <2>1, <3>5, Balanced
  <2> QED
    BY <2>3, <2>4
<1>3. CASE BatchFails(w) \/ Crash(w)
  <2>1. PICK x : pc' = [pc EXCEPT ![w] = x] /\ at' = [at EXCEPT ![w] = None]
    BY <1>3 DEF BatchFails, Crash, Leave
  <2>2. CASE at[w] = None
    <3>1. at' = at /\ pc[w] \notin Holding
      BY <2>1, <2>2 DEF TypeOK
    <3>2. \A v \in Workers : pc[v] \in Holding => (pc[v]' = "accepted" <=> pc[v] = "accepted")
      BY <2>1, <3>1 DEF TypeOK
    <3> QED
      BY <1>1, <3>1, <3>2, Quiet
  <2>3. CASE at[w] # None /\ pc[w] # "accepted"
    <3>1. at[w] \in Recipients /\ incidents' >= incidents
      BY <1>1, <2>3 DEF TypeOK
    <3> QED
      BY <1>1, <2>1, <2>3, <3>1, LetGo
  <2>4. CASE at[w] # None /\ pc[w] = "accepted"
    <3> SUFFICES ASSUME NEW r \in Recipients PROVE Within(r)'
      BY DEF Owed
    <3>1. Within(r) /\ Before(r)' = Before(r)
      BY <2>1, <2>4 DEF Owed, Before, TypeOK
    <3> QED
      BY <1>1, <3>1, RowMoved
  <2> QED
    BY <2>2, <2>3, <2>4
<1> QED
  BY <1>2, <1>3

LEMMA StepOwes == TypeOK /\ TypeOK' /\ Owed /\ [Next]_vars => Owed'
<1> SUFFICES ASSUME TypeOK, TypeOK', Owed, [Next]_vars PROVE Owed'
  OBVIOUS
<1>1. CASE UNCHANGED vars
  BY <1>1, Quiet, Level DEF vars, worker
<1>2. CASE Next
  BY <1>2, PersonOwes, DispatchOwes, SendOwes, EndOwes, FailureOwes DEF Next, Work, Fails
<1> QED
  BY <1>1, <1>2

\* Whatever is paused, cancelled, retried, dispatched or run twice, the
\* provider takes a message at most once more than once for each incident.
THEOREM OneMessage == Spec => []SentOnce
<1>1. Init => Owed
  <2> SUFFICES ASSUME Init, NEW r \in Recipients PROVE Within(r)
    BY DEF Owed
  <2>1. Before(r) = {}
    BY DEF Init, Before
  <2>2. Cardinality(Before(r)) = 0
    BY <2>1, FS_EmptySet
  <2>3. sends[r] = 0 /\ incidents = 0 /\ Loose(r) = 1
    BY DEF Init, Loose
  <2> QED
    BY <2>2, <2>3 DEF Within
<1>2. TypeOK /\ Owed => SentOnce
  <2> SUFFICES ASSUME TypeOK, Owed, NEW r \in Recipients PROVE sends[r] <= 1 + incidents
    BY DEF SentOnce
  <2>1. /\ sends[r] \in Nat /\ incidents \in Nat
        /\ Cardinality(Before(r)) \in Nat /\ Loose(r) \in {0, 1}
    BY BeforeFinite, LooseBit DEF TypeOK
  <2>2. sends[r] + Cardinality(Before(r)) + Loose(r) <= 1 + incidents
    BY DEF Owed, Within
  <2> QED
    BY <2>1, <2>2
<1> QED
  BY <1>1, <1>2, StepOwes, Typing, PTL DEF Spec

-----------------------------------------------------------------------------
(* The ledger, the outcomes and the end of a campaign, as long as nothing    *)
(* fails: each row is held by one worker, which alone moves it and tells of  *)
(* it once, and nobody counts the open rows before all rows are written.     *)

\* Nothing has run for a campaign that can still be edited.
Unlaunched ==
    status \in Editable =>
        /\ op \in {"none", "launch", "cancel"} /\ dispatches = 0
        /\ \A B \in SUBSET Recipients : batches[B] = 0
        /\ \A w \in Workers : pc[w] = "idle"
        /\ \A r \in Recipients : row[r] = "none"

\* What the request in progress has found, and what has become of it.
Asked ==
    /\ op = "launch" => status \in Editable
    /\ op \in {"reopen", "subtract"} => retried
    /\ op \notin {"reopen", "subtract"} => undone = 0
    /\ ~retried /\ op = "skip" => status = "cancelled"
    /\ ~retried /\ op \in {"pause", "resume"} => status # "cancelled"

Written == \A r \in Recipients : row[r] # "none"
LedgerFirst ==
    /\ \A w \in Workers : pc[w] = "writing" => \A r \in Recipients \ left[w] : row[r] # "none"
    /\ sized => Written
    /\ \A B \in SUBSET Recipients : batches[B] > 0 => Written
    /\ \A w \in Workers : pc[w] \notin {"idle", "writing"} => Written

\* Outcomes are kept from the session to the commit.
Telling == Holding \cup {"delivering", "aborting", "committing"}
Told == \A w \in Workers : pc[w] # "throwing" /\ (pc[w] \notin Telling => done[w] = Nothing)

Claims ==
    \A w \in Workers : at[w] # None =>
        /\ row[at[w]] \in {"sending", "skipped"}
        /\ ~retried /\ status # "cancelled" => row[at[w]] = "sending"
        /\ at[w] \notin left[w]
        /\ \A v \in Workers : at[v] = at[w] => v = w

Outcomes ==
    \A w \in Workers :
        /\ \A r \in done[w].sent : row[r] = "sent"
        /\ \A r \in done[w].failed : r \notin left[w] /\ r # at[w]

Reached(r) == row[r] \in {"sent", "failed", "skipped"}
Finished ==
    /\ ~retried /\ status = "completed" => \A r \in Recipients : Reached(r)
    /\ \A w \in Workers : ~retried /\ status # "cancelled" /\ pc[w] = "completing" =>
           \A r \in Recipients : Reached(r)

Settled == Unlaunched /\ Asked /\ LedgerFirst /\ Told /\ Claims /\ Outcomes /\ Finished

LEMMA NothingFails ==
    ASSUME TypeOK, TypeOK', incidents' = 0, Next
    PROVE  incidents = 0 /\ (Ask \/ Save \/ \E w \in Workers : Work(w))
<1>1. ~RequestFails /\ \A w \in Workers : ~Fails(w)
  BY DEF RequestFails, Fails, Outgrow, MarkSentFails, BatchFails, JobFails, Crash, Incident, TypeOK
<1>2. Ask \/ Save \/ \E w \in Workers : Work(w)
  BY <1>1 DEF Next
<1>3. CASE Ask \/ Save
  BY <1>2, <1>3 DEF Ask, Request, Save, Launch, Pause, Resume, Cancel, SkipOpen, RetryFailed,
                    Reopen, SubtractFailed, EnqueueDispatch
<1>4. CASE \E w \in Workers : Work(w)
  <2>1. \A w \in Workers : Work(w) => incidents' = incidents \/ incidents' = incidents + 1
    BY DEF Work, Dispatch, SendBatch, TakeDispatch, Write, CountLedger, SetSize,
           RecoverStaleClaims, EnqueueBatch, Pass, EndQueueing, TakeBatch, Open, StopWhenPaused,
           Claim, Accept, Refuse, MarkSent, MarkFailed, PutBack, EndBatch, Abort, Commit,
           CountOpen, Complete, CommitAndThrow, Incident, person
  <2> QED
    BY <1>2, <1>4, <2>1 DEF TypeOK
<1> QED
  BY <1>2, <1>3, <1>4

\* What a worker's step does to the campaign, to the person and to the others.
LEMMA WorkKeeps ==
    ASSUME TypeOK, NEW w \in Workers, Work(w)
    PROVE  /\ UNCHANGED <<op, undone, retried>>
           /\ \/ status' = status
              \/ status = "sending" /\ status' \in {"paused", "completed"}
<1>1. CASE Dispatch(w) \/ SendBatch(w)
  BY <1>1 DEF Dispatch, TakeDispatch, Write, CountLedger, SetSize, RecoverStaleClaims,
              EnqueueBatch, Pass, EndQueueing, SendBatch, TakeBatch, Open, StopWhenPaused, Claim,
              Accept, Refuse, MarkSent, MarkFailed, PutBack, EndBatch, campaign, person
<1>2. CASE Abort(w) \/ Commit(w) \/ CountOpen(w) \/ Complete(w) \/ CommitAndThrow(w)
  BY <1>2 DEF Abort, Commit, CountOpen, Complete, CommitAndThrow, campaign, person
<1> QED
  BY <1>1, <1>2 DEF Work

Apart(w) ==
    \A v \in Workers \ {w} :
        pc'[v] = pc[v] /\ left'[v] = left[v] /\ at'[v] = at[v] /\ done'[v] = done[v]

LEMMA MoveKeeps ==
    ASSUME TypeOK, NEW w \in Workers, NEW x, NEW y, Move(w, x, y)
    PROVE  \A v \in Workers \ {w} : pc'[v] = pc[v]
  BY DEF Move, TypeOK

LEMMA LeaveKeeps ==
    ASSUME TypeOK, NEW w \in Workers, Leave(w)
    PROVE  Apart(w)
  BY DEF Leave, Apart, TypeOK

LEMMA WorkKeepsApart ==
    ASSUME TypeOK, NEW w \in Workers, Work(w)
    PROVE  Apart(w)
<1>1. CASE Dispatch(w)
  <2>1. CASE EndQueueing(w)
    BY <2>1, LeaveKeeps, MoveKeeps DEF EndQueueing, Apart
  <2>2. CASE TakeDispatch(w)
    BY <2>2 DEF TakeDispatch, Apart, TypeOK
  <2>3. CASE CountLedger(w) \/ SetSize(w) \/ RecoverStaleClaims(w)
    BY <2>3, MoveKeeps DEF CountLedger, SetSize, RecoverStaleClaims, Apart, TypeOK
  <2>4. CASE \/ \E r \in Recipients, s \in {"pending", "skipped"} : Write(w, r, s)
             \/ \E B \in SUBSET Recipients : EnqueueBatch(w, B)
             \/ \E r \in Recipients : Pass(w, r)
    BY <2>4 DEF Write, EnqueueBatch, Pass, Apart, TypeOK
  <2> QED
    BY <1>1, <2>1, <2>2, <2>3, <2>4 DEF Dispatch
<1>2. CASE SendBatch(w)
  <2>1. CASE \/ \E B \in SUBSET Recipients : TakeBatch(w, B)
             \/ \E r \in Recipients : Claim(w, r)
    BY <2>1 DEF TakeBatch, Claim, Apart, TypeOK
  <2>2. CASE Open(w) \/ StopWhenPaused(w) \/ Accept(w) \/ Refuse(w) \/ EndBatch(w)
    BY <2>2, MoveKeeps DEF Open, StopWhenPaused, Accept, Refuse, EndBatch, Apart, TypeOK
  <2>3. CASE MarkSent(w) \/ MarkFailed(w) \/ PutBack(w)
    <3>1. \A v \in Workers \ {w} : pc'[v] = pc[v] /\ at'[v] = at[v] /\ left'[v] = left[v]
      BY <2>3, MoveKeeps DEF MarkSent, MarkFailed, PutBack, TypeOK
    <3>2. \A v \in Workers \ {w} : done'[v] = done[v]
      BY <2>3 DEF MarkSent, MarkFailed, PutBack, TypeOK
    <3> QED
      BY <3>1, <3>2 DEF Apart
  <2> QED
    BY <1>2, <2>1, <2>2, <2>3 DEF SendBatch
<1>3. CASE Abort(w) \/ CountOpen(w) \/ Complete(w) \/ CommitAndThrow(w)
  BY <1>3, LeaveKeeps, MoveKeeps DEF Abort, CountOpen, Complete, CommitAndThrow, Apart
<1>4. CASE Commit(w)
  <2>1. \A v \in Workers \ {w} : done'[v] = done[v]
    BY <1>4 DEF Commit, TypeOK
  <2> QED
    BY <1>4, <2>1, MoveKeeps DEF Commit, Apart
<1> QED
  BY <1>1, <1>2, <1>3, <1>4 DEF Work

\* What a worker's step does to a row.
LEMMA WorkMovesRow ==
    ASSUME TypeOK, NEW w \in Workers, Work(w), UNCHANGED incidents, NEW r \in Recipients
    PROVE  \/ row'[r] = row[r]
           \/ row[r] = "none" /\ row'[r] \in {"pending", "skipped"}
           \/ row[r] = "sending" /\ ~Held(r) /\ row'[r] = "pending"
           \/ row[r] = "pending" /\ row'[r] = "sending" /\ at'[w] = r
           \/ row[r] # "none" /\ at[w] = r /\ at'[w] = None /\ row'[r] \in {"sent", "failed", "pending"}
<1>1. CASE Dispatch(w)
  <2>1. CASE \E q \in Recipients, s \in {"pending", "skipped"} : Write(w, q, s)
    BY <2>1 DEF Write, TypeOK
  <2>2. CASE RecoverStaleClaims(w)
    BY <2>2 DEF RecoverStaleClaims, Incident, Stale, TypeOK
  <2>3. CASE UNCHANGED row
    BY <2>3
  <2> QED
    BY <1>1, <2>1, <2>2, <2>3 DEF Dispatch, TakeDispatch, CountLedger, SetSize, EnqueueBatch, Pass,
       EndQueueing
<1>2. CASE SendBatch(w)
  <2>1. CASE \E q \in Recipients : Claim(w, q)
    BY <2>1 DEF Claim, Claimable, TypeOK
  <2>2. CASE MarkSent(w) \/ MarkFailed(w) \/ PutBack(w)
    <3>1. /\ at[w] \in Recipients /\ at'[w] = None
          /\ \E s \in {"sent", "failed", "pending"} : Mark(at[w], s)
      BY <2>2 DEF MarkSent, MarkFailed, PutBack, Move, Holding, TypeOK
    <3> QED
      BY <3>1 DEF Mark, TypeOK
  <2>3. CASE UNCHANGED row
    BY <2>3
  <2> QED
    BY <1>2, <2>1, <2>2, <2>3 DEF SendBatch, TakeBatch, Open, StopWhenPaused, Accept, Refuse, EndBatch
<1>3. CASE Abort(w) \/ Commit(w) \/ CountOpen(w) \/ Complete(w) \/ CommitAndThrow(w)
  BY <1>3 DEF Abort, Commit, CountOpen, Complete, CommitAndThrow
<1> QED
  BY <1>1, <1>2, <1>3 DEF Work

\* A worker keeps its row, lets it go, or claims one of those before it.
LEMMA WorkMovesHand ==
    ASSUME TypeOK, NEW w \in Workers, Work(w)
    PROVE  \/ at'[w] = at[w] \/ at'[w] = None
           \/ /\ at'[w] \in left[w] /\ row[at'[w]] = "pending" /\ row'[at'[w]] = "sending"
              /\ left'[w] = left[w] \ {at'[w]} /\ at'[w] \in Recipients
<1> USE DEF TypeOK
<1>1. CASE \E r \in Recipients : Claim(w, r)
  BY <1>1 DEF Claim, Claimable
<1>2. CASE MarkSent(w) \/ MarkFailed(w) \/ PutBack(w)
  BY <1>2 DEF MarkSent, MarkFailed, PutBack
<1>3. CASE EndQueueing(w) \/ Abort(w) \/ CountOpen(w) \/ Complete(w) \/ CommitAndThrow(w)
  BY <1>3 DEF EndQueueing, Abort, CountOpen, Complete, CommitAndThrow, Leave
<1>4. CASE UNCHANGED at
  BY <1>4
<1> QED
  BY <1>1, <1>2, <1>3, <1>4 DEF Work, Dispatch, SendBatch, TakeDispatch, Write, CountLedger,
     SetSize, RecoverStaleClaims, EnqueueBatch, Pass, TakeBatch, Open, StopWhenPaused, Accept,
     Refuse, EndBatch, Commit

\* A row that is written stays written.
LEMMA WorkKeepsWritten ==
    ASSUME TypeOK, NEW w \in Workers, Work(w), UNCHANGED incidents
    PROVE  /\ \A r \in Recipients : row[r] # "none" => row'[r] # "none"
           /\ Written => Written'
<1>1. \A r \in Recipients : row[r] # "none" => row'[r] # "none"
  BY WorkMovesRow
<1> QED
  BY <1>1 DEF Written

LEMMA WorkIsLaunched ==
    ASSUME TypeOK, Unlaunched, NEW w \in Workers, Work(w)
    PROVE  status \notin Editable /\ status' \notin Editable
<1>1. pc[w] = "idle" => \/ dispatches > 0
                        \/ \E B \in SUBSET Recipients : batches[B] > 0
  BY DEF Work, Dispatch, SendBatch, TakeDispatch, Write, CountLedger, SetSize,
         RecoverStaleClaims, EnqueueBatch, Pass, EndQueueing, TakeBatch, Open, StopWhenPaused,
         Claim, Accept, Refuse, MarkSent, MarkFailed, PutBack, EndBatch, Abort, Commit,
         CountOpen, Complete, CommitAndThrow, Move
<1>2. status \notin Editable
  BY <1>1 DEF Unlaunched
<1> QED
  BY <1>2, WorkKeeps DEF Editable

LEMMA WorkKeepsUnlaunched ==
    ASSUME TypeOK, Unlaunched, NEW w \in Workers, Work(w)
    PROVE  Unlaunched'
  BY WorkIsLaunched DEF Unlaunched

LEMMA WorkKeepsAsked ==
    ASSUME TypeOK, Unlaunched, Asked, NEW w \in Workers, Work(w)
    PROVE  Asked'
  BY WorkKeeps, WorkIsLaunched DEF Asked

LEMMA WorkKeepsLedgerFirst ==
    ASSUME TypeOK, LedgerFirst, NEW w \in Workers, Work(w), UNCHANGED incidents
    PROVE  LedgerFirst'
<1> USE WorkKeepsWritten
<1>1. Apart(w)
  BY WorkKeepsApart
<1>2. ASSUME NEW v \in Workers \ {w}
      PROVE  /\ pc'[v] = "writing" => \A r \in Recipients \ left'[v] : row'[r] # "none"
             /\ pc'[v] \notin {"idle", "writing"} => Written'
  BY <1>1, <1>2 DEF Apart, LedgerFirst
<1>3. ASSUME pc'[w] \notin {"idle", "writing"} => Written',
             pc'[w] = "writing" => \A r \in Recipients \ left'[w] : row'[r] # "none",
             sized' => Written',
             \A B \in SUBSET Recipients : batches'[B] > 0 => Written'
      PROVE  LedgerFirst'
  BY <1>2, <1>3 DEF LedgerFirst
<1>4. CASE Written
  BY <1>3, <1>4 DEF Written
<1>5. CASE ~Written
  <2>1. /\ pc[w] \in {"idle", "writing"} /\ ~sized
        /\ \A B \in SUBSET Recipients : ~(batches[B] > 0)
    BY <1>5 DEF LedgerFirst
  <2>2. CASE TakeDispatch(w)
    <3>1. pc'[w] \in {"idle", "writing"} /\ (pc'[w] = "writing" => left'[w] = Recipients)
      BY <2>1, <2>2 DEF TakeDispatch, TypeOK
    <3> QED
      BY <2>1, <2>2, <3>1, <1>3 DEF TakeDispatch, campaign
  <2>3. CASE \E r \in Recipients, s \in {"pending", "skipped"} : Write(w, r, s)
    <3>1. PICK r \in Recipients, s \in {"pending", "skipped"} : Write(w, r, s)
      BY <2>3
    <3>2. pc'[w] = "writing" /\ left'[w] = left[w] \ {r} /\ row'[r] # "none" /\ pc[w] = "writing"
      BY <3>1 DEF Write, TypeOK
    <3>3. \A q \in Recipients \ left'[w] : row'[q] # "none"
      BY <3>2 DEF LedgerFirst
    <3>4. ~sized' /\ \A B \in SUBSET Recipients : ~(batches'[B] > 0)
      BY <2>1, <3>1 DEF Write, campaign, queue
    <3> QED
      BY <3>2, <3>3, <3>4, <1>3
  <2>4. CASE CountLedger(w)
    <3>1. \A r \in Recipients : row[r] # "none"
      BY <2>4 DEF CountLedger, Move, LedgerFirst
    <3> QED
      BY <1>5, <3>1 DEF Written
  <2> QED
    BY <2>1, <2>2, <2>3, <2>4
       DEF Work, Dispatch, SendBatch, SetSize, RecoverStaleClaims, EnqueueBatch, Pass, EndQueueing,
           TakeBatch, Open, StopWhenPaused, Claim, Accept, Refuse, MarkSent, MarkFailed, PutBack,
           EndBatch, Abort, Commit, CountOpen, Complete, CommitAndThrow, Move
<1> QED
  BY <1>4, <1>5

LEMMA WorkKeepsTold ==
    ASSUME TypeOK, Told, NEW w \in Workers, Work(w)
    PROVE  Told'
<1>1. Apart(w)
  BY WorkKeepsApart
<1>2. pc'[w] # "throwing" /\ (pc'[w] \notin Telling => done'[w] = Nothing)
  <2> USE DEF TypeOK, Told, Telling, Holding
  <2>1. CASE Dispatch(w)
    BY <2>1 DEF Dispatch, TakeDispatch, Write, CountLedger, SetSize, RecoverStaleClaims,
                EnqueueBatch, Pass, EndQueueing, Move, Leave
  <2>2. CASE SendBatch(w)
    BY <2>2 DEF SendBatch, TakeBatch, Open, StopWhenPaused, Claim, Accept, Refuse, MarkSent,
                MarkFailed, PutBack, EndBatch, Move
  <2>3. CASE Abort(w) \/ Commit(w) \/ CountOpen(w) \/ Complete(w) \/ CommitAndThrow(w)
    BY <2>3 DEF Abort, Commit, CountOpen, Complete, CommitAndThrow, Move, Leave
  <2> QED
    BY <2>1, <2>2, <2>3 DEF Work
<1> QED
  BY <1>1, <1>2 DEF Told, Apart

LEMMA WorkKeepsClaims ==
    ASSUME TypeOK, TypeOK', Claims, LedgerFirst, NEW w \in Workers, Work(w), UNCHANGED incidents
    PROVE  Claims'
<1>1. Apart(w) /\ UNCHANGED retried /\ (status' # "cancelled" => status # "cancelled")
  BY WorkKeepsApart, WorkKeeps
<1>2. \A v \in Workers : at'[v] # None => at'[v] \in Recipients
  BY DEF TypeOK
<1>3. CASE at'[w] \in left[w] /\ row[at'[w]] = "pending" /\ row'[at'[w]] = "sending"
           /\ left'[w] = left[w] \ {at'[w]} /\ at'[w] \in Recipients
  <2>1. \A v \in Workers : at[v] # at'[w]
    BY <1>3 DEF Claims
  <2>2. ASSUME NEW v \in Workers \ {w}, at'[v] # None
        PROVE  /\ row'[at'[v]] = row[at'[v]]
               /\ at'[v] = at[v] /\ left'[v] = left[v] /\ at[v] # None
    BY <1>1, <1>2, <2>1, <2>2, WorkMovesRow DEF Apart, Claims, Held
  <2> QED
    BY <1>1, <1>3, <2>1, <2>2 DEF Claims, Apart
<1>4. CASE at'[w] = at[w] \/ at'[w] = None
  <2>1. ASSUME NEW v \in Workers \ {w}, at'[v] # None
        PROVE  /\ row'[at'[v]] = row[at'[v]]
               /\ at'[v] = at[v] /\ left'[v] = left[v] /\ at[v] # None
    <3>1. at'[v] = at[v] /\ left'[v] = left[v] /\ at[v] \in Recipients /\ at[v] # None /\ at[w] # at[v]
      BY <1>1, <1>2, <2>1 DEF Apart, Claims
    <3>2. row[at[v]] \in {"sending", "skipped"} /\ Held(at[v])
      BY <3>1 DEF Claims, Held
    <3>3. at'[w] # at[v]
      BY <1>4, <3>1
    <3>4. row'[at[v]] = row[at[v]]
      BY <3>1, <3>2, <3>3, WorkMovesRow
    <3> QED
      BY <3>1, <3>4
  <2>2. ASSUME at'[w] # None
        PROVE  row'[at'[w]] = row[at'[w]] /\ at'[w] = at[w] /\ at'[w] \notin left'[w]
    <3>1. at'[w] = at[w] /\ at[w] \in Recipients
      BY <1>2, <1>4, <2>2
    <3>2. row[at[w]] \in {"sending", "skipped"} /\ Held(at[w])
      BY <3>1, <2>2 DEF Claims, Held
    <3>3. row'[at[w]] = row[at[w]]
      BY <2>2, <3>1, <3>2, WorkMovesRow
    <3>4. pc[w] \in Holding /\ pc'[w] \in Holding
      BY <2>2, <3>1 DEF TypeOK
    <3>5. left'[w] = left[w]
      BY <3>4 DEF Work, Dispatch, SendBatch, TakeDispatch, Write, CountLedger, SetSize,
           RecoverStaleClaims, EnqueueBatch, Pass, EndQueueing, TakeBatch, Open, StopWhenPaused,
           Claim, Accept, Refuse, MarkSent, MarkFailed, PutBack, EndBatch, Abort, Commit,
           CountOpen, Complete, CommitAndThrow, Move, Leave, Holding, TypeOK
    <3> QED
      BY <2>2, <3>1, <3>3, <3>5 DEF Claims
  <2> QED
    BY <1>1, <2>1, <2>2 DEF Claims
<1> QED
  BY <1>3, <1>4, WorkMovesHand

\* What a worker keeps of the outcomes of its job.
LEMMA WorkTells ==
    ASSUME TypeOK, Told, NEW w \in Workers, Work(w)
    PROVE  \/ UNCHANGED done
           \/ MarkSent(w) \/ MarkFailed(w) \/ Commit(w)
<1>1. ASSUME Leave(w), pc[w] \notin Telling PROVE UNCHANGED done
  BY <1>1 DEF Leave, Told, TypeOK
<1>2. CASE EndQueueing(w) \/ Abort(w) \/ CountOpen(w) \/ Complete(w) \/ CommitAndThrow(w)
  BY <1>1, <1>2 DEF EndQueueing, Abort, CountOpen, Complete, CommitAndThrow, Told, Telling, Holding
<1> QED
  BY <1>2 DEF Work, Dispatch, SendBatch, TakeDispatch, Write, CountLedger, SetSize,
     RecoverStaleClaims, EnqueueBatch, Pass, TakeBatch, Open, StopWhenPaused, Claim, Accept,
     Refuse, PutBack, EndBatch

\* A worker with outcomes takes no new rows to its job.
LEMMA WorkTakesNoMore ==
    ASSUME TypeOK, Told, NEW w \in Workers, Work(w)
    PROVE  done[w] = Nothing \/ left'[w] \subseteq left[w]
<1> USE DEF TypeOK, Told, Telling, Holding
<1>1. CASE \/ TakeDispatch(w) \/ CountLedger(w) \/ SetSize(w) \/ RecoverStaleClaims(w)
           \/ \E B \in SUBSET Recipients : TakeBatch(w, B)
  BY <1>1 DEF TakeDispatch, CountLedger, SetSize, RecoverStaleClaims, TakeBatch, Move
<1>2. CASE \/ EndQueueing(w) \/ Abort(w) \/ Commit(w) \/ CountOpen(w) \/ Complete(w)
           \/ CommitAndThrow(w) \/ Open(w) \/ StopWhenPaused(w) \/ PutBack(w)
  BY <1>2 DEF EndQueueing, Abort, Commit, CountOpen, Complete, CommitAndThrow, Leave, Open,
              StopWhenPaused, PutBack
<1>3. CASE \/ \E r \in Recipients, s \in {"pending", "skipped"} : Write(w, r, s)
           \/ \E r \in Recipients : Claim(w, r)
           \/ \E r \in Recipients : Pass(w, r)
           \/ \E B \in SUBSET Recipients : EnqueueBatch(w, B)
  BY <1>3 DEF Write, Claim, Pass, EnqueueBatch
<1>4. CASE Accept(w) \/ Refuse(w) \/ MarkSent(w) \/ MarkFailed(w) \/ EndBatch(w)
  BY <1>4 DEF Accept, Refuse, MarkSent, MarkFailed, EndBatch
<1> QED
  BY <1>1, <1>2, <1>3, <1>4 DEF Work, Dispatch, SendBatch

\* A row whose outcome is known stays as it is, as long as nobody retries it.
LEMMA WorkKeepsOutcome ==
    ASSUME TypeOK, Claims, NEW w \in Workers, Work(w), UNCHANGED incidents, NEW r \in Recipients
    PROVE  /\ row[r] \in {"sent", "failed"} => row'[r] = row[r]
           /\ ~retried /\ status # "cancelled" /\ Reached(r) => row'[r] = row[r]
<1>1. at[w] = r => row[r] \in {"sending", "skipped"}
  BY DEF Claims, TypeOK
<1>2. at[w] = r /\ ~retried /\ status # "cancelled" => row[r] = "sending"
  BY DEF Claims, TypeOK
<1> QED
  BY <1>1, <1>2, WorkMovesRow DEF Reached

LEMMA WorkKeepsOutcomes ==
    ASSUME TypeOK, TypeOK', Told, Claims, Outcomes, NEW w \in Workers, Work(w), UNCHANGED incidents
    PROVE  Outcomes'
<1> SUFFICES ASSUME NEW v \in Workers
             PROVE  /\ \A r \in done'[v].sent : row'[r] = "sent"
                    /\ \A r \in done'[v].failed : r \notin left'[v] /\ r # at'[v]
  BY DEF Outcomes
<1>1. /\ done[v].sent \subseteq Recipients /\ done[v].failed \subseteq Recipients
      /\ \A r \in done[v].sent : row[r] = "sent"
      /\ \A r \in done[v].failed : r \notin left[v] /\ r # at[v]
  BY DEF TypeOK, Outcomes
<1>2. \A r \in done[v].sent : row'[r] = "sent"
  BY <1>1, WorkKeepsOutcome
<1>3. \A r \in done[v].failed : r \notin left'[v] /\ r # at'[v]
  <2>1. CASE v # w
    BY <1>1, <2>1, WorkKeepsApart DEF Apart
  <2>2. CASE v = w /\ done[w] = Nothing
    BY <2>2 DEF Nothing
  <2>3. CASE v = w /\ left'[w] \subseteq left[w]
    BY <1>1, <2>3, WorkMovesHand DEF TypeOK
  <2> QED
    BY <2>1, <2>2, <2>3, WorkTakesNoMore
<1>4. CASE done'[v] = done[v]
  BY <1>2, <1>3, <1>4
<1>5. CASE v = w /\ MarkSent(w)
  <2>1. at[w] \in Recipients /\ row[at[w]] # "none"
    BY <1>5 DEF MarkSent, Move, Holding, Claims, TypeOK
  <2>2. row'[at[w]] = "sent"
    BY <1>5, <2>1 DEF MarkSent, Mark, TypeOK
  <2>3. done'[w].sent = done[w].sent \cup {at[w]} /\ done'[w].failed = done[w].failed
    BY <1>5 DEF MarkSent, TypeOK
  <2> QED
    BY <1>2, <1>3, <1>5, <2>2, <2>3
<1>6. CASE v = w /\ MarkFailed(w)
  <2>1. at[w] \in Recipients /\ at[w] \notin left[w]
    BY <1>6 DEF MarkFailed, Move, Holding, Claims, TypeOK
  <2>2. left'[w] = left[w] /\ at'[w] = None
    BY <1>6 DEF MarkFailed, TypeOK
  <2>3. done'[w].failed = done[w].failed \cup {at[w]} /\ done'[w].sent = done[w].sent
    BY <1>6 DEF MarkFailed, TypeOK
  <2> QED
    BY <1>2, <1>3, <1>6, <2>1, <2>2, <2>3
<1>7. CASE v = w /\ Commit(w)
  BY <1>7 DEF Commit, Nothing, TypeOK
<1> QED
  BY <1>4, <1>5, <1>6, <1>7, WorkTells, WorkKeepsApart DEF Apart

LEMMA WorkKeepsFinished ==
    ASSUME TypeOK, Claims, LedgerFirst, Finished, NEW w \in Workers, Work(w), UNCHANGED incidents
    PROVE  Finished'
<1>1. Apart(w) /\ UNCHANGED retried
  BY WorkKeepsApart, WorkKeeps
<1>2. \/ status' = status
      \/ status = "sending" /\ status' \in {"paused", "completed"}
  BY WorkKeeps
<1>3. ASSUME ~retried, status # "cancelled", \A r \in Recipients : Reached(r)
      PROVE  \A r \in Recipients : Reached(r)'
  BY <1>3, WorkKeepsOutcome DEF Reached
<1>4. ASSUME ~retried, status = "completed" PROVE \A r \in Recipients : Reached(r)'
  BY <1>3, <1>4 DEF Finished
<1>5. ASSUME ~retried, status # "cancelled", NEW v \in Workers, pc[v] = "completing"
      PROVE  \A r \in Recipients : Reached(r)'
  BY <1>3, <1>5 DEF Finished
<1>6. ASSUME ~retried, status' = "completed", status # "completed"
      PROVE  \A r \in Recipients : Reached(r)'
  <2>1. Complete(w)
    BY <1>6 DEF Work, Dispatch, SendBatch, TakeDispatch, Write, CountLedger, SetSize,
       RecoverStaleClaims, EnqueueBatch, Pass, EndQueueing, TakeBatch, Open, StopWhenPaused, Claim,
       Accept, Refuse, MarkSent, MarkFailed, PutBack, EndBatch, Abort, Commit, CountOpen,
       CommitAndThrow, campaign
  <2> QED
    BY <1>2, <1>5, <1>6, <2>1 DEF Complete
<1>7. ASSUME ~retried, status # "cancelled", pc'[w] = "completing", pc[w] # "completing"
      PROVE  \A r \in Recipients : Reached(r)'
  <2>1. CountOpen(w) /\ Status(Unfinished) = {} /\ pc[w] = "counting"
    <3> USE DEF TypeOK, Move, Leave
    <3>1. CASE Dispatch(w)
      BY <1>7, <3>1 DEF Dispatch, TakeDispatch, Write, CountLedger, SetSize, RecoverStaleClaims,
                  EnqueueBatch, Pass, EndQueueing
    <3>2. CASE SendBatch(w)
      BY <1>7, <3>2 DEF SendBatch, TakeBatch, Open, StopWhenPaused, Claim, Accept, Refuse, MarkSent,
                  MarkFailed, PutBack, EndBatch
    <3>3. CASE Abort(w) \/ Commit(w) \/ CountOpen(w) \/ Complete(w) \/ CommitAndThrow(w)
      BY <1>7, <3>3 DEF Abort, Commit, CountOpen, Complete, CommitAndThrow
    <3> QED
      BY <3>1, <3>2, <3>3 DEF Work
  <2>2. Written
    BY <2>1 DEF LedgerFirst
  <2> QED
    BY <1>3, <1>7, <2>1, <2>2 DEF Written, Status, Reached, Unfinished, TypeOK
<1>8. ASSUME ~retried, status' = "completed" PROVE \A r \in Recipients : Reached(r)'
  BY <1>4, <1>6, <1>8
<1>9. ASSUME NEW v \in Workers, ~retried, status' # "cancelled", pc'[v] = "completing"
      PROVE  \A r \in Recipients : Reached(r)'
  BY <1>1, <1>2, <1>5, <1>7, <1>9 DEF Apart
<1> QED
  BY <1>1, <1>8, <1>9 DEF Finished

LEMMA PersonKeepsSettled ==
    ASSUME TypeOK, TypeOK', Settled, Ask \/ Save
    PROVE  Settled'
<1> USE DEF Settled
<1>1. UNCHANGED worker /\ UNCHANGED batches
  BY DEF Ask, Request, Save, Launch, Pause, Resume, Cancel, SkipOpen, RetryFailed, Reopen,
         SubtractFailed, EnqueueDispatch, queue
<1>2. Told'
  BY <1>1 DEF Told, worker
<1>3. CASE Ask
  BY <1>1, <1>2, <1>3 DEF Ask, Request, Unlaunched, Asked, LedgerFirst, Written, Claims, Outcomes,
     Finished, Reached, worker, campaign, queue, Editable
<1>4. CASE \E s \in {"scheduled", "sending"} : Launch(s)
  BY <1>1, <1>2, <1>4 DEF Launch, Unlaunched, Asked, LedgerFirst, Written, Claims, Outcomes,
     Finished, Reached, worker, queue, Editable
<1>5. CASE Pause \/ Resume \/ Cancel \/ Reopen \/ SubtractFailed \/ EnqueueDispatch
  <2>1. UNCHANGED <<row, retried, sized>>
    BY <1>5 DEF Pause, Resume, Cancel, Reopen, SubtractFailed, EnqueueDispatch, campaign
  <2>2. LedgerFirst' /\ Outcomes'
    BY <1>1, <2>1 DEF LedgerFirst, Written, Outcomes, worker
  <2>3. ~retried' => /\ status' # "cancelled" => status # "cancelled"
                     /\ status' = "completed" => status = "completed"
    BY <1>5 DEF Pause, Resume, Cancel, Reopen, SubtractFailed, EnqueueDispatch, Asked, campaign
  <2>4. Claims' /\ Finished'
    BY <1>1, <2>1, <2>3 DEF Claims, Finished, Reached, worker
  <2>5. Unlaunched'
    BY <1>5 DEF Pause, Resume, Cancel, Reopen, SubtractFailed, EnqueueDispatch, Unlaunched,
                Editable, campaign, queue, worker
  <2>6. Asked'
    BY <1>5 DEF Pause, Resume, Cancel, Reopen, SubtractFailed, EnqueueDispatch, Asked, campaign
  <2> QED
    BY <1>2, <2>2, <2>4, <2>5, <2>6
<1>6. CASE SkipOpen
  <2>1. /\ UNCHANGED <<status, sized, undone, retried, dispatches>>
        /\ op = "skip" /\ op' = "none" /\ (~retried => status = "cancelled")
        /\ row' = [r \in Recipients |-> IF row[r] \in Unfinished THEN "skipped" ELSE row[r]]
    BY <1>6 DEF SkipOpen, Asked, campaign, queue
  <2>2. \A r \in Recipients : row[r] # "none" => row'[r] # "none"
    BY <2>1
  <2>3. LedgerFirst'
    BY <1>1, <2>1, <2>2 DEF LedgerFirst, Written, worker, TypeOK
  <2>4. Outcomes'
    BY <1>1, <2>1 DEF Outcomes, worker, Unfinished, TypeOK
  <2>5. Finished'
    BY <1>1, <2>1 DEF Finished, Reached, worker
  <2>6. Claims'
    <3>1. \A r \in Recipients : row[r] \in {"sending", "skipped"} => row'[r] = "skipped"
      BY <2>1 DEF Unfinished
    <3> QED
      BY <1>1, <2>1, <3>1 DEF Claims, worker, TypeOK
  <2>7. Unlaunched' /\ Asked'
    BY <2>1 DEF Unlaunched, Asked, Editable
  <2> QED
    BY <1>2, <2>3, <2>4, <2>5, <2>6, <2>7
<1>7. CASE RetryFailed
  <2>1. /\ UNCHANGED <<status, sized, dispatches>> /\ op = "retry" /\ op' \in {"none", "reopen"}
        /\ row' = [r \in Recipients |-> IF row[r] = "failed" THEN "pending" ELSE row[r]]
    BY <1>7 DEF RetryFailed, campaign, queue
  <2>2. retried => retried'
    BY <1>7 DEF RetryFailed
  <2>3. ASSUME ~retried' PROVE row' = row
    <3>1. Status({"failed"}) = {}
      BY <1>7, <2>3 DEF RetryFailed
    <3>2. \A r \in Recipients : row[r] # "failed"
      BY <3>1 DEF Status
    <3> QED
      BY <2>1, <3>2 DEF TypeOK
  <2>4. LedgerFirst'
    BY <1>1, <2>1 DEF LedgerFirst, Written, worker, TypeOK
  <2>5. Outcomes'
    BY <1>1, <2>1 DEF Outcomes, worker, TypeOK
  <2>6. Finished'
    BY <1>1, <2>1, <2>2, <2>3 DEF Finished, Reached, worker
  <2>7. Claims'
    BY <1>1, <2>1, <2>2, <2>3 DEF Claims, worker, TypeOK
  <2>8. Unlaunched'
    BY <2>1 DEF Unlaunched
  <2>9. Asked'
    <3>1. CASE Status({"failed"}) = {}
      BY <1>7, <2>1, <3>1, FS_EmptySet DEF RetryFailed, Asked
    <3>2. CASE Status({"failed"}) # {}
      BY <1>7, <2>1, <3>2 DEF RetryFailed, Asked
    <3> QED
      BY <3>1, <3>2
  <2> QED
    BY <1>2, <2>4, <2>5, <2>6, <2>7, <2>8, <2>9
<1> QED
  BY <1>3, <1>4, <1>5, <1>6, <1>7 DEF Save


\* Until something fails.
SettledFirst == incidents = 0 => Settled

LEMMA StepSettles ==
    TypeOK /\ TypeOK' /\ SettledFirst /\ [Next]_vars => SettledFirst'
<1> SUFFICES ASSUME TypeOK, TypeOK', incidents = 0 => Settled, [Next]_vars, incidents' = 0
             PROVE  Settled'
  BY DEF SettledFirst
<1>1. CASE UNCHANGED vars
  BY <1>1 DEF vars, campaign, queue, worker, person, Settled, Unlaunched, Asked, LedgerFirst,
     Written, Told, Claims, Outcomes, Finished, Reached
<1>2. CASE Next
  <2>1. Settled /\ incidents' = incidents
    BY <1>2, NothingFails
  <2>2. CASE Ask \/ Save
    BY <2>1, <2>2, PersonKeepsSettled
  <2>3. ASSUME NEW w \in Workers, Work(w) PROVE Settled'
    BY <2>1, <2>3, WorkKeepsUnlaunched, WorkKeepsAsked, WorkKeepsLedgerFirst, WorkKeepsTold,
       WorkKeepsClaims, WorkKeepsOutcomes, WorkKeepsFinished DEF Settled
  <2> QED
    BY <1>2, <2>2, <2>3, NothingFails
<1> QED
  BY <1>1, <1>2

LEMMA Settles == Spec => []SettledFirst
<1>1. Init => SettledFirst
  BY DEF Init, SettledFirst, Settled, Unlaunched, Asked, LedgerFirst, Written, Told, Telling, Holding, Claims,
         Outcomes, Finished, Nothing
<1> QED
  BY <1>1, StepSettles, Typing, PTL DEF Spec

\* A worker that completes the campaign has counted the open rows when all rows
\* were written; until a retry no row leaves its outcome, whatever the person,
\* the other jobs and the jobs that run twice do in between.
THEOREM CompletedLeavesNobody == Spec => []CompletedIsDone
<1>1. SettledFirst => CompletedIsDone
  BY DEF SettledFirst, Settled, Finished, Reached, CompletedIsDone
<1> QED
  BY <1>1, Settles, PTL

-----------------------------------------------------------------------------
(* The counters: the outcomes that workers keep are those which the ledger   *)
(* has and the counters do not.                                              *)

SentBy == [w \in Workers |-> done[w].sent]
FailedBy == [w \in Workers |-> done[w].failed]
Kept(D) == {x \in Workers \X Recipients : x[2] \in D[x[1]]}
Part(w, S) == {w} \X S

Tallied ==
    /\ stats.sent + Cardinality(Kept(SentBy)) = Cardinality(Status({"sent"}))
    /\ stats.failed + Cardinality(Kept(FailedBy)) = Cardinality(Status({"failed"})) + undone

LEMMA KeptFinite == \A D : IsFiniteSet(Kept(D)) /\ Cardinality(Kept(D)) \in Nat
<1>1. IsFiniteSet(Workers \X Recipients)
  BY FS_Product
<1>2. \A D : Kept(D) \in SUBSET (Workers \X Recipients)
  BY DEF Kept
<1> QED
  BY <1>1, <1>2, FS_Subset, FS_CardinalityType

LEMMA StatusFinite == \A S : IsFiniteSet(Status(S)) /\ Cardinality(Status(S)) \in Nat
  BY Finite DEF Status

LEMMA KeptNothing ==
    ASSUME NEW D, \A w \in Workers : D[w] = {}
    PROVE  Cardinality(Kept(D)) = 0
<1>1. Kept(D) = {}
  BY DEF Kept
<1> QED
  BY <1>1, FS_EmptySet

\* A worker adds an outcome to those it keeps.
LEMMA KeptOneMore ==
    ASSUME NEW D \in [Workers -> SUBSET Recipients], NEW E \in [Workers -> SUBSET Recipients],
           NEW w \in Workers, NEW r \in Recipients, r \notin D[w],
           E = [D EXCEPT ![w] = D[w] \cup {r}]
    PROVE  Cardinality(Kept(E)) = Cardinality(Kept(D)) + 1
<1>1. Kept(E) = Kept(D) \cup {<<w, r>>}
  BY DEF Kept
<1>2. <<w, r>> \notin Kept(D)
  BY DEF Kept
<1> QED
  BY <1>1, <1>2, KeptFinite, FS_AddElement

\* A worker gives away all it keeps.
LEMMA KeptGivenAway ==
    ASSUME NEW D \in [Workers -> SUBSET Recipients], NEW E \in [Workers -> SUBSET Recipients],
           NEW w \in Workers, E = [D EXCEPT ![w] = {}]
    PROVE  Cardinality(Kept(D)) = Cardinality(Kept(E)) + Cardinality(D[w])
<1>1. Kept(D) = Kept(E) \cup Part(w, D[w]) /\ Kept(E) \cap Part(w, D[w]) = {}
  BY DEF Kept, Part
<1>2. IsFiniteSet(D[w]) /\ Cardinality(D[w]) \in Nat
  BY Finite
<1>3. IsFiniteSet(Part(w, D[w])) /\ Cardinality(Part(w, D[w])) = Cardinality(D[w])
  <2>1. IsFiniteSet({w}) /\ Cardinality({w}) = 1
    BY FS_Singleton
  <2>2. IsFiniteSet({w} \X D[w]) /\ Cardinality({w} \X D[w]) = Cardinality({w}) * Cardinality(D[w])
    BY <1>2, <2>1, FS_Product
  <2>3. 1 * Cardinality(D[w]) = Cardinality(D[w])
    BY <1>2
  <2> QED
    BY <2>1, <2>2, <2>3 DEF Part
<1>4. Cardinality(Kept(D)) = Cardinality(Kept(E)) + Cardinality(Part(w, D[w])) - Cardinality({})
  BY <1>1, <1>3, KeptFinite, FS_Union
<1> QED
  BY <1>2, <1>3, <1>4, KeptFinite, FS_EmptySet

\* A row that gets an outcome adds one to the rows with this outcome, and
\* leaves the rows with the other one.
LEMMA OneMoreRow ==
    ASSUME TypeOK, NEW r \in Recipients, NEW s \in {"sent", "failed"}, Mark(r, s),
           row[r] \notin {"none", "sent", "failed"}
    PROVE  /\ Cardinality(Status({s})') = Cardinality(Status({s})) + 1
           /\ \A t \in {"sent", "failed"} \ {s} : Status({t})' = Status({t})
<1>1. row' = [row EXCEPT ![r] = s]
  BY DEF Mark
<1>2. Status({s})' = Status({s}) \cup {r} /\ r \notin Status({s})
  BY <1>1 DEF Status, TypeOK
<1>3. \A t \in {"sent", "failed"} \ {s} : Status({t})' = Status({t})
  BY <1>1 DEF Status, TypeOK
<1> QED
  BY <1>2, <1>3, StatusFinite, FS_AddElement

\* The counters, what is kept, and the outcomes in the ledger stay as they are.
LEMMA TallyStays ==
    ASSUME Tallied, UNCHANGED <<stats, undone, done>>,
           \A s \in {"sent", "failed"} : Status({s})' = Status({s})
    PROVE  Tallied'
<1>1. Kept(SentBy)' = Kept(SentBy) /\ Kept(FailedBy)' = Kept(FailedBy)
  BY DEF Kept, SentBy, FailedBy
<1> QED
  BY <1>1 DEF Tallied

LEMMA PersonKeepsTally ==
    ASSUME TypeOK, TypeOK', Settled, Tallied, Ask \/ Save
    PROVE  Tallied'
<1> USE DEF Settled
<1>1. UNCHANGED done
  BY DEF Ask, Request, Save, Launch, Pause, Resume, Cancel, SkipOpen, RetryFailed, Reopen,
         SubtractFailed, EnqueueDispatch, worker
<1>2. CASE Ask \/ Pause \/ Resume \/ Cancel \/ Reopen \/ EnqueueDispatch
  <2>1. UNCHANGED <<stats, undone, row>>
    BY <1>2 DEF Ask, Request, Pause, Resume, Cancel, Reopen, EnqueueDispatch, campaign
  <2> QED
    BY <1>1, <2>1, TallyStays DEF Status
<1>3. CASE \E s \in {"scheduled", "sending"} : Launch(s)
  <2>1. /\ stats' = [sent |-> 0, failed |-> 0] /\ UNCHANGED <<row, undone>> /\ op = "launch"
    BY <1>3 DEF Launch
  <2>2. /\ \A w \in Workers : done[w] = Nothing
        /\ \A r \in Recipients : row[r] = "none"
        /\ undone = 0
    BY <2>1 DEF Asked, Unlaunched, Told, Telling, Holding
  <2>3. Cardinality(Kept(SentBy)') = 0 /\ Cardinality(Kept(FailedBy)') = 0
    <3>1. \A w \in Workers : SentBy'[w] = {} /\ FailedBy'[w] = {}
      BY <1>1, <2>2 DEF SentBy, FailedBy, Nothing
    <3>2. Cardinality(Kept(SentBy')) = 0 /\ Cardinality(Kept(FailedBy')) = 0
      BY <3>1, KeptNothing
    <3> QED
      BY <3>2 DEF Kept
  <2>4. Status({"sent"})' = {} /\ Status({"failed"})' = {}
    BY <2>1, <2>2 DEF Status
  <2>5. stats'.sent = 0 /\ stats'.failed = 0 /\ undone' = 0
    BY <2>1, <2>2
  <2>6. Cardinality(Status({"sent"})') = 0 /\ Cardinality(Status({"failed"})') = 0
    BY <2>4, FS_EmptySet
  <2> QED
    BY <2>3, <2>5, <2>6 DEF Tallied
<1>4. CASE SkipOpen
  <2>1. /\ UNCHANGED <<stats, undone>>
        /\ row' = [r \in Recipients |-> IF row[r] \in Unfinished THEN "skipped" ELSE row[r]]
    BY <1>4 DEF SkipOpen, campaign
  <2>2. \A s \in {"sent", "failed"} : Status({s})' = Status({s})
    BY <2>1 DEF Status, Unfinished
  <2> QED
    BY <1>1, <2>1, <2>2, TallyStays
<1>5. CASE RetryFailed
  <2>1. /\ stats' = stats /\ undone = 0 /\ undone' = Cardinality(Status({"failed"}))
        /\ row' = [r \in Recipients |-> IF row[r] = "failed" THEN "pending" ELSE row[r]]
    BY <1>5 DEF RetryFailed, Asked, campaign
  <2>2. Status({"sent"})' = Status({"sent"}) /\ Status({"failed"})' = {}
    BY <2>1 DEF Status
  <2>3. Kept(SentBy)' = Kept(SentBy) /\ Kept(FailedBy)' = Kept(FailedBy)
    BY <1>1 DEF Kept, SentBy, FailedBy
  <2>4. Cardinality(Status({"failed"})) \in Nat /\ Cardinality(Status({"failed"})') = 0
    BY <2>2, StatusFinite, FS_EmptySet
  <2>5. stats'.sent + Cardinality(Kept(SentBy)') = Cardinality(Status({"sent"})')
    BY <2>1, <2>2, <2>3 DEF Tallied
  <2>6. stats'.failed + Cardinality(Kept(FailedBy)') = Cardinality(Status({"failed"})') + undone'
    BY <2>1, <2>3, <2>4 DEF Tallied
  <2> QED
    BY <2>5, <2>6 DEF Tallied
<1>6. CASE SubtractFailed
  <2>1. /\ UNCHANGED row /\ undone' = 0 /\ stats'.sent = stats.sent
        /\ stats'.failed = stats.failed - undone
        /\ stats.failed \in Int /\ undone \in Nat
    BY <1>6 DEF SubtractFailed, TypeOK
  <2>2. /\ Kept(SentBy)' = Kept(SentBy) /\ Kept(FailedBy)' = Kept(FailedBy)
        /\ Status({"sent"})' = Status({"sent"}) /\ Status({"failed"})' = Status({"failed"})
    BY <1>1, <2>1 DEF Kept, SentBy, FailedBy, Status
  <2>3. Cardinality(Kept(FailedBy)) \in Nat /\ Cardinality(Status({"failed"})) \in Nat
    BY KeptFinite, StatusFinite
  <2>4. stats'.failed + Cardinality(Kept(FailedBy)') = Cardinality(Status({"failed"})') + undone'
    BY <2>1, <2>2, <2>3 DEF Tallied
  <2> QED
    BY <2>1, <2>2, <2>4 DEF Tallied
<1> QED
  BY <1>2, <1>3, <1>4, <1>5, <1>6 DEF Save

\* Only the writes of the outcomes give a row its outcome, and only a commit
\* moves the counters.
LEMMA WorkElsewhere ==
    ASSUME TypeOK, Told, Claims, NEW w \in Workers, Work(w), UNCHANGED incidents,
           ~MarkSent(w), ~MarkFailed(w), ~Commit(w)
    PROVE  /\ UNCHANGED <<stats, undone, done>>
           /\ \A s \in {"sent", "failed"} : Status({s})' = Status({s})
<1>1. UNCHANGED stats
  BY DEF Work, Dispatch, SendBatch, TakeDispatch, Write, CountLedger, SetSize,
     RecoverStaleClaims, EnqueueBatch, Pass, EndQueueing, TakeBatch, Open, StopWhenPaused, Claim,
     Accept, Refuse, PutBack, EndBatch, Abort, CountOpen, Complete, CommitAndThrow, campaign, Told
<1>2. \A r \in Recipients : row'[r] \in {"sent", "failed"} => row'[r] = row[r]
  <2>1. CASE \/ \E q \in Recipients, s \in {"pending", "skipped"} : Write(w, q, s)
             \/ RecoverStaleClaims(w)
             \/ \E q \in Recipients : Claim(w, q)
    BY <2>1 DEF Write, RecoverStaleClaims, Claim, TypeOK
  <2>2. CASE PutBack(w)
    <3>1. at[w] \in Recipients
      BY <2>2 DEF PutBack, Move, Holding, TypeOK
    <3> QED
      BY <2>2, <3>1 DEF PutBack, Mark, TypeOK
  <2>3. CASE UNCHANGED row
    BY <2>3
  <2> QED
    BY <2>1, <2>2, <2>3 DEF Work, Dispatch, SendBatch, TakeDispatch, CountLedger, SetSize,
       EnqueueBatch, Pass, EndQueueing, TakeBatch, Open, StopWhenPaused, Accept, Refuse, EndBatch,
       Abort, CountOpen, Complete, CommitAndThrow
<1>3. \A s \in {"sent", "failed"} : Status({s})' = Status({s})
  BY <1>2, WorkKeepsOutcome DEF Status
<1> QED
  BY <1>1, <1>3, WorkTells, WorkKeeps

LEMMA MarkSentKeepsTally ==
    ASSUME TypeOK, TypeOK', Settled, Tallied, NEW w \in Workers, MarkSent(w)
    PROVE  Tallied'
<1>1. /\ at[w] \in Recipients /\ row[at[w]] \in {"sending", "skipped"} /\ Mark(at[w], "sent")
      /\ done' = [done EXCEPT ![w].sent = @ \cup {at[w]}] /\ UNCHANGED <<stats, undone>>
  BY DEF MarkSent, Move, Holding, Settled, Claims, TypeOK, campaign, person
<1>2. at[w] \notin SentBy[w]
  BY <1>1 DEF Settled, Outcomes, SentBy
<1>3. SentBy' = [SentBy EXCEPT ![w] = SentBy[w] \cup {at[w]}] /\ FailedBy' = FailedBy
  BY <1>1 DEF SentBy, FailedBy, TypeOK
<1>4. /\ SentBy \in [Workers -> SUBSET Recipients]
      /\ SentBy' \in [Workers -> SUBSET Recipients]
  BY DEF SentBy, TypeOK
<1>5. Cardinality(Kept(SentBy')) = Cardinality(Kept(SentBy)) + 1
  BY <1>1, <1>2, <1>3, <1>4, KeptOneMore
<1>6. Kept(SentBy)' = Kept(SentBy') /\ Kept(FailedBy)' = Kept(FailedBy)
  BY <1>3 DEF Kept
<1>7. /\ Cardinality(Status({"sent"})') = Cardinality(Status({"sent"})) + 1
      /\ Status({"failed"})' = Status({"failed"})
  BY <1>1, OneMoreRow
<1>8. stats.sent \in Int /\ Cardinality(Kept(SentBy)) \in Nat /\ Cardinality(Status({"sent"})) \in Nat
  BY KeptFinite, StatusFinite DEF TypeOK
<1>9. stats'.sent + Cardinality(Kept(SentBy)') = Cardinality(Status({"sent"})')
  BY <1>1, <1>5, <1>6, <1>7, <1>8 DEF Tallied
<1> QED
  BY <1>1, <1>6, <1>7, <1>9 DEF Tallied

LEMMA MarkFailedKeepsTally ==
    ASSUME TypeOK, TypeOK', Settled, Tallied, NEW w \in Workers, MarkFailed(w)
    PROVE  Tallied'
<1>1. /\ at[w] \in Recipients /\ row[at[w]] \in {"sending", "skipped"} /\ Mark(at[w], "failed")
      /\ done' = [done EXCEPT ![w].failed = @ \cup {at[w]}] /\ UNCHANGED <<stats, undone>>
  BY DEF MarkFailed, Move, Holding, Settled, Claims, TypeOK, campaign, person
<1>2. at[w] \notin FailedBy[w]
  BY DEF Settled, Outcomes, FailedBy
<1>3. FailedBy' = [FailedBy EXCEPT ![w] = FailedBy[w] \cup {at[w]}] /\ SentBy' = SentBy
  BY <1>1 DEF SentBy, FailedBy, TypeOK
<1>4. /\ FailedBy \in [Workers -> SUBSET Recipients]
      /\ FailedBy' \in [Workers -> SUBSET Recipients]
  BY DEF FailedBy, TypeOK
<1>5. Cardinality(Kept(FailedBy')) = Cardinality(Kept(FailedBy)) + 1
  BY <1>1, <1>2, <1>3, <1>4, KeptOneMore
<1>6. Kept(FailedBy)' = Kept(FailedBy') /\ Kept(SentBy)' = Kept(SentBy)
  BY <1>3 DEF Kept
<1>7. /\ Cardinality(Status({"failed"})') = Cardinality(Status({"failed"})) + 1
      /\ Status({"sent"})' = Status({"sent"})
  BY <1>1, OneMoreRow
<1>8. /\ stats.failed \in Int /\ undone \in Nat
      /\ Cardinality(Kept(FailedBy)) \in Nat /\ Cardinality(Status({"failed"})) \in Nat
  BY KeptFinite, StatusFinite DEF TypeOK
<1>9. stats'.failed + Cardinality(Kept(FailedBy)') = Cardinality(Status({"failed"})') + undone'
  BY <1>1, <1>5, <1>6, <1>7, <1>8 DEF Tallied
<1> QED
  BY <1>1, <1>6, <1>7, <1>9 DEF Tallied

LEMMA CommitKeepsTally ==
    ASSUME TypeOK, TypeOK', Tallied, NEW w \in Workers, Commit(w)
    PROVE  Tallied'
<1>1. /\ stats'.sent = stats.sent + Cardinality(done[w].sent)
      /\ stats'.failed = stats.failed + Cardinality(done[w].failed)
      /\ done' = [done EXCEPT ![w] = Nothing] /\ UNCHANGED <<row, undone>>
  BY DEF Commit, CommitOutcome, person
<1>2. /\ SentBy' = [SentBy EXCEPT ![w] = {}] /\ FailedBy' = [FailedBy EXCEPT ![w] = {}]
      /\ SentBy[w] = done[w].sent /\ FailedBy[w] = done[w].failed
  BY <1>1 DEF SentBy, FailedBy, Nothing, TypeOK
<1>3. /\ SentBy \in [Workers -> SUBSET Recipients] /\ FailedBy \in [Workers -> SUBSET Recipients]
      /\ SentBy' \in [Workers -> SUBSET Recipients] /\ FailedBy' \in [Workers -> SUBSET Recipients]
  BY DEF SentBy, FailedBy, TypeOK
<1>4. Cardinality(Kept(SentBy)) = Cardinality(Kept(SentBy')) + Cardinality(SentBy[w])
  <2>1. SentBy' = [SentBy EXCEPT ![w] = {}]
    BY <1>2
  <2>2. SentBy \in [Workers -> SUBSET Recipients] /\ SentBy' \in [Workers -> SUBSET Recipients]
    BY <1>3
  <2> QED
    BY <2>1, <2>2, KeptGivenAway, Zenon
<1>5. Cardinality(Kept(FailedBy)) = Cardinality(Kept(FailedBy')) + Cardinality(FailedBy[w])
  <2>1. FailedBy' = [FailedBy EXCEPT ![w] = {}]
    BY <1>2
  <2>2. FailedBy \in [Workers -> SUBSET Recipients] /\ FailedBy' \in [Workers -> SUBSET Recipients]
    BY <1>3
  <2> QED
    BY <2>1, <2>2, KeptGivenAway, Zenon
<1>6. /\ Kept(SentBy)' = Kept(SentBy') /\ Kept(FailedBy)' = Kept(FailedBy')
      /\ Status({"sent"})' = Status({"sent"}) /\ Status({"failed"})' = Status({"failed"})
  BY <1>1 DEF Kept, Status
<1>7. /\ stats.sent \in Int /\ stats.failed \in Int
      /\ Cardinality(SentBy[w]) \in Nat /\ Cardinality(FailedBy[w]) \in Nat
      /\ Cardinality(Kept(SentBy')) \in Nat /\ Cardinality(Kept(FailedBy')) \in Nat
  BY <1>3, KeptFinite, Finite DEF TypeOK
<1>8. stats'.sent + Cardinality(Kept(SentBy)') = Cardinality(Status({"sent"})')
  BY <1>1, <1>2, <1>4, <1>6, <1>7 DEF Tallied
<1>9. stats'.failed + Cardinality(Kept(FailedBy)') = Cardinality(Status({"failed"})') + undone'
  BY <1>1, <1>2, <1>5, <1>6, <1>7 DEF Tallied
<1> QED
  BY <1>8, <1>9 DEF Tallied

\* Until something fails.
TalliedFirst == incidents = 0 => Tallied

LEMMA StepTallies ==
    TypeOK /\ TypeOK' /\ SettledFirst /\ TalliedFirst /\ [Next]_vars => TalliedFirst'
<1> SUFFICES ASSUME TypeOK, TypeOK', SettledFirst, TalliedFirst, [Next]_vars, incidents' = 0
             PROVE  Tallied'
  BY DEF TalliedFirst
<1>1. CASE UNCHANGED vars
  <2>1. UNCHANGED <<stats, undone, done, row, incidents>>
    BY <1>1 DEF vars, campaign, worker, person
  <2> QED
    BY <2>1, TallyStays DEF TalliedFirst, Status
<1>2. CASE Next
  <2>1. Settled /\ Tallied /\ incidents' = incidents
    BY <1>2, NothingFails DEF SettledFirst, TalliedFirst
  <2>2. CASE Ask \/ Save
    BY <2>1, <2>2, PersonKeepsTally
  <2>3. ASSUME NEW w \in Workers, Work(w) PROVE Tallied'
    <3>1. CASE MarkSent(w) \/ MarkFailed(w) \/ Commit(w)
      BY <2>1, <3>1, MarkSentKeepsTally, MarkFailedKeepsTally, CommitKeepsTally
    <3>2. CASE ~MarkSent(w) /\ ~MarkFailed(w) /\ ~Commit(w)
      BY <2>1, <2>3, <3>2, WorkElsewhere, TallyStays DEF Settled
    <3> QED
      BY <3>1, <3>2
  <2> QED
    BY <1>2, <2>2, <2>3, NothingFails
<1> QED
  BY <1>1, <1>2

\* Until something fails, each counter differs from the rows of its outcome by
\* the outcomes the workers keep and the failures a retry has taken back.
THEOREM CountersBalance == Spec => []StatsAddUp
<1>1. Init => TalliedFirst
  <2> SUFFICES ASSUME Init PROVE Tallied
    BY DEF TalliedFirst
  <2>1. Cardinality(Kept(SentBy)) = 0 /\ Cardinality(Kept(FailedBy)) = 0
    BY KeptNothing DEF Init, SentBy, FailedBy, Nothing
  <2>2. Status({"sent"}) = {} /\ Status({"failed"}) = {}
    BY DEF Init, Status
  <2>3. stats.sent = 0 /\ stats.failed = 0 /\ undone = 0
    BY DEF Init
  <2>4. Cardinality(Status({"sent"})) = 0 /\ Cardinality(Status({"failed"})) = 0
    BY <2>2, FS_EmptySet
  <2> QED
    BY <2>1, <2>3, <2>4 DEF Tallied
<1>2. TalliedFirst => StatsAddUp
  <2>1. /\ Kept(SentBy) = {x \in Workers \X Recipients : x[2] \in done[x[1]].sent}
        /\ Kept(FailedBy) = {x \in Workers \X Recipients : x[2] \in done[x[1]].failed}
    BY DEF Kept, SentBy, FailedBy
  <2> QED
    BY <2>1 DEF TalliedFirst, Tallied, StatsAddUp
<1> QED
  BY <1>1, <1>2, StepTallies, Settles, Typing, PTL DEF Spec

-----------------------------------------------------------------------------
(* What the claims are for.                                                  *)

\* Two workers never hold the same recipient.
HeldByOne ==
    incidents = 0 =>
        \A v, w \in Workers : at[v] # None /\ at[v] = at[w] => v = w

\* A recipient that was sent to stays so, and a failure stays one until the
\* person asks for the failures to be retried.
OutcomeStands ==
    [][incidents' = 0 =>
        \A r \in Recipients :
            /\ row[r] = "sent" => row'[r] = "sent"
            /\ row[r] = "failed" /\ op # "retry" => row'[r] = "failed"]_vars

\* The claim by findOneAndUpdate keeps two jobs that name the same recipient
\* apart, whichever of them runs again, also after the recovery of stale claims.
THEOREM RowsHaveOneHolder == Spec => []HeldByOne
<1>1. SettledFirst => HeldByOne
  BY DEF SettledFirst, Settled, Claims, HeldByOne
<1> QED
  BY <1>1, Settles, PTL

\* No second job, recovery, cancellation or launch takes an outcome back.
THEOREM OutcomesStand == Spec => OutcomeStands
<1> DEFINE Stands ==
      incidents' = 0 =>
        \A r \in Recipients :
            /\ row[r] = "sent" => row'[r] = "sent"
            /\ row[r] = "failed" /\ op # "retry" => row'[r] = "failed"
<1>1. ASSUME TypeOK, TypeOK', SettledFirst, [Next]_vars PROVE [Stands]_vars
  <2> SUFFICES ASSUME Next, incidents' = 0, NEW r \in Recipients
               PROVE  /\ row[r] = "sent" => row'[r] = "sent"
                      /\ row[r] = "failed" /\ op # "retry" => row'[r] = "failed"
    BY <1>1
  <2>1. Settled /\ incidents' = incidents
    BY <1>1, NothingFails DEF SettledFirst
  <2>2. CASE Ask \/ Save
    BY <2>2 DEF Ask, Request, Save, Launch, Pause, Resume, Cancel, SkipOpen, RetryFailed, Reopen,
       SubtractFailed, EnqueueDispatch, Unfinished
  <2>3. ASSUME NEW w \in Workers, Work(w) PROVE row[r] \in {"sent", "failed"} => row'[r] = row[r]
    BY <1>1, <2>1, <2>3, WorkKeepsOutcome DEF Settled
  <2> QED
    BY <1>1, <2>2, <2>3, NothingFails
<1> QED
  BY <1>1, Settles, Typing, PTL DEF Spec, OutcomeStands
=============================================================================
