------------------------ MODULE AssignmentOutboxProofs ------------------------
(***************************************************************************)
(* Proofs about AssignmentOutbox for any rows, runs and retry budget: its  *)
(* types, that a row is written off only when its budget is used up, and   *)
(* that the publisher implements the at-least-once promise of Outbox.      *)
(***************************************************************************)
EXTENDS AssignmentOutbox, TLAPS

\* A row in 'publishing' has an attempt left: a claim demands it and every
\* counted failure takes the row out of 'publishing'.
PublishingHasBudget ==
    \A e \in Events : status[e] = "publishing" => retries[e] < MaxRetries

\* A run has claimed a row that exists, and counts never go down.
ClaimsExist ==
    \A p \in Publishers : pc[p] # "idle" =>
        /\ status[claimed[p]] # "absent"
        /\ seen[p] <= retries[claimed[p]]

\* What a batch holds was read from the table.
BatchesExist == \A p \in Publishers : \A r \in batch[p] : status[r.ev] # "absent"

\* A run confirms only what it has emitted.
ConfirmsDelivered ==
    \A p \in Publishers : pc[p] = "confirm" => claimed[p] \in delivered

IInv ==
    /\ TypeOK
    /\ PublishingHasBudget
    /\ ClaimsExist
    /\ BatchesExist
    /\ ConfirmsDelivered
    /\ FailedIsExhausted

LEMMA Initially == Init => IInv
  BY OutboxAssumption
     DEF Init, IInv, TypeOK, PublishingHasBudget, ClaimsExist, BatchesExist,
         ConfirmsDelivered, FailedIsExhausted, Statuses

\* The actions that leave the table alone or only add to it.
LEMMA QuietSteps ==
  ASSUME IInv,
         \/ \E e \in Events : Capture(e)
         \/ \E p \in Publishers : Scan(p) \/ Abandon(p)
  PROVE  IInv'
<1> USE OutboxAssumption DEF IInv, TypeOK, PublishingHasBudget, ClaimsExist,
        BatchesExist, ConfirmsDelivered, FailedIsExhausted, Statuses
<1>1. ASSUME NEW e \in Events, Capture(e) PROVE IInv'
  BY <1>1 DEF Capture, local
<1>2. ASSUME NEW p \in Publishers, Scan(p) PROVE IInv'
  <2>1. Due \subseteq Events /\ Overdue \subseteq Events
    BY DEF Due, Overdue
  <2>2. \A e \in Due \cup Overdue : RowOf(e) \in Row /\ RowOf(e).ev = e /\ status[e] # "absent"
    <3> SUFFICES ASSUME NEW e \in Due \cup Overdue
                 PROVE  RowOf(e) \in Row /\ RowOf(e).ev = e /\ status[e] # "absent"
      OBVIOUS
    <3>1. e \in Events /\ status[e] \in {"pending", "publishing"} /\ retries[e] \in 0 .. MaxRetries - 1
      BY DEF Due, Overdue, Stale
    <3> HIDE DEF IInv, TypeOK
    <3> QED
      BY <3>1 DEF RowOf, Row
  <2>3. PICK D \in SUBSET (Due \cup Overdue) :
            batch' = [batch EXCEPT ![p] = {RowOf(e) : e \in D}]
    BY <1>2 DEF Scan
  <2>4. batch' \in [Publishers -> SUBSET Row] /\ BatchesExist'
    BY <1>2, <2>2, <2>3 DEF Scan, table
  <2>5. incidents' \in 0 .. MaxIncidents
    BY <1>2 DEF Scan, Incident
  <2> QED
    BY <1>2, <2>4, <2>5 DEF Scan, table
<1>3. ASSUME NEW p \in Publishers, Abandon(p) PROVE IInv'
  <2>1. incidents' \in 0 .. MaxIncidents
    BY <1>3 DEF Abandon, Incident
  <2>2. /\ pc' = [pc EXCEPT ![p] = "idle"]
        /\ claimed' = [claimed EXCEPT ![p] = None]
        /\ seen' = [seen EXCEPT ![p] = 0]
        /\ batch' = [batch EXCEPT ![p] = {}]
        /\ UNCHANGED <<status, retries, delivered>>
    BY <1>3 DEF Abandon, Done, Goto, table
  <2>3. TypeOK'
    BY <2>1, <2>2
  <2>4. PublishingHasBudget' /\ FailedIsExhausted'
    BY <2>2
  <2>5. ClaimsExist' /\ BatchesExist' /\ ConfirmsDelivered'
    BY <2>2
  <2> QED
    BY <2>3, <2>4, <2>5
<1> QED
  BY <1>1, <1>2, <1>3

LEMMA ClaimStep ==
  ASSUME IInv, NEW p \in Publishers, NEW r \in batch[p], Claim(p, r)
  PROVE  IInv'
<1> USE OutboxAssumption DEF IInv, TypeOK, PublishingHasBudget, ClaimsExist,
        BatchesExist, ConfirmsDelivered, FailedIsExhausted, Statuses
<1>1. r \in Row
  OBVIOUS
<1>2. r.ev \in Events /\ r.retries \in 0 .. MaxRetries - 1
  BY <1>1 DEF Row
<1>3. CASE r = RowOf(r.ev)
  <2>1. r.retries = retries[r.ev]
    BY <1>3 DEF RowOf
  <2>2. status[r.ev] \in {"pending", "publishing"}
    BY <1>3, <1>1 DEF RowOf, Row
  <2>3. /\ batch' = [batch EXCEPT ![p] = @ \ {r}]
        /\ status' = [status EXCEPT ![r.ev] = "publishing"]
        /\ pc' = [pc EXCEPT ![p] = "emit"]
        /\ claimed' = [claimed EXCEPT ![p] = r.ev]
        /\ seen' = [seen EXCEPT ![p] = r.retries]
        /\ UNCHANGED <<retries, delivered, incidents>>
    BY <1>3 DEF Claim, Goto
  <2>4. retries[r.ev] < MaxRetries
    BY <1>2, <2>1
  <2>5. TypeOK'
    BY <1>2, <2>3
  <2>6. PublishingHasBudget' /\ ClaimsExist' /\ ConfirmsDelivered' /\ FailedIsExhausted'
    BY <1>2, <2>1, <2>2, <2>3, <2>4
  <2>7. BatchesExist'
    BY <1>2, <2>3
  <2> QED
    BY <2>5, <2>6, <2>7
<1>4. CASE r # RowOf(r.ev)
  <2>1. /\ UNCHANGED <<status, retries, delivered, pc, claimed, seen, incidents>>
        /\ batch' = [batch EXCEPT ![p] = @ \ {r}]
    BY <1>4 DEF Claim
  <2> QED
    BY <2>1
<1> QED
  BY <1>3, <1>4

LEMMA PublishStep ==
  ASSUME IInv, NEW p \in Publishers, Publish(p)
  PROVE  IInv'
<1> USE OutboxAssumption DEF IInv, TypeOK, PublishingHasBudget, ClaimsExist,
        BatchesExist, ConfirmsDelivered, FailedIsExhausted, Statuses, At, Goto
<1>1. CASE Emit(p)
  BY <1>1 DEF Emit, table
<1>2. CASE EmitFails(p)
  BY <1>2 DEF EmitFails, table
<1>3. CASE Confirm(p)
  BY <1>3 DEF Confirm, Done
<1>4. CASE ConfirmFails(p)
  BY <1>4 DEF ConfirmFails, table, Incident
<1>5. CASE Reject(p)
  <2> DEFINE e == claimed[p]
  <2>1. e \in Events /\ seen[p] <= retries[e]
    BY <1>5 DEF Reject
  <2>2. CASE status[e] = "publishing"
    <3>1. retries[e] + 1 \in 0 .. MaxRetries
      BY <2>1, <2>2
    <3>2. LastAttempt(seen[p]) => retries[e] + 1 = MaxRetries
      BY <2>1, <3>1 DEF LastAttempt
    <3>3. /\ status' = [status EXCEPT ![e] = IF LastAttempt(seen[p]) THEN "failed" ELSE "pending"]
          /\ retries' = [retries EXCEPT ![e] = @ + 1]
      BY <1>5, <2>2 DEF Reject
    <3> QED
      BY <1>5, <2>1, <3>1, <3>2, <3>3 DEF Reject, Done
  <2>3. CASE status[e] # "publishing"
    BY <1>5, <2>3 DEF Reject, Done, table
  <2> QED
    BY <2>2, <2>3
<1> QED
  BY <1>1, <1>2, <1>3, <1>4, <1>5 DEF Publish

LEMMA Invariance == Spec => []IInv
<1>1. IInv /\ [Next]_vars => IInv'
  <2> SUFFICES ASSUME IInv, [Next]_vars PROVE IInv'
    OBVIOUS
  <2>1. ASSUME NEW p \in Publishers, Try(p) PROVE IInv'
    BY <2>1, ClaimStep DEF Try
  <2>2. CASE UNCHANGED vars
    BY <2>2 DEF vars, table, local, IInv, TypeOK, PublishingHasBudget, ClaimsExist,
       BatchesExist, ConfirmsDelivered, FailedIsExhausted
  <2> QED
    BY <2>1, <2>2, QuietSteps, PublishStep DEF Next
<1> QED
  BY <1>1, Initially, PTL DEF Spec

-----------------------------------------------------------------------------

\* Rows, batches and runs are typed; no retry count passes MAX_RETRIES.
THEOREM Typing == Spec => []TypeOK
  BY Invariance, PTL DEF IInv

\* However runs overlap, a row is 'failed' only with its attempts used up.
THEOREM WrittenOffWhenExhausted == Spec => []FailedIsExhausted
  BY Invariance, PTL DEF IInv

\* Each step of publishPending is a step of Outbox or a stutter: the publisher
\* implements at-least-once delivery.
THEOREM Implements == Spec => AtLeastOnce
<1> DEFINE m == [e \in Events |-> StateOf(e)]
<1>1. Init => Promise!Init
  BY DEF Init, Promise!Init, StateOf
<1>2. ASSUME IInv, [Next]_vars PROVE [Promise!Next]_(Promise!vars)
  <2> USE <1>2, OutboxAssumption DEF Promise!vars
  <2>1. ASSUME NEW e \in Events, Capture(e) PROVE Promise!Next
    BY <2>1 DEF Capture, local, IInv, TypeOK, StateOf, Promise!Next, Promise!Capture
  <2>2. ASSUME UNCHANGED <<status, delivered>> PROVE UNCHANGED Promise!vars
    BY <2>2 DEF StateOf
  <2>3. ASSUME NEW p \in Publishers, Scan(p) \/ Abandon(p) \/ EmitFails(p) \/ ConfirmFails(p)
        PROVE  UNCHANGED <<status, delivered>>
    BY <2>3 DEF Scan, Abandon, EmitFails, ConfirmFails, table
  <2>4. ASSUME NEW p \in Publishers, NEW r \in batch[p], Claim(p, r)
        PROVE  UNCHANGED Promise!vars
    <3>1. r \in Row /\ r.ev \in Events
      BY DEF IInv, TypeOK, Row
    <3>2. r = RowOf(r.ev) => status[r.ev] \in {"pending", "publishing"}
      BY <3>1 DEF RowOf, Row
    <3> QED
      BY <2>4, <3>1, <3>2 DEF Claim, IInv, TypeOK, StateOf
  <2>5. ASSUME NEW p \in Publishers, Emit(p) PROVE Promise!Next
    <3>1. claimed[p] \in Events /\ StateOf(claimed[p]) # "absent"
      BY <2>5 DEF Emit, At, IInv, TypeOK, ClaimsExist, StateOf, Statuses
    <3> QED
      BY <2>5, <3>1 DEF Emit, table, StateOf, Promise!Next, Promise!Deliver
  <2>6. ASSUME NEW p \in Publishers, Confirm(p) PROVE [Promise!Next]_(Promise!vars)
    <3>1. claimed[p] \in Events /\ claimed[p] \in delivered
      BY <2>6 DEF Confirm, At, IInv, TypeOK, ConfirmsDelivered
    <3>2. CASE status[claimed[p]] = "publishing"
      <4>1. Promise!Settle(claimed[p])
        BY <2>6, <3>1, <3>2 DEF Confirm, IInv, TypeOK, StateOf, Promise!Settle
      <4> QED
        BY <3>1, <4>1 DEF Promise!Next
    <3>3. CASE status[claimed[p]] # "publishing"
      BY <2>2, <2>6, <3>3 DEF Confirm
    <3> QED
      BY <3>2, <3>3
  <2>7. ASSUME NEW p \in Publishers, Reject(p) PROVE [Promise!Next]_(Promise!vars)
    <3> DEFINE e == claimed[p]
    <3>1. e \in Events /\ UNCHANGED delivered
      BY <2>7 DEF Reject, At, IInv, TypeOK
    <3>2. CASE status[e] = "publishing" /\ LastAttempt(seen[p])
      <4>0. status' = [status EXCEPT ![e] = "failed"] /\ status[e] \in {"pending", "publishing"}
        BY <2>7, <3>1, <3>2 DEF Reject
      <4>1. Promise!Drop(e)
        BY <4>0, <2>7, <3>1, <3>2 DEF Reject, IInv, TypeOK, StateOf, Promise!Drop
      <4> QED
        BY <3>1, <4>1 DEF Promise!Next
    <3>3. CASE status[e] = "publishing" /\ ~LastAttempt(seen[p])
      BY <2>7, <3>1, <3>3 DEF Reject, IInv, TypeOK, StateOf
    <3>4. CASE status[e] # "publishing"
      BY <2>2, <2>7, <3>1, <3>4 DEF Reject, table
    <3> QED
      BY <3>2, <3>3, <3>4
  <2>8. CASE UNCHANGED vars
    BY <2>2, <2>8 DEF vars, table
  <2> QED
    BY <2>1, <2>2, <2>3, <2>4, <2>5, <2>6, <2>7, <2>8 DEF Next, Try, Publish
<1> QED
  BY <1>1, <1>2, Invariance, PTL DEF Spec, AtLeastOnce, Promise!Spec
(* Stranding.  Only a failed attempt puts a row back, and only one that does   *)
(* not see itself as the last; the row it strands has been counted by others.  *)

Uncounted == \A e \in Events : status[e] = "absent" => retries[e] = 0

LEMMA UncountedNext == IInv /\ Uncounted /\ [Next]_vars => Uncounted'
<1> SUFFICES ASSUME IInv, Uncounted, [Next]_vars PROVE Uncounted'
  OBVIOUS
<1> USE DEF IInv, TypeOK, Uncounted
<1>1. ASSUME NEW e \in Events, Capture(e) PROVE Uncounted'
  BY <1>1 DEF Capture
<1>2. ASSUME NEW p \in Publishers, Scan(p) \/ Emit(p) \/ EmitFails(p) \/ ConfirmFails(p) \/ Abandon(p)
      PROVE  Uncounted'
  BY <1>2 DEF Scan, Emit, EmitFails, ConfirmFails, Abandon, table
<1>3. ASSUME NEW p \in Publishers, Try(p) PROVE Uncounted'
  BY <1>3 DEF Try, Claim
<1>4. ASSUME NEW p \in Publishers, Confirm(p) PROVE Uncounted'
  BY <1>4 DEF Confirm
<1>5. ASSUME NEW p \in Publishers, Reject(p) PROVE Uncounted'
  <2>1. CASE status[claimed[p]] = "publishing"
    BY <1>5, <2>1 DEF Reject
  <2>2. CASE status[claimed[p]] # "publishing"
    BY <1>5, <2>2 DEF Reject, table
  <2> QED
    BY <2>1, <2>2
<1>6. CASE UNCHANGED vars
  BY <1>6 DEF vars, table
<1> QED
  BY <1>1, <1>2, <1>3, <1>4, <1>5, <1>6 DEF Next, Publish

LEMMA StrandStep ==
    ASSUME IInv, Uncounted, [Next]_vars,
           NEW e \in Events, ~Stranded(e), Stranded(e)'
    PROVE  \E p \in Publishers : claimed[p] = e /\ seen[p] < retries[e]
<1> USE DEF IInv, TypeOK, Stranded
<1>1. ASSUME NEW f \in Events, Capture(f) PROVE FALSE
  BY <1>1, OutboxAssumption DEF Capture, Uncounted
<1>2. ASSUME NEW p \in Publishers, Scan(p) \/ Emit(p) \/ EmitFails(p) \/ ConfirmFails(p) \/ Abandon(p)
      PROVE  FALSE
  BY <1>2 DEF Scan, Emit, EmitFails, ConfirmFails, Abandon, table
<1>3. ASSUME NEW p \in Publishers, Try(p) PROVE FALSE
  BY <1>3 DEF Try, Claim
<1>4. ASSUME NEW p \in Publishers, Confirm(p) PROVE FALSE
  BY <1>4 DEF Confirm
<1>5. ASSUME NEW p \in Publishers, Reject(p)
      PROVE  claimed[p] = e /\ seen[p] < retries[e]
  <2>1. status[claimed[p]] = "publishing"
    BY <1>5 DEF Reject, table
  <2>2. /\ status' = [status EXCEPT ![claimed[p]] =
                        IF LastAttempt(seen[p]) THEN "failed" ELSE "pending"]
        /\ retries' = [retries EXCEPT ![claimed[p]] = @ + 1]
    BY <1>5, <2>1 DEF Reject
  <2>3. claimed[p] = e
    BY <2>2
  <2>4. ~LastAttempt(seen[p])
    BY <2>2, <2>3
  <2>5. seen[p] \in Nat /\ retries[e] \in Nat /\ retries[e] + 1 = MaxRetries
    BY <2>2, <2>3
  <2> QED
    BY <2>3, <2>4, <2>5, OutboxAssumption DEF LastAttempt
<1>6. CASE UNCHANGED vars
  BY <1>6 DEF vars, table
<1> QED
  BY <1>1, <1>2, <1>3, <1>4, <1>5, <1>6 DEF Next, Publish

\* However runs overlap, a row is left pending with no attempt left only by a run
\* whose copy of it was older than the row.
THEOREM StrandingIsOverlap == Spec => OverlapStrands
<1>1. Init => Uncounted
  BY DEF Init, Uncounted
<1>2. IInv /\ Uncounted /\ [Next]_vars => Uncounted'
  BY UncountedNext
<1>3. IInv /\ Uncounted /\ [Next]_vars =>
        [\A e \in Events :
           ~Stranded(e) /\ Stranded(e)'
             => \E p \in Publishers : claimed[p] = e /\ seen[p] < retries[e]]_vars
  BY StrandStep
<1> QED
  BY <1>1, <1>2, <1>3, Invariance, PTL DEF Spec, OverlapStrands
=============================================================================
