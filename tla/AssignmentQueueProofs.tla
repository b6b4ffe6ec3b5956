----------------------- MODULE AssignmentQueueProofs -----------------------
(***************************************************************************)
(* Proofs about AssignmentQueue for any records, calls, replicas and       *)
(* bounds: its types, that an answered claim is true, that no unowned      *)
(* record leaves the queue, that an item is escalated once, and that an    *)
(* operation releases its own item only.                                   *)
(***************************************************************************)
EXTENDS AssignmentQueue, TLAPS

USE QueueAssumption

\* The part of the type that speaks of calls.
CallOK ==
    /\ pc \in [Calls -> Pcs]
    /\ kind \in [Calls -> Kinds]
    /\ rec \in [Calls -> Records \cup {None}]
    /\ op \in [Calls -> Nat]
    /\ pick \in [Calls -> Agents \cup {None}]
    /\ \A c \in Calls :
         /\ pc[c] # "idle" => rec[c] \in Records
         /\ pc[c] \in {"check", "commit", "clean"} => pick[c] \in Agents
         /\ pc[c] = "release" => kind[c] # "command"

LEMMA ReturnTyped == ASSUME CallOK, NEW c \in Calls, Return(c) PROVE CallOK'
  BY DEF CallOK, Return, Goto, Pcs, Kinds

LEMMA GiveUpTyped ==
    ASSUME CallOK, NEW c \in Calls, pc[c] # "idle", GiveUp(c) PROVE CallOK'
<1>1. CASE kind[c] = "command"
  BY <1>1, ReturnTyped DEF GiveUp
<1>2. CASE kind[c] # "command"
  BY <1>2 DEF CallOK, GiveUp, Goto, call, Pcs, Kinds
<1> QED
  BY <1>1, <1>2

\* The rest of it.
RestOK ==
    /\ owner \in [Records -> Agents \cup {None}]
    /\ status \in [Records -> {"none", "queued", "claiming", "retrying"}]
    /\ itemId \in [Records -> Nat]
    /\ operation \in [Records -> Nat]
    /\ escalations \in [Records -> Nat]
    /\ announced \subseteq Nat
    /\ due \in [Replicas -> SUBSET Nat]
    /\ pending \subseteq [id : Nat, rec : Records, to : Agents \cup {None}]
    /\ touched \subseteq Records
    /\ filed \subseteq Records
    /\ told \subseteq Records \X Agents
    /\ runs \in Nat /\ ids \in Nat /\ moves \in Nat /\ incidents \in Nat

LEMMA Parts == TypeOK <=> CallOK /\ RestOK
  BY DEF TypeOK, CallOK, RestOK

LEMMA PartsNext == CallOK' /\ RestOK' => TypeOK'
  BY DEF TypeOK, CallOK, RestOK

\* A step that leaves the store and the environment but for one incident.
LEMMA IncidentTyped ==
    ASSUME RestOK, Served, UNCHANGED <<owner, items, history, runs, ids, moves>>,
           incidents' = incidents + 1 \/ incidents' = incidents
    PROVE  RestOK'
  BY DEF RestOK, Served, items, history

LEMMA CallTyped == ASSUME TypeOK, NEW c \in Calls, Advance(c) \/ Crash(c) PROVE TypeOK'
<1>0. CallOK /\ RestOK
  BY Parts
<1>1. CASE CheckAssignee(c)
  <2>1. ASSUME GiveUp(c) PROVE CallOK'
    BY <1>0, <1>1, <2>1, GiveUpTyped DEF CheckAssignee, At
  <2>2. ASSUME Goto(c, "commit") /\ UNCHANGED call PROVE CallOK'
    BY <1>0, <1>1, <2>2 DEF CheckAssignee, CallOK, At, Goto, call, Pcs
  <2>3. CallOK' /\ RestOK'
    BY <1>0, <1>1, <2>1, <2>2, IncidentTyped DEF CheckAssignee, counts
  <2> QED
    BY <2>3, PartsNext
<1>2. CASE SelectCandidate(c)
  <2>1. ASSUME GiveUp(c) PROVE CallOK'
    BY <1>0, <1>2, <2>1, GiveUpTyped DEF SelectCandidate, At
  <2>2. ASSUME ~GiveUp(c) PROVE CallOK'
    BY <1>0, <1>2, <2>2 DEF SelectCandidate, CallOK, At, Goto, call, Pcs
  <2> QED
    BY <1>0, <1>2, <2>1, <2>2, IncidentTyped, PartsNext DEF SelectCandidate, counts
<1>3. CASE Commit(c)
  <2>1. CallOK'
    BY <1>0, <1>3 DEF Commit, CallOK, At, Goto, call, Pcs
  <2>2. RestOK'
    BY <1>0, <1>3 DEF Commit, CallOK, RestOK, At, items, history, counts, Served
  <2> QED
    BY <2>1, <2>2, PartsNext
<1>4. CASE CommitRaceLost(c)
  <2>1. CallOK'
    BY <1>0, <1>4 DEF CommitRaceLost, CallOK, At, Goto, Pcs
  <2> QED
    BY <1>0, <1>4, <2>1, IncidentTyped, PartsNext DEF CommitRaceLost, counts
<1>5. CASE CommitFails(c) \/ FinishFails(c)
  <2>1. CallOK'
    BY <1>0, <1>5, GiveUpTyped DEF CommitFails, FinishFails, At
  <2> QED
    BY <1>0, <1>5, <2>1, IncidentTyped, PartsNext DEF CommitFails, FinishFails, Incident
<1>6. CASE CleanQueue(c)
  <2>1. CallOK'
    BY <1>0, <1>6 DEF CleanQueue, CallOK, At, Goto, call, Pcs
  <2>2. RestOK'
    BY <1>0, <1>6 DEF CleanQueue, Remove, RestOK, history, counts, Served
  <2> QED
    BY <2>1, <2>2, PartsNext
<1>7. CASE CleanQueueFails(c)
  <2>1. CallOK'
    BY <1>0, <1>7 DEF CleanQueueFails, CallOK, At, Goto, call, Pcs
  <2> QED
    BY <1>0, <1>7, <2>1, IncidentTyped, PartsNext DEF CleanQueueFails, Incident
<1>8. CASE Park(c)
  <2>1. CallOK'
    BY <1>0, <1>8 DEF Park, CallOK, At, Goto, call, Pcs
  <2>2. RestOK'
    BY <1>0, <1>8 DEF Park, CallOK, RestOK, At, Served
  <2> QED
    BY <2>1, <2>2, PartsNext
<1>9. CASE Finish(c)
  <2>1. CallOK'
    BY <1>0, <1>9, GiveUpTyped, ReturnTyped DEF Finish, At
  <2>2. told' \subseteq Records \X Agents
    BY <1>0, <1>9 DEF Finish, At, CallOK, RestOK
  <2>3. RestOK'
    BY <1>0, <1>9, <2>2 DEF Finish, RestOK, items, counts, Served
  <2> QED
    BY <2>1, <2>3, PartsNext
<1>10. CASE Release(c)
  <2>1. CallOK'
    BY <1>0, <1>10, ReturnTyped DEF Release
  <2>2. RestOK'
    BY <1>0, <1>10 DEF Release, RestOK, history, counts, Served
  <2> QED
    BY <2>1, <2>2, PartsNext
<1>11. CASE ReleaseFails(c) \/ Crash(c)
  <2>1. CallOK'
    BY <1>0, <1>11, ReturnTyped DEF ReleaseFails, Crash
  <2> QED
    BY <1>0, <1>11, <2>1, IncidentTyped, PartsNext DEF ReleaseFails, Crash, Incident
<1> QED
  BY <1>1, <1>2, <1>3, <1>4, <1>5, <1>6, <1>7, <1>8, <1>9, <1>10, <1>11 DEF Advance

LEMMA StartTyped ==
    ASSUME TypeOK, NEW c \in Calls, NEW r \in Records,
           Retry(c, r) \/ Decide(c, r) \/ \E a \in Agents : Claim(c, r, a)
    PROVE  TypeOK'
<1> USE DEF TypeOK, Served, items, history, counts, At, Goto, Pcs, Kinds, Start
<1>1. CASE Retry(c, r)
  BY <1>1 DEF Retry, Acquire
<1>2. CASE Decide(c, r)
  BY <1>2 DEF Decide
<1>3. ASSUME NEW a \in Agents, Claim(c, r, a) PROVE TypeOK'
  BY <1>3 DEF Claim, Acquire
<1> QED
  BY <1>1, <1>2, <1>3

LEMMA CronTyped ==
    ASSUME TypeOK,
           \/ \E r \in Records : RecoverStale(r)
           \/ \E x \in Replicas : FindOverdue(x) \/ EscalateFails(x)
                                  \/ \E i \in due[x] : Escalate(x, i)
    PROVE  TypeOK'
<1> USE DEF TypeOK, Served, items, history, counts, call
<1>1. ASSUME NEW r \in Records, RecoverStale(r) PROVE TypeOK'
  BY <1>1 DEF RecoverStale, Incident
<1>2. ASSUME NEW x \in Replicas, FindOverdue(x) PROVE TypeOK'
  BY <1>2 DEF FindOverdue
<1>3. ASSUME NEW x \in Replicas, EscalateFails(x) PROVE TypeOK'
  BY <1>3 DEF EscalateFails, Incident
<1>4. ASSUME NEW x \in Replicas, NEW i \in due[x], Escalate(x, i) PROVE TypeOK'
  <2>1. /\ escalations' \in [Records -> Nat]
        /\ announced' \subseteq Nat
        /\ due' \in [Replicas -> SUBSET Nat]
    BY <1>4 DEF Escalate
  <2> QED
    BY <1>4, <2>1 DEF Escalate
<1> QED
  BY <1>1, <1>2, <1>3, <1>4

LEMMA WorldTyped ==
    ASSUME TypeOK,
           \/ \E r \in Records, a \in Agents \cup {None} : ChangeOwner(r, a)
           \/ \E e \in pending : HandleLifecycle(e)
    PROVE  TypeOK'
<1> USE DEF TypeOK, items, history, counts, call
<1>1. ASSUME NEW r \in Records, NEW a \in Agents \cup {None}, ChangeOwner(r, a)
      PROVE TypeOK'
  BY <1>1 DEF ChangeOwner
<1>2. ASSUME NEW e \in pending, HandleLifecycle(e) PROVE TypeOK'
  BY <1>2 DEF HandleLifecycle, Remove
<1> QED
  BY <1>1, <1>2

LEMMA TypeInit == Init => TypeOK
  BY DEF Init, TypeOK, Pcs, Kinds

LEMMA TypeStep == TypeOK /\ [Next]_vars => TypeOK'
<1> SUFFICES ASSUME TypeOK, [Next]_vars PROVE TypeOK'
  OBVIOUS
<1>1. CASE UNCHANGED vars
  BY <1>1 DEF vars, items, call, history, counts, TypeOK
<1> QED
  BY <1>1, CallTyped, StartTyped, CronTyped, WorldTyped DEF Next

(* The state is typed, for every value of the constants. *)
THEOREM Typing == Spec => []TypeOK
  BY TypeInit, TypeStep, PTL DEF Spec

-----------------------------------------------------------------------------
(* Answers and membership.                                                  *)

\* A call that still has somebody to report has made her the owner; one that
\* has nobody files the record or gives up; events tell of people's changes.
Outcome ==
    /\ \A c \in Calls :
         /\ pc[c] = "clean" \/ (pc[c] = "finish" /\ pick[c] # None)
              => rec[c] \in touched \/ owner[rec[c]] = pick[c]
         /\ pc[c] \in {"pool", "park"} => pick[c] = None
    /\ \A e \in pending : e.rec \in touched

Told == ToldIsOwner /\ NoRecordLost

Sound == TypeOK /\ Outcome /\ Told

LEMMA SoundInit == Init => Sound
<1> SUFFICES ASSUME Init PROVE Sound
  OBVIOUS
<1>1. Outcome /\ Told
  BY DEF Init, Outcome, Told, ToldIsOwner, NoRecordLost
<1> QED
  BY <1>1, TypeInit DEF Sound

LEMMA CallSound ==
    ASSUME Sound, NEW c \in Calls, Advance(c) \/ Crash(c)
    PROVE  Outcome' /\ Told'
<1> USE DEF Sound, Outcome, Told, ToldIsOwner, NoRecordLost, TypeOK, Served, items,
            history, counts, call, At, Goto
<1>1. CASE CheckAssignee(c)
  BY <1>1 DEF CheckAssignee, GiveUp, Return
<1>2. CASE SelectCandidate(c)
  BY <1>2 DEF SelectCandidate, GiveUp, Return
<1>3. CASE Commit(c)
  <2>1. owner[rec[c]] = None /\ owner' = [owner EXCEPT ![rec[c]] = pick[c]]
    BY <1>3 DEF Commit
  <2>2. \A t \in told : t \in Records \X Agents
    OBVIOUS
  <2>3. ToldIsOwner'
    BY <1>3, <2>1, <2>2 DEF Commit
  <2>4. NoRecordLost'
    BY <1>3, <2>1 DEF Commit
  <2>5. Outcome'
    BY <1>3, <2>1 DEF Commit
  <2> QED
    BY <2>3, <2>4, <2>5
<1>4. CASE CommitRaceLost(c)
  BY <1>4 DEF CommitRaceLost
<1>5. CASE CommitFails(c) \/ FinishFails(c)
  BY <1>5 DEF CommitFails, FinishFails, Incident, GiveUp, Return
<1>6. CASE CleanQueue(c)
  <2>1. rec[c] \in touched \/ owner[rec[c]] # None
    BY <1>6 DEF CleanQueue
  <2> QED
    BY <1>6, <2>1 DEF CleanQueue, Remove
<1>7. CASE CleanQueueFails(c)
  BY <1>7 DEF CleanQueueFails, Incident
<1>8. CASE Park(c)
  BY <1>8 DEF Park
<1>9. CASE Finish(c)
  <2>1. Outcome' /\ NoRecordLost'
    BY <1>9 DEF Finish, GiveUp, Return
  <2>2. ToldIsOwner'
    BY <1>9 DEF Finish
  <2> QED
    BY <2>1, <2>2
<1>10. CASE Release(c)
  BY <1>10 DEF Release, Return
<1>11. CASE ReleaseFails(c) \/ Crash(c)
  BY <1>11 DEF ReleaseFails, Crash, Incident, Return
<1> QED
  BY <1>1, <1>2, <1>3, <1>4, <1>5, <1>6, <1>7, <1>8, <1>9, <1>10, <1>11 DEF Advance

LEMMA SoundStep == Sound /\ [Next]_vars => Sound'
<1> SUFFICES ASSUME Sound, [Next]_vars PROVE Outcome' /\ Told'
  BY TypeStep DEF Sound
<1> USE DEF Sound, Outcome, Told, ToldIsOwner, NoRecordLost, TypeOK, Served, items,
            history, counts, call, At, Goto
<1>1. ASSUME NEW c \in Calls, NEW r \in Records,
             Retry(c, r) \/ Decide(c, r) \/ \E a \in Agents : Claim(c, r, a)
      PROVE  Outcome' /\ Told'
  BY <1>1 DEF Retry, Decide, Claim, Acquire, Start
<1>2. ASSUME NEW r \in Records, RecoverStale(r) PROVE Outcome' /\ Told'
  BY <1>2 DEF RecoverStale, Incident
<1>3. ASSUME NEW x \in Replicas,
             FindOverdue(x) \/ EscalateFails(x) \/ \E i \in due[x] : Escalate(x, i)
      PROVE  Outcome' /\ Told'
  BY <1>3 DEF FindOverdue, EscalateFails, Incident, Escalate
<1>4. ASSUME NEW r \in Records, NEW a \in Agents \cup {None}, ChangeOwner(r, a)
      PROVE  Outcome' /\ Told'
  BY <1>4 DEF ChangeOwner
<1>5. ASSUME NEW e \in pending, HandleLifecycle(e) PROVE Outcome' /\ Told'
  BY <1>5 DEF HandleLifecycle, Remove
<1>6. CASE UNCHANGED vars
  BY <1>6 DEF vars
<1> QED
  BY <1>1, <1>2, <1>3, <1>4, <1>5, <1>6, CallSound DEF Next

(* A claim answered 'assigned' names the owner, whatever races for the record. *)
THEOREM ClaimsAreTrue == Spec => []ToldIsOwner
<1>1. Sound => ToldIsOwner
  BY DEF Sound, Told
<1> QED
  BY <1>1, SoundInit, SoundStep, PTL DEF Spec

(* A record nobody owns stays in the queue it was filed in. *)
THEOREM NothingIsLost == Spec => []NoRecordLost
<1>1. Sound => NoRecordLost
  BY DEF Sound, Told
<1> QED
  BY <1>1, SoundInit, SoundStep, PTL DEF Spec

-----------------------------------------------------------------------------
(* Escalation.                                                              *)

\* Items are numbered in the order of their creation, each record its own.
Numbered ==
    /\ \A r \in Records :
         /\ itemId[r] <= ids
         /\ itemId[r] = 0 => status[r] = "none"
         /\ itemId[r] = 0 => escalations[r] = 0
         /\ status[r] = "none" => operation[r] = 0
    /\ \A c \in Calls : pc[c] # "idle" => op[c] # 0
    /\ \A r, s \in Records : itemId[r] = itemId[s] /\ itemId[r] # 0 => r = s
    /\ \A i \in announced : i <= ids

Once == TypeOK /\ Numbered /\ EscalatedOnce

LEMMA OnceInit == Init => Once
  BY TypeInit DEF Init, Once, Numbered, EscalatedOnce

\* The steps that create no item and escalate none.
Still ==
    /\ UNCHANGED <<itemId, escalations, announced, ids>>
    /\ \A r \in Records : status[r] = "none" => status'[r] = "none"

\* The items and the calls keep their part of Numbered.
Operated ==
    /\ \A r \in Records : status[r] = "none" => operation[r] = 0
    /\ \A c \in Calls : pc[c] # "idle" => op[c] # 0

LEMMA OnceFrame == ASSUME Once, Still, Operated' PROVE Numbered' /\ EscalatedOnce'
  BY DEF Once, Numbered, EscalatedOnce, Still, Operated

LEMMA CallOnce ==
    ASSUME Once, NEW c \in Calls, Advance(c) \/ Crash(c)
    PROVE  Numbered' /\ EscalatedOnce'
<1> USE DEF Served, items, history, counts, call, At, Goto
<1> DEFINE q == rec[c]
<1>1. CASE Park(c)
  <2>1. q \in Records
    BY <1>1 DEF Once, TypeOK, Park
  <2>2. Operated'
    BY <1>1, <2>1 DEF Park, Once, TypeOK, Numbered, Operated
  <2>3. CASE status[q] = "none"
    <3>1. /\ ids' = ids + 1
          /\ itemId' = [itemId EXCEPT ![q] = ids + 1]
          /\ escalations' = [escalations EXCEPT ![q] = 0]
          /\ status' = [status EXCEPT ![q] = "queued"]
          /\ announced' = announced
      BY <1>1, <2>3 DEF Park
    <3> QED
      BY <2>1, <2>2, <3>1 DEF Once, TypeOK, Numbered, EscalatedOnce, Operated
  <2>4. CASE status[q] # "none"
    BY <1>1, <2>1, <2>2, <2>4, OnceFrame DEF Park, Once, TypeOK, Still
  <2> QED
    BY <2>3, <2>4
<1>2. CASE \/ CheckAssignee(c) \/ SelectCandidate(c) \/ Commit(c) \/ CommitRaceLost(c)
           \/ CommitFails(c) \/ CleanQueueFails(c) \/ Finish(c) \/ FinishFails(c)
           \/ ReleaseFails(c) \/ Crash(c)
  <2>1. Still /\ UNCHANGED <<status, operation>>
    BY <1>2 DEF CheckAssignee, SelectCandidate, Commit, CommitRaceLost, CommitFails,
           CleanQueueFails, Finish, FinishFails, ReleaseFails, Crash, Still
  <2>2. \A d \in Calls : pc'[d] # "idle" => pc[d] # "idle" /\ op'[d] = op[d]
    <3>1. CASE CheckAssignee(c) \/ SelectCandidate(c)
      BY <3>1 DEF CheckAssignee, SelectCandidate, GiveUp, Return, Once, TypeOK
    <3>2. CASE Commit(c) \/ CommitRaceLost(c) \/ CommitFails(c) \/ CleanQueueFails(c)
      BY <3>2 DEF Commit, CommitRaceLost, CommitFails, CleanQueueFails, GiveUp, Return,
             Once, TypeOK
    <3>3. CASE Finish(c) \/ FinishFails(c)
      BY <3>3 DEF Finish, FinishFails, GiveUp, Return, Once, TypeOK
    <3>4. CASE ReleaseFails(c) \/ Crash(c)
      BY <3>4 DEF ReleaseFails, Crash, Return, Once, TypeOK
    <3> QED
      BY <1>2, <3>1, <3>2, <3>3, <3>4
  <2>3. Operated'
    BY <2>1, <2>2 DEF Once, Numbered, Operated
  <2> QED
    BY <2>1, <2>3, OnceFrame
<1>3. CASE CleanQueue(c)
  <2>1. Still /\ Operated'
    BY <1>3 DEF CleanQueue, Remove, Once, TypeOK, Numbered, Still, Operated
  <2> QED
    BY <2>1, OnceFrame
<1>4. CASE Release(c)
  <2>1. q \in Records /\ op[c] # 0
    BY <1>4 DEF Release, Once, TypeOK, Numbered
  <2>2. status[q] = "none" => status' = status /\ operation' = operation
    BY <1>4, <2>1 DEF Release, Once, Numbered
  <2>3. Still /\ Operated'
    BY <1>4, <2>1, <2>2 DEF Release, Return, Once, TypeOK, Numbered, Still, Operated
  <2> QED
    BY <2>3, OnceFrame
<1> QED
  BY <1>1, <1>2, <1>3, <1>4 DEF Advance

LEMMA OnceStep == Once /\ [Next]_vars => Once'
<1> SUFFICES ASSUME Once, [Next]_vars PROVE Numbered' /\ EscalatedOnce'
  BY TypeStep DEF Once
<1> USE DEF Served, items, history, counts, call, At, Goto
<1>1. ASSUME NEW c \in Calls, NEW r \in Records,
             Retry(c, r) \/ Decide(c, r) \/ \E a \in Agents : Claim(c, r, a)
      PROVE  Numbered' /\ EscalatedOnce'
  <2>1. Still
    BY <1>1 DEF Retry, Decide, Claim, Acquire, Start, Still, Once, TypeOK
  <2>2. Operated'
    BY <1>1 DEF Retry, Decide, Claim, Acquire, Start, Operated, Once, TypeOK, Numbered
  <2> QED
    BY <2>1, <2>2, OnceFrame
<1>2. ASSUME NEW r \in Records, RecoverStale(r) PROVE Numbered' /\ EscalatedOnce'
  <2>1. Still /\ Operated'
    BY <1>2 DEF RecoverStale, Busy, Still, Operated, Once, TypeOK, Numbered
  <2> QED
    BY <2>1, OnceFrame
<1>3. ASSUME NEW x \in Replicas, FindOverdue(x) \/ EscalateFails(x)
      PROVE  Numbered' /\ EscalatedOnce'
  <2>1. Still /\ Operated'
    BY <1>3 DEF FindOverdue, EscalateFails, Still, Operated, Once, Numbered
  <2> QED
    BY <2>1, OnceFrame
<1>4. ASSUME NEW x \in Replicas, NEW i \in due[x], Escalate(x, i)
      PROVE  Numbered' /\ EscalatedOnce'
  <2> DEFINE hit == {r \in Records : itemId[r] = i /\ StillWaiting(r)}
  <2>1. /\ escalations' = [r \in Records |->
                              IF r \in hit THEN escalations[r] + 1 ELSE escalations[r]]
        /\ announced' = IF hit = {} THEN announced ELSE announced \cup {i}
        /\ UNCHANGED <<status, itemId, operation, ids, pc, op>>
    BY <1>4 DEF Escalate
  <2>2. CASE hit = {}
    <3>1. escalations' = escalations /\ announced' = announced
      BY <2>1, <2>2 DEF Once, TypeOK
    <3> QED
      BY <2>1, <3>1, OnceFrame DEF Still, Operated, Once, Numbered
  <2>3. ASSUME NEW s \in hit PROVE Numbered' /\ EscalatedOnce'
    <3>1. /\ s \in Records /\ itemId[s] = i /\ i # 0 /\ i <= ids
          /\ escalations[s] = 0
          /\ \A r \in Records : itemId[r] = i <=> r = s
      BY <2>3 DEF StillWaiting, Waiting, Once, TypeOK, Numbered
    <3>2. /\ \A r \in Records : escalations'[r] = IF r = s THEN 1 ELSE escalations[r]
          /\ announced' = announced \cup {i}
      <4>1. \A r \in Records : r \in hit <=> r = s
        BY <2>3, <3>1
      <4> QED
        BY <2>1, <2>3, <3>1, <4>1 DEF Once, TypeOK
    <3>3. Numbered'
      BY <2>1, <3>1, <3>2 DEF Once, TypeOK, Numbered
    <3>4. EscalatedOnce'
      BY <2>1, <3>1, <3>2 DEF Once, TypeOK, EscalatedOnce
    <3> QED
      BY <3>3, <3>4
  <2> QED
    BY <2>2, <2>3
<1>5. ASSUME NEW r \in Records, NEW a \in Agents \cup {None}, ChangeOwner(r, a)
      PROVE  Numbered' /\ EscalatedOnce'
  <2>1. Still /\ Operated'
    BY <1>5 DEF ChangeOwner, Still, Operated, Once, Numbered
  <2> QED
    BY <2>1, OnceFrame
<1>6. ASSUME NEW e \in pending, HandleLifecycle(e) PROVE Numbered' /\ EscalatedOnce'
  <2>1. Still /\ Operated'
    BY <1>6 DEF HandleLifecycle, Remove, Still, Operated, Once, TypeOK, Numbered
  <2> QED
    BY <2>1, OnceFrame
<1>7. CASE UNCHANGED vars
  BY <1>7 DEF vars, Once, Numbered, EscalatedOnce
<1> QED
  BY <1>1, <1>2, <1>3, <1>4, <1>5, <1>6, <1>7, CallOnce DEF Next

(* However many replicas find it, an item is escalated and announced once. *)
THEOREM EscalationIsOnce == Spec => []EscalatedOnce
<1>1. Once => EscalatedOnce
  BY DEF Once
<1> QED
  BY <1>1, OnceInit, OnceStep, PTL DEF Spec

-----------------------------------------------------------------------------
(* Steps.                                                                   *)

\* What a step of one call, or of no call, does to the place of another.
LEMMA OthersStay ==
    ASSUME TypeOK, [Next]_vars, NEW c \in Calls, pc[c] = "release", pc'[c] = "idle"
    PROVE  Release(c) \/ ReleaseFails(c) \/ Crash(c)
<1> USE DEF Served, items, history, counts, call, At, Goto, TypeOK
<1>1. ASSUME NEW d \in Calls, Advance(d) \/ Crash(d)
      PROVE  Release(c) \/ ReleaseFails(c) \/ Crash(c)
  <2>1. \E l \in Pcs : pc' = [pc EXCEPT ![d] = l]
    <3>1. CASE CheckAssignee(d) \/ SelectCandidate(d) \/ Commit(d) \/ CommitRaceLost(d)
               \/ CommitFails(d)
      BY <3>1 DEF CheckAssignee, SelectCandidate, Commit, CommitRaceLost, CommitFails,
             GiveUp, Return, Pcs
    <3>2. CASE CleanQueue(d) \/ CleanQueueFails(d) \/ Park(d) \/ Finish(d)
               \/ FinishFails(d) \/ Release(d) \/ ReleaseFails(d) \/ Crash(d)
      BY <3>2 DEF CleanQueue, CleanQueueFails, Park, Finish, FinishFails, Release,
             ReleaseFails, Crash, GiveUp, Return, Pcs
    <3> QED
      BY <1>1, <3>1, <3>2 DEF Advance
  <2>2. d = c
    BY <2>1
  <2> QED
    BY <1>1, <2>2 DEF Advance, CheckAssignee, SelectCandidate, Commit, CommitRaceLost,
       CommitFails, CleanQueue, CleanQueueFails, Park, Finish, FinishFails
<1>2. ASSUME NEW d \in Calls, NEW r \in Records,
             Retry(d, r) \/ Decide(d, r) \/ \E a \in Agents : Claim(d, r, a)
      PROVE  FALSE
  BY <1>2 DEF Retry, Decide, Claim, Acquire, Start
<1>3. ASSUME pc' = pc PROVE FALSE
  BY <1>3
<1> QED
  BY <1>1, <1>2, <1>3 DEF Next, RecoverStale, FindOverdue, EscalateFails, Escalate,
     ChangeOwner, HandleLifecycle, vars

(* An operation that ends puts back the item it holds and no other. *)
THEOREM ReleasesAreOwn == Spec => ReleaseIsOwn
<1>1. ASSUME TypeOK, [Next]_vars, NEW c \in Calls, NEW r \in Records,
             At(c, "release"), pc'[c] = "idle", operation[r] # op[c]
      PROVE  status'[r] = status[r] /\ operation'[r] = operation[r]
  <2>1. CASE Release(c)
    BY <1>1, <2>1 DEF Release, TypeOK
  <2>2. CASE ReleaseFails(c) \/ Crash(c)
    BY <2>2 DEF ReleaseFails, Crash, items
  <2> QED
    BY <1>1, <2>1, <2>2, OthersStay DEF At
<1>2. TypeOK /\ [Next]_vars =>
        [\A c \in Calls, r \in Records :
           At(c, "release") /\ pc'[c] = "idle" /\ operation[r] # op[c]
             => status'[r] = status[r] /\ operation'[r] = operation[r]]_vars
  BY <1>1
<1> QED
  BY <1>2, Typing, PTL DEF Spec, ReleaseIsOwn
=============================================================================
