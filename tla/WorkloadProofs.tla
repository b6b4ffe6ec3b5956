--------------------------- MODULE WorkloadProofs ---------------------------
(***************************************************************************)
(* Proofs about Workload for any finite set of records, any candidates,    *)
(* decisions, ceiling and bounds: its types, so no counter is negative,    *)
(* and that only the seed of a decision brings back an expired score.      *)
(***************************************************************************)
EXTENDS Workload, TLAPS, FiniteSetTheorems

USE WorkloadAssumption

LEMMA OpenWorkType == OpenWork \in Scores
<1>1. ASSUME NEW a \in Agents
      PROVE  Cardinality({r \in Records : owner[r] = a}) \in Nat
  BY FS_Subset, FS_CardinalityType
<1> QED
  BY <1>1 DEF OpenWork, Scores

LEMMA ZeroType == Zero \in Scores
  BY DEF Zero, Scores

\* The parts of the type that the store, the decisions and the cron own.
StoreOK == tracked \subseteq Agents /\ load \in Scores

DecisionOK ==
    /\ pc \in [Decisions -> {"idle", "count", "seed", "reserve", "commit", "release"}]
    /\ rec \in [Decisions -> Records \cup {None}]
    /\ counts \in [Decisions -> Scores]
    /\ pick \in [Decisions -> Agents \cup {None}]
    /\ \A d \in Decisions :
         /\ pc[d] # "idle" => rec[d] \in Records
         /\ pc[d] \in {"commit", "release"} => pick[d] \in Agents

CronOK ==
    /\ stage \in {"idle", "read", "write"}
    /\ members \subseteq Agents
    /\ stored \in Scores \cup {None}
    /\ actual \in Scores \cup {None}
    /\ stage = "write" => actual \in Scores

WorldOK ==
    /\ owner \in [Records -> Agents \cup {None}]
    /\ pending \subseteq [id : Nat, who : Agents, by : {"plus", "minus"}]
    /\ moves \in Nat /\ incidents \in Nat

LEMMA Parts == TypeOK <=> StoreOK /\ DecisionOK /\ CronOK /\ WorldOK
  BY DEF TypeOK, StoreOK, DecisionOK, CronOK, WorldOK

LEMMA PartsNext == StoreOK' /\ DecisionOK' /\ CronOK' /\ WorldOK' => TypeOK'
  BY DEF TypeOK, StoreOK, DecisionOK, CronOK, WorldOK

LEMMA ReturnTyped == ASSUME DecisionOK, NEW d \in Decisions, Return(d) PROVE DecisionOK'
  BY ZeroType DEF DecisionOK, Return, Goto

LEMMA IncidentTyped ==
    ASSUME WorldOK, NEW f, Smooth \/ Incident(f), UNCHANGED <<owner, pending, moves>>
    PROVE  WorldOK'
  BY DEF WorldOK, Smooth, Incident

LEMMA LowerTyped == ASSUME StoreOK, NEW a \in Agents, Lower(a) PROVE load' \in Scores
  BY DEF StoreOK, Lower, Scores

LEMMA RaiseTyped == ASSUME StoreOK, NEW a \in Agents, Raise(a) PROVE load' \in Scores
  BY DEF StoreOK, Raise, Scores

LEMMA Framed ==
    /\ StoreOK /\ UNCHANGED store => StoreOK'
    /\ DecisionOK /\ UNCHANGED decisions => DecisionOK'
    /\ CronOK /\ UNCHANGED cron => CronOK'
    /\ WorldOK /\ UNCHANGED <<owner, world>> => WorldOK'
  BY DEF StoreOK, DecisionOK, CronOK, WorldOK, store, decisions, cron, world

LEMMA TypeInit == Init => TypeOK
<1> SUFFICES ASSUME Init PROVE StoreOK /\ DecisionOK /\ CronOK /\ WorldOK
  BY Parts
<1> QED
  BY ZeroType DEF Init, StoreOK, DecisionOK, CronOK, WorldOK

LEMMA DecisionTyped ==
    ASSUME TypeOK, NEW d \in Decisions,
           Advance(d) \/ Crash(d) \/ \E r \in Records : Start(d, r)
    PROVE  TypeOK'
<1>0. StoreOK /\ DecisionOK /\ CronOK /\ WorldOK
  BY Parts
<1>1. ASSUME NEW r \in Records, Start(d, r) PROVE TypeOK'
  <2>1. DecisionOK'
    BY <1>0, <1>1 DEF Start, DecisionOK, Goto
  <2> QED
    BY <1>0, <1>1, <2>1, Framed, PartsNext DEF Start
<1>2. CASE Count(d)
  <2>1. DecisionOK'
    BY <1>0, <1>2, OpenWorkType, ZeroType DEF Count, DecisionOK, At, Goto
  <2>2. Smooth \/ Incident("mongo")
    BY <1>2 DEF Count, Counted
  <2>3. WorldOK'
    BY <1>0, <1>2, <2>2, IncidentTyped DEF Count
  <2> QED
    BY <1>0, <1>2, <2>1, <2>3, Framed, PartsNext DEF Count
<1>3. CASE Seed(d)
  <2>1. DecisionOK'
    BY <1>0, <1>3, ZeroType DEF Seed, DecisionOK, At, Goto
  <2>2. StoreOK'
    BY <1>0, <1>3 DEF Seed, StoreOK, DecisionOK, Scores
  <2> QED
    BY <1>0, <1>3, <2>1, <2>2, Framed, PartsNext DEF Seed
<1>4. CASE Reserve(d)
  <2> PICK a \in tracked :
        load' = [load EXCEPT ![a] = @ + 1] /\ pick' = [pick EXCEPT ![d] = a]
    BY <1>4 DEF Reserve
  <2>0. a \in Agents
    BY <1>0 DEF StoreOK
  <2>1. DecisionOK'
    BY <1>0, <1>4, <2>0 DEF Reserve, DecisionOK, At, Goto
  <2>2. StoreOK'
    BY <1>0, <1>4, <2>0 DEF Reserve, StoreOK, Scores
  <2> QED
    BY <1>0, <1>4, <2>1, <2>2, Framed, PartsNext DEF Reserve
<1>5. CASE NoneReserved(d)
  BY <1>0, <1>5, ReturnTyped, Framed, PartsNext DEF NoneReserved
<1>6. CASE Commit(d)
  <2>1. WorldOK'
    BY <1>0, <1>6 DEF Commit, WorldOK, DecisionOK, At, world
  <2> QED
    BY <1>0, <1>6, <2>1, ReturnTyped, Framed, PartsNext DEF Commit
<1>7. CASE CommitFails(d)
  <2>1. DecisionOK'
    BY <1>0, <1>7 DEF CommitFails, DecisionOK, At, Goto
  <2>2. WorldOK'
    BY <1>0, <1>7, IncidentTyped DEF CommitFails
  <2> QED
    BY <1>0, <1>7, <2>1, <2>2, Framed, PartsNext DEF CommitFails
<1>8. CASE Release(d)
  <2>1. pick[d] \in Agents
    BY <1>0, <1>8 DEF Release, DecisionOK, At
  <2>2. StoreOK'
    BY <1>0, <1>8, <2>1, LowerTyped DEF Release, StoreOK
  <2> QED
    BY <1>0, <1>8, <2>2, ReturnTyped, Framed, PartsNext DEF Release
<1>9. CASE Crash(d)
  <2>1. WorldOK'
    BY <1>0, <1>9, IncidentTyped DEF Crash
  <2> QED
    BY <1>0, <1>9, <2>1, ReturnTyped, Framed, PartsNext DEF Crash
<1> QED
  BY <1>1, <1>2, <1>3, <1>4, <1>5, <1>6, <1>7, <1>8, <1>9 DEF Advance

LEMMA CronTyped == ASSUME TypeOK, Reconcile \/ CronFails PROVE TypeOK'
<1>0. StoreOK /\ DecisionOK /\ CronOK /\ WorldOK
  BY Parts
<1>1. CASE FindMembers
  <2>1. CronOK'
    BY <1>0, <1>1 DEF FindMembers, CronOK, StoreOK
  <2> QED
    BY <1>0, <1>1, <2>1, Framed, PartsNext DEF FindMembers
<1>2. CASE ReadScores
  <2>1. CronOK'
    BY <1>0, <1>2 DEF ReadScores, CronOK, StoreOK
  <2> QED
    BY <1>0, <1>2, <2>1, Framed, PartsNext DEF ReadScores
<1>3. CASE ReadActual
  <2>1. CronOK'
    BY <1>0, <1>3, OpenWorkType, ZeroType DEF ReadActual, CronOK
  <2>2. Smooth \/ Incident("mongo")
    BY <1>3 DEF ReadActual, Counted
  <2>3. WorldOK'
    BY <1>0, <1>3, <2>2, IncidentTyped DEF ReadActual
  <2> QED
    BY <1>0, <1>3, <2>1, <2>3, Framed, PartsNext DEF ReadActual
<1>4. CASE Compare
  <2>1. CronOK'
    BY <1>0, <1>4 DEF Compare, Rest, CronOK
  <2> QED
    BY <1>0, <1>4, <2>1, Framed, PartsNext DEF Compare
<1>5. CASE Overwrite
  <2>1. CronOK'
    BY <1>0, <1>5 DEF Overwrite, Rest, CronOK
  <2>2. StoreOK'
    BY <1>0, <1>5 DEF Overwrite, StoreOK, CronOK, Scores
  <2> QED
    BY <1>0, <1>5, <2>1, <2>2, Framed, PartsNext DEF Overwrite
<1>6. CASE CronFails
  <2>1. CronOK'
    BY <1>0, <1>6 DEF CronFails, Rest, CronOK
  <2>2. WorldOK'
    BY <1>0, <1>6, IncidentTyped DEF CronFails
  <2> QED
    BY <1>0, <1>6, <2>1, <2>2, Framed, PartsNext DEF CronFails
<1> QED
  BY <1>1, <1>2, <1>3, <1>4, <1>5, <1>6 DEF Reconcile

LEMMA WorldTyped ==
    ASSUME TypeOK,
           \/ Expire
           \/ \E r \in Records, a \in Agents \cup {None} : ChangeOwner(r, a)
           \/ \E e \in pending : Adjust(e) \/ LoseAdjustment(e)
    PROVE  TypeOK'
<1>0. StoreOK /\ DecisionOK /\ CronOK /\ WorldOK
  BY Parts
<1>1. CASE Expire
  <2>1. StoreOK'
    BY <1>1, ZeroType DEF Expire, StoreOK
  <2>2. WorldOK'
    BY <1>0, <1>1, IncidentTyped DEF Expire
  <2> QED
    BY <1>0, <1>1, <2>1, <2>2, Framed, PartsNext DEF Expire
<1>2. ASSUME NEW r \in Records, NEW a \in Agents \cup {None}, ChangeOwner(r, a)
      PROVE  TypeOK'
  <2>1. owner[r] \in Agents \cup {None}
    BY <1>0 DEF WorldOK
  <2>2. ASSUME NEW b \in Agents \cup {None}, NEW by \in {"plus", "minus"}
        PROVE  Adjustment(b, by) \subseteq [id : Nat, who : Agents, by : {"plus", "minus"}]
    BY <1>0 DEF Adjustment, WorldOK
  <2>3. WorldOK'
    BY <1>0, <1>2, <2>1, <2>2 DEF ChangeOwner, WorldOK
  <2> QED
    BY <1>0, <1>2, <2>3, Framed, PartsNext DEF ChangeOwner
<1>3. ASSUME NEW e \in pending, Adjust(e) PROVE TypeOK'
  <2>1. e.who \in Agents
    BY <1>0 DEF WorldOK
  <2>2. StoreOK'
    BY <1>0, <1>3, <2>1, LowerTyped, RaiseTyped DEF Adjust, StoreOK
  <2>3. WorldOK'
    BY <1>0, <1>3 DEF Adjust, WorldOK
  <2> QED
    BY <1>0, <1>3, <2>2, <2>3, Framed, PartsNext DEF Adjust
<1>4. ASSUME NEW e \in pending, LoseAdjustment(e) PROVE TypeOK'
  <2>1. WorldOK'
    BY <1>0, <1>4 DEF LoseAdjustment, WorldOK, Incident
  <2> QED
    BY <1>0, <1>4, <2>1, Framed, PartsNext DEF LoseAdjustment
<1> QED
  BY <1>1, <1>2, <1>3, <1>4

LEMMA TypeStep == TypeOK /\ [Next]_vars => TypeOK'
<1> SUFFICES ASSUME TypeOK, [Next]_vars PROVE TypeOK'
  OBVIOUS
<1>1. CASE UNCHANGED vars
  BY <1>1, Parts, PartsNext, Framed DEF vars
<1> QED
  BY <1>1, DecisionTyped, CronTyped, WorldTyped DEF Next

(* The state is typed; whatever is released, lost or overwritten, no score is
   negative. *)
THEOREM Typing == Spec => []TypeOK
  BY TypeInit, TypeStep, PTL DEF Spec

-----------------------------------------------------------------------------
(* An expired score is seeded by a decision and by nothing else. *)
THEOREM ExpiredStaysUntracked == Spec => OnlySeedTracks
<1>1. ASSUME TypeOK, [Next]_vars
      PROVE  tracked' \subseteq tracked
               \/ \E d \in Decisions : At(d, "seed") /\ pc'[d] = "reserve"
  <2>1. ASSUME NEW d \in Decisions, Seed(d)
        PROVE  At(d, "seed") /\ pc'[d] = "reserve"
    BY <1>1, <2>1 DEF Seed, Goto, At, TypeOK
  <2>2. ASSUME NEW d \in Decisions, NEW r \in Records, Start(d, r) PROVE tracked' = tracked
    BY <2>2 DEF Start, store
  <2>3. ASSUME NEW d \in Decisions,
               \/ Count(d) \/ Reserve(d) \/ NoneReserved(d)
               \/ Commit(d) \/ CommitFails(d) \/ Release(d) \/ Crash(d)
        PROVE  tracked' = tracked
    BY <2>3 DEF Count, Reserve, NoneReserved, Commit, CommitFails, Release, Crash, store
  <2>4. CASE Reconcile \/ CronFails
    BY <2>4 DEF Reconcile, FindMembers, ReadScores, ReadActual, Compare, Overwrite,
           CronFails, store
  <2>5. CASE Expire
    BY <2>5 DEF Expire
  <2>6. ASSUME NEW r \in Records, NEW a \in Agents \cup {None}, ChangeOwner(r, a)
        PROVE  tracked' = tracked
    BY <2>6 DEF ChangeOwner, store
  <2>7. ASSUME NEW e \in pending, Adjust(e) \/ LoseAdjustment(e)
        PROVE  tracked' = tracked
    BY <2>7 DEF Adjust, LoseAdjustment, store
  <2>8. CASE UNCHANGED vars
    BY <2>8 DEF vars, store
  <2> QED
    BY <1>1, <2>1, <2>2, <2>3, <2>4, <2>5, <2>6, <2>7, <2>8 DEF Next, Advance
<1>2. TypeOK /\ [Next]_vars =>
        [tracked' \subseteq tracked
           \/ \E d \in Decisions : At(d, "seed") /\ pc'[d] = "reserve"]_vars
  BY <1>1
<1> QED
  BY <1>2, Typing, PTL DEF Spec, OnlySeedTracks
=============================================================================
