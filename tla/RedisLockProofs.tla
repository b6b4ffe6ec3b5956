--------------------------- MODULE RedisLockProofs ---------------------------
(***************************************************************************)
(* Proofs about RedisLock, for any set of callers and any retry bound:     *)
(* type correctness, mutual exclusion while no TTL is missed, and the      *)
(* safety of the compare-and-delete release.                               *)
(***************************************************************************)
EXTENDS RedisLock, TLAPS

\* The state has its type: in particular the loop counter of acquire() never
\* passes maxRetries.
THEOREM Typing == Spec => []TypeOK
<1>1. Init => TypeOK
  BY MaxRetriesAssumption DEF Init, TypeOK
<1>2. TypeOK /\ [Next]_vars => TypeOK'
  <2> SUFFICES ASSUME TypeOK, [Next]_vars PROVE TypeOK'
    OBVIOUS
  <2> USE MaxRetriesAssumption DEF TypeOK, Awake
  <2>1. ASSUME NEW p \in Procs, Call(p) PROVE TypeOK'
    BY <2>1 DEF Call
  <2>2. ASSUME NEW p \in Procs, Take(p) PROVE TypeOK'
    BY <2>2 DEF Take
  <2>3. ASSUME NEW p \in Procs, Contend(p) PROVE TypeOK'
    BY <2>3 DEF Contend, MayTry
  <2>4. ASSUME NEW p \in Procs, GiveUp(p) PROVE TypeOK'
    BY <2>4 DEF GiveUp
  <2>5. ASSUME NEW p \in Procs, HeartbeatFails(p) PROVE TypeOK'
    BY <2>5 DEF HeartbeatFails
  <2>6. ASSUME NEW p \in Procs, Settle(p) PROVE TypeOK'
    BY <2>6 DEF Settle
  <2>7. ASSUME NEW p \in Procs, Release(p) PROVE TypeOK'
    BY <2>7 DEF Release, Unlock
  <2>8. ASSUME NEW p \in Procs, Stall(p) PROVE TypeOK'
    BY <2>8 DEF Stall
  <2>9. ASSUME NEW p \in Procs, Resume(p) PROVE TypeOK'
    BY <2>9 DEF Resume
  <2>10. ASSUME NEW p \in Procs, Crash(p) PROVE TypeOK'
    BY <2>10 DEF Crash
  <2>11. ASSUME NEW p \in Procs, Expire(p) PROVE TypeOK'
    BY <2>11 DEF Expire
  <2>12. CASE UNCHANGED vars
    BY <2>12 DEF vars
  <2> QED
    BY <2>1, <2>2, <2>3, <2>4, <2>5, <2>6, <2>7, <2>8, <2>9, <2>10, <2>11, <2>12
       DEF Next, Step
<1> QED
  BY <1>1, <1>2, PTL DEF Spec

\* The key names its holder, unless it has expired since the holder took it.
HolderOwnsKey == \A p \in Procs : Holding(p) /\ ~lapsed[p] => lock = p

LEMMA HolderOwnsKeyIsInvariant == Spec => []HolderOwnsKey
<1>1. Init => HolderOwnsKey
  BY DEF Init, HolderOwnsKey, Holding
<1>2. TypeOK /\ HolderOwnsKey /\ [Next]_vars => HolderOwnsKey'
  <2> SUFFICES ASSUME TypeOK, HolderOwnsKey, [Next]_vars PROVE HolderOwnsKey'
    OBVIOUS
  <2> USE NoneAssumption DEF TypeOK, HolderOwnsKey, Holding, Awake
  <2>1. ASSUME NEW p \in Procs, Call(p) PROVE HolderOwnsKey'
    BY <2>1 DEF Call
  \* SET NX succeeds on a missing key: whoever else holds has lapsed.
  <2>2. ASSUME NEW p \in Procs, Take(p) PROVE HolderOwnsKey'
    BY <2>2 DEF Take
  <2>3. ASSUME NEW p \in Procs, Contend(p) PROVE HolderOwnsKey'
    BY <2>3 DEF Contend
  <2>4. ASSUME NEW p \in Procs, GiveUp(p) PROVE HolderOwnsKey'
    BY <2>4 DEF GiveUp
  <2>5. ASSUME NEW p \in Procs, HeartbeatFails(p) PROVE HolderOwnsKey'
    BY <2>5 DEF HeartbeatFails
  <2>6. ASSUME NEW p \in Procs, Settle(p) PROVE HolderOwnsKey'
    BY <2>6 DEF Settle
  \* The script removes the key only when it is the releaser's own.
  <2>7. ASSUME NEW p \in Procs, Release(p) PROVE HolderOwnsKey'
    BY <2>7 DEF Release, Unlock
  <2>8. ASSUME NEW p \in Procs, Stall(p) PROVE HolderOwnsKey'
    BY <2>8 DEF Stall
  <2>9. ASSUME NEW p \in Procs, Resume(p) PROVE HolderOwnsKey'
    BY <2>9 DEF Resume
  <2>10. ASSUME NEW p \in Procs, Crash(p) PROVE HolderOwnsKey'
    BY <2>10 DEF Crash
  <2>11. ASSUME NEW p \in Procs, Expire(p) PROVE HolderOwnsKey'
    BY <2>11 DEF Expire
  <2>12. CASE UNCHANGED vars
    BY <2>12 DEF vars
  <2> QED
    BY <2>1, <2>2, <2>3, <2>4, <2>5, <2>6, <2>7, <2>8, <2>9, <2>10, <2>11, <2>12
       DEF Next, Step
<1> QED
  BY <1>1, <1>2, Typing, PTL DEF Spec

\* Two callers are inside acquire() together only after one of them missed its TTL.
THEOREM MutualExclusionHolds == Spec => []MutualExclusion
<1>1. HolderOwnsKey => MutualExclusion
  BY DEF HolderOwnsKey, MutualExclusion
<1> QED
  BY <1>1, HolderOwnsKeyIsInvariant, PTL

\* A release never removes the key of another caller, whatever has lapsed.
THEOREM ReleaseSparesSuccessor == Spec => SuccessorKeepsLock
<1> DEFINE Spared == \A p, q \in Procs :
             p # q /\ pc[p] = "releasing" /\ pc'[p] = "idle" /\ lock = q => lock' = q
<1>1. TypeOK /\ [Next]_vars => [Spared]_vars
  <2> SUFFICES ASSUME TypeOK, [Next]_vars,
                      NEW p \in Procs, NEW q \in Procs,
                      p # q, pc[p] = "releasing", pc'[p] = "idle", lock = q,
                      vars' # vars
               PROVE  lock' = q
    OBVIOUS
  <2> USE DEF TypeOK, Awake
  \* Only Release and Crash take a caller from "releasing" to "idle".
  <2>1. PICK s \in Procs : Step(s)
    BY DEF Next
  <2>2. CASE Release(s)
    BY <2>2 DEF Release, Unlock
  <2>3. CASE Crash(s)
    BY <2>3 DEF Crash
  <2>4. CASE Expire(s)
    BY <2>4 DEF Expire
  <2>5. CASE Take(s)
    BY <2>5 DEF Take
  <2>6. CASE Call(s) \/ Contend(s) \/ GiveUp(s) \/ HeartbeatFails(s) \/ Settle(s)
             \/ Stall(s) \/ Resume(s)
    BY <2>6 DEF Call, Contend, GiveUp, HeartbeatFails, Settle, Stall, Resume
  <2> QED
    BY <2>1, <2>2, <2>3, <2>4, <2>5, <2>6 DEF Step
<1> QED
  BY <1>1, Typing, PTL DEF Spec, SuccessorKeepsLock
=============================================================================
