----------------------------- MODULE RedisLock -----------------------------
(***************************************************************************)
(* RedisLockService.acquire (src/src/redis/redis-lock.service.ts): a lease *)
(* on one Redis key, SET NX PX under a fresh token, extended by a          *)
(* heartbeat while the callback runs, removed by a compare-and-delete.     *)
(* Every cluster-singleton cron (runAsClusterSingleton) goes through it.   *)
(*                                                                         *)
(* Time is abstract.  A holder that runs heartbeats within the TTL, so its *)
(* key can expire only while the holder is stalled (event loop paused,     *)
(* network cut) or after it has crashed.  A token is the process that set  *)
(* it: a restarted process cannot hold a second token before the key of    *)
(* the first is gone.                                                      *)
(***************************************************************************)
EXTENDS Naturals

CONSTANTS
    Procs,       \* the callers: replicas of the application
    MaxRetries,  \* effectiveMaxRetries of the call
    None         \* the key does not exist

ASSUME MaxRetriesAssumption == MaxRetries \in Nat
ASSUME NoneAssumption == None \notin Procs

VARIABLES
    lock,     \* value of the Redis key: the process that set it, or None
    pc,       \* where each caller is in acquire()
    retries,  \* the loop counter of acquire()
    lost,     \* lockLost: the heartbeat has seen that the key is not ours
    lapsed,   \* history: the key expired while this call was holding it
    stalled   \* the process is paused: it runs nothing, its key may expire

vars == <<lock, pc, retries, lost, lapsed, stalled>>

TypeOK ==
    /\ lock \in Procs \cup {None}
    /\ pc \in [Procs -> {"idle", "waiting", "running", "releasing"}]
    /\ retries \in [Procs -> 0 .. MaxRetries]
    /\ lost \in [Procs -> BOOLEAN]
    /\ lapsed \in [Procs -> BOOLEAN]
    /\ stalled \in [Procs -> BOOLEAN]

Init ==
    /\ lock = None
    /\ pc = [p \in Procs |-> "idle"]
    /\ retries = [p \in Procs |-> 0]
    /\ lost = [p \in Procs |-> FALSE]
    /\ lapsed = [p \in Procs |-> FALSE]
    /\ stalled = [p \in Procs |-> FALSE]

-----------------------------------------------------------------------------
(* One call of acquire().                                                   *)

Awake(p) == ~stalled[p]

\* The service is called: a cron tick, or any other caller.
Call(p) ==
    /\ Awake(p) /\ pc[p] = "idle"
    /\ pc' = [pc EXCEPT ![p] = "waiting"]
    /\ retries' = [retries EXCEPT ![p] = 0]
    /\ UNCHANGED <<lock, lost, lapsed, stalled>>

\* Mutant: one attempt too many.
MayTryOnceMore(p) == retries[p] <= MaxRetries

\* The loop goes round only while this holds.
MayTry(p) == retries[p] < MaxRetries

\* SET key token PX ttl NX, which succeeds.
Take(p) ==
    /\ Awake(p) /\ pc[p] = "waiting" /\ MayTry(p)
    /\ lock = None
    /\ lock' = p
    /\ pc' = [pc EXCEPT ![p] = "running"]
    /\ lost' = [lost EXCEPT ![p] = FALSE]
    /\ lapsed' = [lapsed EXCEPT ![p] = FALSE]
    /\ UNCHANGED <<retries, stalled>>

\* SET ... NX finds the key: count the attempt and sleep for the retry delay.
Contend(p) ==
    /\ Awake(p) /\ pc[p] = "waiting" /\ MayTry(p)
    /\ lock # None
    /\ retries' = [retries EXCEPT ![p] = @ + 1]
    /\ UNCHANGED <<lock, pc, lost, lapsed, stalled>>

\* Mutant: the loop ends at one bound and the error is thrown at another.
GiveUpLate(p) ==
    /\ Awake(p) /\ pc[p] = "waiting" /\ retries[p] > MaxRetries
    /\ pc' = [pc EXCEPT ![p] = "idle"]
    /\ UNCHANGED <<lock, retries, lost, lapsed, stalled>>

\* The loop is over: "Could not acquire lock for key ...".
GiveUp(p) ==
    /\ Awake(p) /\ pc[p] = "waiting" /\ ~MayTry(p)
    /\ pc' = [pc EXCEPT ![p] = "idle"]
    /\ UNCHANGED <<lock, retries, lost, lapsed, stalled>>

\* The heartbeat's extend script: the key is no longer ours, or the call failed.
HeartbeatFails(p) ==
    /\ Awake(p) /\ pc[p] = "running"
    /\ lost' = [lost EXCEPT ![p] = TRUE]
    /\ UNCHANGED <<lock, pc, retries, lapsed, stalled>>

\* The callback settles, with a value or an error; `finally` comes next.
Settle(p) ==
    /\ Awake(p) /\ pc[p] = "running"
    /\ pc' = [pc EXCEPT ![p] = "releasing"]
    /\ UNCHANGED <<lock, retries, lost, lapsed, stalled>>

\* Mutant: a plain DEL.
UnlockAnyToken(p) == None

\* The release script deletes the key only when it still holds our token.
Unlock(p) == IF lock = p THEN None ELSE lock

\* `finally`: stop the heartbeat, run the release script, return to the caller.
Release(p) ==
    /\ Awake(p) /\ pc[p] = "releasing"
    /\ lock' = Unlock(p)
    /\ pc' = [pc EXCEPT ![p] = "idle"]
    /\ UNCHANGED <<retries, lost, lapsed, stalled>>

-----------------------------------------------------------------------------
(* The environment.                                                         *)

Holding(p) == pc[p] \in {"running", "releasing"}

Stall(p) ==
    /\ Awake(p) /\ Holding(p)
    /\ stalled' = [stalled EXCEPT ![p] = TRUE]
    /\ UNCHANGED <<lock, pc, retries, lost, lapsed>>

Resume(p) ==
    /\ stalled[p]
    /\ stalled' = [stalled EXCEPT ![p] = FALSE]
    /\ UNCHANGED <<lock, pc, retries, lost, lapsed>>

\* The process dies and comes back; its key is left to the TTL.
Crash(p) ==
    /\ pc[p] # "idle"
    /\ pc' = [pc EXCEPT ![p] = "idle"]
    /\ stalled' = [stalled EXCEPT ![p] = FALSE]
    /\ UNCHANGED <<lock, retries, lost, lapsed>>

\* Mutant: SET without PX.
ExpireNever(p) == FALSE /\ UNCHANGED vars

\* The TTL runs out: nobody extends the key of a stalled or dead holder.
Expire(p) ==
    /\ lock = p
    /\ stalled[p] \/ ~Holding(p)
    /\ lock' = None
    /\ lapsed' = [lapsed EXCEPT ![p] = TRUE]
    /\ UNCHANGED <<pc, retries, lost, stalled>>

Step(p) ==
    \/ Call(p)
    \/ Take(p)
    \/ Contend(p)
    \/ GiveUp(p)
    \/ HeartbeatFails(p)
    \/ Settle(p)
    \/ Release(p)
    \/ Stall(p)
    \/ Resume(p)
    \/ Crash(p)
    \/ Expire(p)

Next == \E p \in Procs : Step(p)

Spec == Init /\ [][Next]_vars

(***************************************************************************)
(* Callbacks settle, calls return, paused processes come back and TTLs run *)
(* out.  Strong fairness on a caller's own steps says that pauses and      *)
(* crashes do not fall between the same two steps for ever.  Nobody has to *)
(* call, to stall, to crash or to miss a heartbeat.                        *)
(***************************************************************************)
Fairness ==
    \A p \in Procs :
        /\ SF_vars(Take(p))
        /\ SF_vars(Contend(p) \/ GiveUp(p))
        /\ SF_vars(Settle(p))
        /\ SF_vars(Release(p))
        /\ WF_vars(Resume(p))
        /\ WF_vars(Expire(p))

FairSpec == Spec /\ Fairness

-----------------------------------------------------------------------------
(* Properties.                                                              *)

\* Two callers are inside acquire() at once only when the key of one of them
\* expired under it: a critical section is shared only after a missed TTL.
MutualExclusion ==
    \A p, q \in Procs :
        Holding(p) /\ Holding(q) /\ ~lapsed[p] /\ ~lapsed[q] => p = q

\* A caller that outlived its TTL never removes the key of its successor:
\* the release of one call leaves everybody else's key in place.
SuccessorKeepsLock ==
    [][\A p, q \in Procs :
         p # q /\ pc[p] = "releasing" /\ pc'[p] = "idle" /\ lock = q
            => lock' = q]_vars

\* No key outlives its holder for ever: whatever stalls or crashes, a held
\* lock is released or expires.
LockIsFreed == \A p \in Procs : (lock = p) ~> (lock # p)

\* A call never waits for ever: it runs its callback and returns, or gives up.
CallReturns == \A p \in Procs : (pc[p] = "waiting") ~> (pc[p] = "idle")

\* While replicas keep asking for the lock, callbacks keep running: contention
\* delays a job on one replica and never stops it on all of them.
JobKeepsRunning ==
    []<>(\E p \in Procs : pc[p] = "waiting")
        => []<>(\E p \in Procs : pc[p] = "running")
=============================================================================
