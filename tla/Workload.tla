------------------------------ MODULE Workload ------------------------------
(***************************************************************************)
(* The load store of CRM record assignment: the ZSET assign:load:<scope>,  *)
(* which is seeded from a MongoDB aggregate, moved by the reservation      *)
(* scripts and by the lifecycle listener, expires, and is overwritten by   *)
(* the reconciliation cron.                                                *)
(*                                                                         *)
(* AssignmentCommand takes the store for seeded and unexpired and looks at *)
(* the decision; here a decision is only its reads and writes of the load, *)
(* under a strategy with a ceiling.  A member without a score is not in    *)
(* tracked.                                                                *)
(***************************************************************************)
EXTENDS Integers, FiniteSets

CONSTANTS
    Records,
    Agents,       \* candidates, who own the records
    Decisions,    \* concurrent decisions
    Cap,          \* defaultMaxCapacity
    None,
    Faults,       \* which incidents may happen
    MaxMoves,     \* bound: owner changes made by people
    MaxIncidents  \* bound: incidents

ASSUME WorkloadAssumption ==
    /\ IsFiniteSet(Records) /\ None \notin Agents \cup Records
    /\ Cap \in Nat \ {0}
    /\ Faults \subseteq {"crash", "mongo", "expiry", "lostEvent"}
    /\ MaxMoves \in Nat /\ MaxIncidents \in Nat

VARIABLES
    owner,    \* MongoDB: the owner of each open record
    tracked,  \* Redis: candidates with a score
    load,     \* Redis: their scores; 0 for the others
    pc, rec,  \* where each decision is, and its record
    counts,   \* the aggregate the decision has read
    pick,     \* the candidate it reserved
    stage,    \* where the reconciliation is
    members,  \* the members it found
    stored,   \* the scores it read, or None
    actual,   \* the aggregate it read, or None
    pending,  \* adjustments of lifecycle events still to be applied
    moves, incidents

decisions == <<pc, rec, counts, pick>>
cron == <<stage, members, stored, actual>>
store == <<tracked, load>>
world == <<pending, moves, incidents>>
vars == <<owner, store, decisions, cron, world>>

Scores == [Agents -> Nat]
Zero == [a \in Agents |-> 0]

TypeOK ==
    /\ owner \in [Records -> Agents \cup {None}]
    /\ tracked \subseteq Agents
    /\ load \in Scores
    /\ pc \in [Decisions -> {"idle", "count", "seed", "reserve", "commit", "release"}]
    /\ rec \in [Decisions -> Records \cup {None}]
    /\ counts \in [Decisions -> Scores]
    /\ pick \in [Decisions -> Agents \cup {None}]
    /\ \A d \in Decisions :
         /\ pc[d] # "idle" => rec[d] \in Records
         /\ pc[d] \in {"commit", "release"} => pick[d] \in Agents
    /\ stage \in {"idle", "read", "write"}
    /\ members \subseteq Agents
    /\ stored \in Scores \cup {None}
    /\ actual \in Scores \cup {None}
    /\ stage = "write" => actual \in Scores
    /\ pending \subseteq [id : Nat, who : Agents, by : {"plus", "minus"}]
    /\ moves \in Nat /\ incidents \in Nat

Init ==
    /\ owner = [r \in Records |-> None]
    /\ tracked = {} /\ load = Zero
    /\ pc = [d \in Decisions |-> "idle"]
    /\ rec = [d \in Decisions |-> None]
    /\ counts = [d \in Decisions |-> Zero]
    /\ pick = [d \in Decisions |-> None]
    /\ stage = "idle" /\ members = {} /\ stored = None /\ actual = None
    /\ pending = {} /\ moves = 0 /\ incidents = 0

At(d, l) == pc[d] = l
Goto(d, l) == pc' = [pc EXCEPT ![d] = l]
Smooth == UNCHANGED incidents
Incident(f) == f \in Faults /\ incidents < MaxIncidents /\ incidents' = incidents + 1

\* countOpenWork(): an aggregate that fails is logged and counts nothing.
OpenWork == [a \in Agents |-> Cardinality({r \in Records : owner[r] = a})]

Counted(m) ==
    \/ m = OpenWork /\ Smooth
    \/ m = Zero /\ Incident("mongo")

Return(d) ==
    /\ Goto(d, "idle")
    /\ rec' = [rec EXCEPT ![d] = None]
    /\ counts' = [counts EXCEPT ![d] = Zero]
    /\ pick' = [pick EXCEPT ![d] = None]

-----------------------------------------------------------------------------
(* Decisions.                                                               *)

Start(d, r) ==
    /\ At(d, "idle") /\ owner[r] = None
    /\ rec' = [rec EXCEPT ![d] = r]
    /\ Goto(d, "count")
    /\ UNCHANGED <<owner, store, counts, pick, cron, world>>

Count(d) ==
    /\ At(d, "count")
    /\ \E m \in {OpenWork, Zero} :
         Counted(m) /\ counts' = [counts EXCEPT ![d] = m]
    /\ Goto(d, "seed")
    /\ UNCHANGED <<owner, store, rec, pick, cron, pending, moves>>

\* ZADD NX: scores that reservations have moved are kept.
Seed(d) ==
    /\ At(d, "seed")
    /\ tracked' = Agents
    /\ load' = [a \in Agents |-> IF a \in tracked THEN load[a] ELSE counts[d][a]]
    /\ counts' = [counts EXCEPT ![d] = Zero]
    /\ Goto(d, "reserve")
    /\ UNCHANGED <<owner, rec, pick, cron, world>>

\* A reservation script: a member under the ceiling, and its increment.
Reserve(d) ==
    /\ At(d, "reserve")
    /\ \E a \in tracked :
         /\ load[a] < Cap
         /\ load' = [load EXCEPT ![a] = @ + 1]
         /\ pick' = [pick EXCEPT ![d] = a]
    /\ Goto(d, "commit")
    /\ UNCHANGED <<owner, tracked, rec, counts, cron, world>>

NoneReserved(d) ==
    /\ At(d, "reserve")
    /\ \A a \in tracked : load[a] >= Cap
    /\ Return(d)
    /\ UNCHANGED <<owner, store, cron, world>>

\* RecordCommitPort.commit, which publishes no lifecycle event.
Commit(d) ==
    /\ At(d, "commit") /\ owner[rec[d]] = None
    /\ owner' = [owner EXCEPT ![rec[d]] = pick[d]]
    /\ Return(d)
    /\ UNCHANGED <<store, cron, world>>

\* The record has an owner by now, or the write throws.
CommitFails(d) ==
    /\ At(d, "commit")
    /\ \/ owner[rec[d]] # None /\ Smooth
       \/ Incident("mongo")
    /\ Goto(d, "release")
    /\ UNCHANGED <<owner, store, rec, counts, pick, cron, pending, moves>>

\* Mutant: LUA_RELEASE without its clamp.
LowerUnclamped(a) ==
    load' = IF a \in tracked THEN [load EXCEPT ![a] = @ - 1] ELSE load

\* Scripts that move one score: absent members stay absent, none goes below 0.
Lower(a) ==
    load' = IF a \in tracked /\ load[a] > 0 THEN [load EXCEPT ![a] = @ - 1] ELSE load
Raise(a) ==
    load' = IF a \in tracked THEN [load EXCEPT ![a] = @ + 1] ELSE load

Release(d) ==
    /\ At(d, "release")
    /\ Lower(pick[d])
    /\ Return(d)
    /\ UNCHANGED <<owner, tracked, cron, world>>

\* A reservation without a command has no lease: nobody gives it back.
Crash(d) ==
    /\ ~At(d, "idle") /\ Incident("crash")
    /\ Return(d)
    /\ UNCHANGED <<owner, store, cron, pending, moves>>

-----------------------------------------------------------------------------
(* RecordWorkloadReconciliationService, every 15 minutes under a lock.      *)

\* trackedMembers() of a scope that exists.
FindMembers ==
    /\ stage = "idle" /\ tracked # {}
    /\ members' = tracked
    /\ stage' = "read"
    /\ UNCHANGED <<owner, store, decisions, stored, actual, world>>

\* The scores and the aggregate are read concurrently.
ReadScores ==
    /\ stage = "read" /\ stored = None
    /\ stored' = load
    /\ UNCHANGED <<owner, store, decisions, stage, members, actual, world>>

ReadActual ==
    /\ stage = "read" /\ actual = None
    /\ \E m \in {OpenWork, Zero} : Counted(m) /\ actual' = m
    /\ UNCHANGED <<owner, store, decisions, stage, members, stored, pending, moves>>

Drifted == \E a \in members : stored[a] # actual[a]

Rest ==
    /\ stage' = "idle" /\ members' = {} /\ stored' = None /\ actual' = None

Compare ==
    /\ stage = "read" /\ stored # None /\ actual # None
    /\ IF Drifted THEN stage' = "write" /\ UNCHANGED <<members, stored, actual>> ELSE Rest
    /\ UNCHANGED <<owner, store, decisions, world>>

\* Mutants: ZADD NX corrects nothing, a plain ZADD brings back what expired.
OverwriteMissing ==
    /\ stage = "write"
    /\ tracked' = tracked \cup members
    /\ load' = [a \in Agents |-> IF a \in members \ tracked THEN actual[a] ELSE load[a]]
    /\ Rest
    /\ UNCHANGED <<owner, decisions, world>>
OverwriteAll ==
    /\ stage = "write"
    /\ tracked' = tracked \cup members
    /\ load' = [a \in Agents |-> IF a \in members THEN actual[a] ELSE load[a]]
    /\ Rest
    /\ UNCHANGED <<owner, decisions, world>>

\* overwriteTracked(): ZADD XX of what was counted, for every member found.
Overwrite ==
    /\ stage = "write"
    /\ load' = [a \in Agents |-> IF a \in members \cap tracked THEN actual[a] ELSE load[a]]
    /\ Rest
    /\ UNCHANGED <<owner, tracked, decisions, world>>

\* A run that dies or throws leaves the correction to the next.
CronFails ==
    /\ stage # "idle" /\ Incident("crash")
    /\ Rest
    /\ UNCHANGED <<owner, store, decisions, pending, moves>>

-----------------------------------------------------------------------------
(* The environment.                                                         *)

Adjustment(a, by) ==
    IF a = None THEN {} ELSE {[id |-> moves, who |-> a, by |-> by]}

\* A person sets, changes or clears the owner, or opens or closes an owned
\* record.  The event follows the write.
ChangeOwner(r, a) ==
    /\ moves < MaxMoves /\ owner[r] # a
    /\ owner' = [owner EXCEPT ![r] = a]
    /\ pending' = pending \cup Adjustment(owner[r], "minus") \cup Adjustment(a, "plus")
    /\ moves' = moves + 1
    /\ UNCHANGED <<store, decisions, cron, incidents>>

\* adjustIfTracked(), for each of the two owners in any order.
Adjust(e) ==
    /\ e \in pending
    /\ pending' = pending \ {e}
    /\ IF e.by = "plus" THEN Raise(e.who) ELSE Lower(e.who)
    /\ UNCHANGED <<owner, tracked, decisions, cron, moves, incidents>>

\* The script fails, or the process dies before its handler runs.
LoseAdjustment(e) ==
    /\ e \in pending /\ Incident("lostEvent")
    /\ pending' = pending \ {e}
    /\ UNCHANGED <<owner, store, decisions, cron, moves>>

\* LOAD_TTL_SECONDS passed without a seed, or Redis lost the key.
Expire ==
    /\ tracked # {} /\ Incident("expiry")
    /\ tracked' = {} /\ load' = Zero
    /\ UNCHANGED <<owner, decisions, cron, pending, moves>>

Advance(d) ==
    \/ Count(d) \/ Seed(d) \/ Reserve(d) \/ NoneReserved(d)
    \/ Commit(d) \/ CommitFails(d) \/ Release(d)

Reconcile == FindMembers \/ ReadScores \/ ReadActual \/ Compare \/ Overwrite

Next ==
    \/ \E d \in Decisions : Advance(d) \/ Crash(d) \/ \E r \in Records : Start(d, r)
    \/ Reconcile \/ CronFails \/ Expire
    \/ \E r \in Records, a \in Agents \cup {None} : ChangeOwner(r, a)
    \/ \E e \in pending : Adjust(e) \/ LoseAdjustment(e)

Spec == Init /\ [][Next]_vars

(***************************************************************************)
(* Decisions advance, the cron ticks and handlers run.                     *)
(***************************************************************************)
Fairness ==
    /\ \A d \in Decisions : WF_vars(Advance(d))
    /\ WF_vars(Reconcile)
    /\ WF_vars(\E e \in pending : Adjust(e))

FairSpec == Spec /\ Fairness

-----------------------------------------------------------------------------
(* Properties.                                                              *)

\* The counters heal: whatever crashed, expired, was lost, was counted twice
\* or overwritten too early, once people stop every tracked counter comes to
\* say what its candidate owns, and stays there.
LoadConverges == <>[](\A a \in tracked : load[a] = OpenWork[a])

\* A score that expired comes back from a count made for a decision only, not
\* from an event or from a reconciliation that had read the old members.
OnlySeedTracks ==
    [][tracked' \subseteq tracked \/ \E d \in Decisions : At(d, "seed") /\ pc'[d] = "reserve"]_vars

-----------------------------------------------------------------------------
(* A comment of the code that the code does not keep.                       *)

\* Two concurrent decisions never hand the same slot to two records
\* (reservation.lua.ts:4-6), when nobody changes owners by hand.
SlotIsNotShared ==
    \A a \in Agents :
        OpenWork[a] + Cardinality({d \in Decisions : At(d, "commit") /\ pick[d] = a}) <= Cap
=============================================================================
