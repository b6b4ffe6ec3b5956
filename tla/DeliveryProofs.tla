--------------------------- MODULE DeliveryProofs ---------------------------
(***************************************************************************)
(* Proofs about Delivery for any messages, workers, callers and bounds:    *)
(* its types, that the provider is called at most once, that only unsent   *)
(* commands are pending, that recorded successes are real, that the        *)
(* outcome of a command is final, and that it keeps the promise of SendOnce.*)
(***************************************************************************)
EXTENDS Delivery, TLAPS

\* A job that may still run has an attempt left, and only an active job is owned.
JobBudget ==
    \A m \in Messages :
        /\ job[m] \in {"waiting", "active"} => tries[m] < MaxAttempts
        /\ owner[m] # None => job[m] = "active"

Typed == TypeOK /\ JobBudget

USE DeliveryAssumption

LEMMA TypedInit == Init => Typed
  BY DEF Init, Typed, TypeOK, JobBudget, Recoverable, Terminal, Finished,
         Unsent, Reporting, Projecting

LEMMA CallerTyped == ASSUME Typed, NEW c \in Callers, Caller(c) PROVE Typed'
<1> USE DEF Typed, TypeOK, JobBudget
<1>1. ASSUME NEW m \in Messages, Send(c, m) PROVE Typed'
  BY <1>1 DEF Send, CallerAt, queue, world, workers, crons, budget
<1>2. ASSUME NEW m \in Messages, Resend(c, m) PROVE Typed'
  BY <1>2 DEF Resend, CallerAt, store, queue, world, workers, crons, budget
<1>3. CASE Reset(c)
  BY <1>3 DEF Reset, CallerAt, queue, world, workers, crons, budget
<1>4. CASE Upsert(c)
  BY <1>4 DEF Upsert, Inserted, Recoverable, CallerAt, queue, world, workers, crons, budget
<1>5. CASE Add(c)
  BY <1>5 DEF Add, AddJob, CallerLeaves, store, queue, world, workers, crons, budget
<1>6. CASE CallerFails(c)
  BY <1>6 DEF CallerFails, CallerLeaves, Incident, store, queue, world, workers, crons
<1> QED
  BY <1>1, <1>2, <1>3, <1>4, <1>5, <1>6 DEF Caller

LEMMA WorkerTyped == ASSUME Typed, NEW w \in Workers, Worker(w) PROVE Typed'
<1> USE DEF Typed, TypeOK, JobBudget
<1>1. ASSUME NEW m \in Messages, Take(w, m) PROVE Typed'
  BY <1>1 DEF Take, Move, store, world, callers, crons, budget
<1>2. CASE Claim(w)
  BY <1>2 DEF Claim, Move, Unsent, Recoverable, queue, world, callers, crons, budget
<1>3. CASE NothingToClaim(w)
  BY <1>3 DEF NothingToClaim, Move, store, queue, world, callers, crons, budget
<1>4. CASE Prepare(w) \/ PrepareFails(w)
  BY <1>4 DEF Prepare, PrepareFails, Incident, Move, Unsent, store, queue, world, callers, crons, budget
<1>5. CASE Rewind(w)
  BY <1>5 DEF Rewind, Settled, Recoverable, Move, queue, world, callers, crons, budget
<1>6. CASE Start(w) \/ StartFails(w)
  BY <1>6 DEF Start, StartFails, Incident, Move, Unsent, Reporting, store, queue, world, callers, crons, budget
<1>7. CASE Dispatch(w)
  BY <1>7 DEF Dispatch, Calls, Move, Reporting, store, queue, callers, crons, budget
<1>8. ASSUME NEW outcome \in {"failed", "unknown"}, DispatchFails(w, outcome) PROVE Typed'
  <2>1. calls' \in [Messages -> Nat] /\ accepted' \in [Messages -> BOOLEAN]
    BY <1>8 DEF DispatchFails, Calls, Move, world
  <2> QED
    BY <1>8, <2>1 DEF DispatchFails, Move, Reporting, store, queue, callers, crons, budget
<1>9. CASE FailAttempt(w) \/ ProjectAttempt(w)
  BY <1>9 DEF FailAttempt, ProjectAttempt, Closed, Move, Reporting, Projecting, queue, world, callers, crons, budget
<1>10. CASE FailMessage(w) \/ ProjectMessage(w)
  BY <1>10 DEF FailMessage, ProjectMessage, Move, Reporting, Projecting, queue, world, callers, crons, budget
<1>11. CASE FailCommand(w) \/ Complete(w)
  BY <1>11 DEF FailCommand, Complete, Settled, Terminal, Move, Reporting, Projecting, queue, world, callers, crons, budget
<1>12. CASE ProjectionFails(w) \/ WriteFails(w)
  BY <1>12 DEF ProjectionFails, WriteFails, Incident, Move, Reporting, Projecting, store, queue, world, callers, crons
<1>13. CASE Return(w)
  BY <1>13 DEF Return, Finish, Finished, Leave, store, world, callers, crons, budget
<1>14. CASE Throw(w)
  BY <1>14 DEF Throw, Finish, Exhausted, Finished, Leave, store, world, callers, crons, budget
<1>15. CASE Crash(w)
  BY <1>15 DEF Crash, Incident, Leave, store, world, callers, crons
<1> QED
  BY <1>1, <1>2, <1>3, <1>4, <1>5, <1>6, <1>7, <1>8, <1>9, <1>10, <1>11,
     <1>12, <1>13, <1>14, <1>15 DEF Worker, Handle

LEMMA QueueTyped == ASSUME Typed, NEW m \in Messages, Queue(m) PROVE Typed'
<1> USE DEF Typed, TypeOK, JobBudget
<1>1. CASE Orphaned(m) \/ Overrun(m)
  <2>1. incidents' \in 0 .. MaxIncidents /\ Requeue(m)
    BY <1>1 DEF Orphaned, Overrun, Smooth, Incident
  <2> QED
    BY <2>1 DEF Requeue, MayRunAgain, Finished, store, world, workers, callers, crons
<1>2. CASE Evict(m)
  BY <1>2 DEF Evict, Finished, store, world, workers, callers, crons, budget
<1> QED
  BY <1>1, <1>2 DEF Queue

LEMMA CronTyped == ASSUME Typed, Cron PROVE Typed'
<1> USE DEF Typed, TypeOK, JobBudget
<1>1. ASSUME NEW m \in Messages, Scan(m) PROVE Typed'
  BY <1>1 DEF Scan, LeftBehind, store, queue, world, workers, callers, budget
<1>2. ASSUME NEW m \in Messages, Reconcile(m) PROVE Typed'
  BY <1>2 DEF Reconcile, queue, world, workers, callers
<1>3. ASSUME NEW row \in scanned, Recover(row) PROVE Typed'
  <2>1. row.of \in Messages
    OBVIOUS
  <2>2. CASE row.saw = "processing"
    BY <1>3, <2>1, <2>2 DEF Recover, Settled, Presumed, Terminal, queue, world, workers, callers, budget
  <2>3. CASE row.saw = "pending"
    BY <1>3, <2>1, <2>3 DEF Recover, AddJob, queue, world, workers, callers, budget
  <2> QED
    BY <1>3, <2>2, <2>3 DEF Recover
<1>4. ASSUME NEW row \in scanned, RecoverFails(row) PROVE Typed'
  BY <1>4 DEF RecoverFails, Incident, store, queue, world, workers, callers
<1>5. CASE MarkUnknown \/ ReconcileFails
  BY <1>5 DEF MarkUnknown, ReconcileFails, Incident, Closed, store, queue, world, workers, callers, budget
<1> QED
  BY <1>1, <1>2, <1>3, <1>4, <1>5 DEF Cron

LEMMA TypedStep == Typed /\ [Next]_vars => Typed'
<1> SUFFICES ASSUME Typed, [Next]_vars PROVE Typed'
  OBVIOUS
<1>1. CASE UNCHANGED vars
  BY <1>1 DEF vars, store, queue, world, workers, callers, crons, budget, Typed, TypeOK, JobBudget
<1> QED
  BY <1>1, CallerTyped, WorkerTyped, QueueTyped, CronTyped DEF Next

(* The state is typed; no job uses more attempts than BullMQ was given. *)
THEOREM Typing == Spec => []TypeOK
<1>1. Typed => TypeOK
  BY DEF Typed
<1> QED
  BY <1>1, TypedInit, TypedStep, PTL DEF Spec

-----------------------------------------------------------------------------
\* Places in handle() between the claim and the write that ends the command.
Active == Unsent \cup Reporting

HoldsCommand ==
    \A w \in Workers : at[w] \in Active => command[of[w]] \in {"processing", "unknown"}

OneHolder ==
    \A v, w \in Workers :
        at[v] \in Active /\ at[w] \in Active /\ of[v] = of[w] => v = w

\* Before the provider is called, by this worker or any earlier one.
UnsentIsUncalled ==
    \A w \in Workers :
        /\ at[w] \in Unsent => calls[of[w]] = 0
        /\ at[w] \in Unsent \ {"dispatch"} => attempt[of[w]] = "none"

NewIsUnsent ==
    \A m \in Messages :
        command[m] \in {"none", "pending"} => calls[m] = 0 /\ attempt[m] = "none"

\* A worker that reports success has it from the provider.
ReportsSuccess ==
    \A w \in Workers : at[w] \in Projecting \cup {"complete"} => accepted[of[w]]

ReportsFailure ==
    \A w \in Workers :
        at[w] \in {"failAttempt", "failMessage", "failCommand"}
            => err[w] \in {"failed", "unknown"}

SInv ==
    /\ HoldsCommand
    /\ OneHolder
    /\ UnsentIsUncalled
    /\ NewIsUnsent
    /\ ReportsSuccess
    /\ ReportsFailure
    /\ AtMostOneCall
    /\ SuccessIsReal

LEMMA SafeInit == Init => SInv
  BY DEF Init, SInv, HoldsCommand, OneHolder, UnsentIsUncalled, NewIsUnsent,
         ReportsSuccess, ReportsFailure, AtMostOneCall, SuccessIsReal, Active,
         Unsent, Reporting, Projecting

LEMMA CallerSafe == ASSUME TypeOK, SInv, NEW c \in Callers, Caller(c) PROVE SInv'
<1> USE DEF TypeOK, SInv, HoldsCommand, OneHolder, UnsentIsUncalled, NewIsUnsent,
         ReportsSuccess, ReportsFailure, AtMostOneCall, SuccessIsReal
<1>1. ASSUME NEW m \in Messages, Send(c, m) \/ Resend(c, m) PROVE SInv'
  BY <1>1 DEF Send, Resend, CallerAt, store, queue, world, workers
<1>2. CASE Reset(c)
  BY <1>2 DEF Reset, CallerAt, queue, world, workers
<1>3. CASE Upsert(c)
  <2>1. for[c] \in Messages /\ command' = [command EXCEPT ![for[c]] = Inserted(for[c])]
    BY <1>3 DEF Upsert, CallerAt
  <2>2. \A m \in Messages : \/ command'[m] = command[m]
                            \/ command[m] = "none" /\ command'[m] = "pending"
    BY <2>1 DEF Inserted
  <2> QED
    BY <1>3, <2>2 DEF Upsert, world, workers
<1>4. CASE Add(c) \/ CallerFails(c)
  BY <1>4 DEF Add, CallerFails, store, world, workers
<1> QED
  BY <1>1, <1>2, <1>3, <1>4 DEF Caller

LEMMA QueueSafe == ASSUME TypeOK, SInv, NEW m \in Messages, Queue(m) PROVE SInv'
  BY DEF SInv, HoldsCommand, OneHolder, UnsentIsUncalled, NewIsUnsent,
         ReportsSuccess, ReportsFailure, AtMostOneCall, SuccessIsReal,
         Queue, Orphaned, Overrun, Requeue, Evict, store, world, workers

LEMMA CronSafe == ASSUME TypeOK, SInv, Cron PROVE SInv'
<1> USE DEF TypeOK, SInv, HoldsCommand, OneHolder, UnsentIsUncalled, NewIsUnsent,
         ReportsSuccess, ReportsFailure, AtMostOneCall, SuccessIsReal
<1>1. ASSUME NEW m \in Messages, Scan(m) \/ Reconcile(m) PROVE SInv'
  BY <1>1 DEF Scan, Reconcile, store, world, workers
<1>2. ASSUME NEW row \in scanned, Recover(row) \/ RecoverFails(row) PROVE SInv'
  <2>1. \A m \in Messages : \/ command'[m] = command[m]
                            \/ command[m] = "processing" /\ command'[m] = "unknown"
    BY <1>2 DEF Recover, RecoverFails, Settled, Presumed, store
  <2>2. UNCHANGED <<message, attempt, calls, accepted, at, of, err>>
    BY <1>2 DEF Recover, RecoverFails, store, world, workers
  <2> QED
    BY <2>1, <2>2 DEF Active, Unsent, Reporting, Projecting
<1>3. CASE MarkUnknown \/ ReconcileFails
  <2>1. \A m \in Messages : \/ attempt'[m] = attempt[m]
                            \/ attempt[m] = "started" /\ attempt'[m] = "unknown"
    BY <1>3 DEF MarkUnknown, ReconcileFails, Closed, store
  <2>2. UNCHANGED <<message, command, calls, accepted, at, of, err>>
    BY <1>3 DEF MarkUnknown, ReconcileFails, store, world, workers
  <2> QED
    BY <2>1, <2>2 DEF Active, Unsent, Reporting, Projecting
<1> QED
  BY <1>1, <1>2, <1>3 DEF Cron

LEMMA WorkerSafe == ASSUME TypeOK, SInv, NEW w \in Workers, Worker(w) PROVE SInv'
<1> USE DEF TypeOK, SInv, HoldsCommand, OneHolder, UnsentIsUncalled, NewIsUnsent,
         ReportsSuccess, ReportsFailure, AtMostOneCall, SuccessIsReal, Active,
         Unsent, Reporting, Projecting, Move
<1>1. ASSUME NEW m \in Messages, Take(w, m) PROVE SInv'
  BY <1>1 DEF Take, store, world
<1>2. CASE Claim(w)
  BY <1>2 DEF Claim, Claimable, world
<1>3. CASE NothingToClaim(w) \/ Prepare(w) \/ PrepareFails(w) \/ ProjectionFails(w) \/ WriteFails(w)
  BY <1>3 DEF NothingToClaim, Prepare, PrepareFails, ProjectionFails, WriteFails, store, world
<1>4. CASE Rewind(w)
  BY <1>4 DEF Rewind, Settled, world
<1>5. CASE Start(w)
  BY <1>5 DEF Start, world
<1>6. CASE StartFails(w)
  BY <1>6 DEF StartFails, store, world
<1>7. CASE Dispatch(w)
  <2>1. of[w] \in Messages /\ calls[of[w]] = 0
    BY <1>7 DEF Dispatch
  <2>2. \A m \in Messages : /\ calls'[m] = IF m = of[w] THEN 1 ELSE calls[m]
                            /\ accepted'[m] = (m = of[w] \/ accepted[m])
    BY <1>7, <2>1 DEF Dispatch, Calls
  <2>3. UNCHANGED <<message, command, attempt, of, err>>
    BY <1>7 DEF Dispatch, store
  <2>4. \A v \in Workers : at'[v] = IF v = w THEN "complete" ELSE at[v]
    BY <1>7 DEF Dispatch
  <2>5. at[w] = "dispatch"
    BY <1>7 DEF Dispatch
  <2>6. \A v \in Workers \ {w} : at[v] \in Active => of[v] # of[w]
    BY <2>5
  <2>7. HoldsCommand' /\ OneHolder' /\ ReportsFailure'
    BY <2>3, <2>4, <2>5
  <2>8. UnsentIsUncalled'
    BY <2>2, <2>3, <2>4, <2>6
  <2>9. NewIsUnsent'
    BY <2>2, <2>3, <2>5
  <2>10. AtMostOneCall'
    BY <2>2
  <2>11. \A m \in Messages : accepted[m] => accepted'[m]
    BY <2>2
  <2>12. accepted'[of[w]]
    BY <2>1, <2>2
  <2>13. SuccessIsReal'
    BY <2>3, <2>11
  <2>14. ReportsSuccess'
    BY <2>3, <2>4, <2>11, <2>12
  <2> QED
    BY <2>7, <2>8, <2>9, <2>10, <2>13, <2>14
<1>8. ASSUME NEW outcome \in {"failed", "unknown"}, DispatchFails(w, outcome) PROVE SInv'
  <2>1. CASE UNCHANGED world
    BY <1>8, <2>1 DEF DispatchFails, world, store
  <2>2. ASSUME NEW taken \in BOOLEAN, Calls(of[w], taken) PROVE SInv'
    BY <1>8, <2>2 DEF DispatchFails, Calls, store
  <2> QED
    BY <1>8, <2>1, <2>2 DEF DispatchFails
<1>9. CASE FailAttempt(w) \/ ProjectAttempt(w)
  BY <1>9 DEF FailAttempt, ProjectAttempt, Closed, world
<1>10. CASE FailMessage(w) \/ ProjectMessage(w)
  BY <1>10 DEF FailMessage, ProjectMessage, world
<1>11. CASE FailCommand(w) \/ Complete(w)
  BY <1>11 DEF FailCommand, Complete, Settled, world
<1>12. CASE Return(w) \/ Throw(w) \/ Crash(w)
  <2>1. /\ \A v \in Workers \ {w} : at'[v] = at[v] /\ of'[v] = of[v] /\ err'[v] = err[v]
        /\ at'[w] = "idle"
    BY <1>12 DEF Return, Throw, Crash, Leave
  <2>2. UNCHANGED <<message, command, attempt, calls, accepted>>
    BY <1>12 DEF Return, Throw, Crash, store, world
  <2>3. HoldsCommand' /\ OneHolder'
    BY <2>1, <2>2
  <2>4. UnsentIsUncalled' /\ NewIsUnsent'
    BY <2>1, <2>2
  <2>5. ReportsSuccess' /\ ReportsFailure' /\ AtMostOneCall' /\ SuccessIsReal'
    BY <2>1, <2>2
  <2> QED
    BY <2>3, <2>4, <2>5
<1> QED
  BY <1>1, <1>2, <1>3, <1>4, <1>5, <1>6, <1>7, <1>8, <1>9, <1>10, <1>11, <1>12
     DEF Worker, Handle

LEMMA SafeStep == Typed /\ SInv /\ [Next]_vars => SInv'
<1> SUFFICES ASSUME Typed, SInv, [Next]_vars PROVE SInv'
  OBVIOUS
<1>1. CASE UNCHANGED vars
  BY <1>1 DEF vars, store, queue, world, workers, SInv, HoldsCommand, OneHolder,
     UnsentIsUncalled, NewIsUnsent, ReportsSuccess, ReportsFailure,
     AtMostOneCall, SuccessIsReal
<1> QED
  BY <1>1, CallerSafe, WorkerSafe, QueueSafe, CronSafe DEF Next, Typed

LEMMA Invariance == Spec => [](Typed /\ SInv)
  BY TypedInit, TypedStep, SafeInit, SafeStep, PTL DEF Spec

(* The provider is called at most once for each message. *)
THEOREM OneCall == Spec => []AtMostOneCall
<1>1. SInv => AtMostOneCall
  BY DEF SInv
<1> QED
  BY <1>1, Invariance, PTL

(* A pending command, also a rewound one, has not reached the provider. *)
THEOREM PendingUnsent == Spec => []PendingIsUnsent
<1>1. SInv => PendingIsUnsent
  BY DEF SInv, NewIsUnsent, PendingIsUnsent
<1> QED
  BY <1>1, Invariance, PTL

(* What is recorded as delivered was taken by the provider. *)
THEOREM SuccessReal == Spec => []SuccessIsReal
<1>1. SInv => SuccessIsReal
  BY DEF SInv
<1> QED
  BY <1>1, Invariance, PTL

(* A command that has ended keeps its outcome. *)
THEOREM OutcomeFinal == Spec => OutcomeIsFinal
<1>1. Typed /\ SInv /\ [Next]_vars
        => [\A m \in Messages : command[m] \in Terminal => command'[m] = command[m]]_vars
  <2> SUFFICES ASSUME Typed, SInv, Next, NEW m \in Messages, command[m] \in Terminal
               PROVE  command'[m] = command[m]
    OBVIOUS
  <2> USE DEF Typed, TypeOK, Terminal
  <2>1. ASSUME NEW c \in Callers, Caller(c) PROVE command'[m] = command[m]
    BY <2>1 DEF Caller, Send, Resend, Reset, Upsert, Inserted, Add, CallerFails, store
  <2>2. ASSUME NEW w \in Workers, Worker(w) PROVE command'[m] = command[m]
    <3>1. CASE command' = command
      BY <3>1
    <3>2. CASE Claim(w) \/ Rewind(w) \/ FailCommand(w) \/ Complete(w)
      BY <3>2 DEF Claim, Claimable, Rewind, FailCommand, Complete, Settled
    <3> QED
      BY <2>2, <3>1, <3>2 DEF Worker, Handle, Take, NothingToClaim, Prepare, PrepareFails,
         Start, StartFails, Dispatch, DispatchFails, FailAttempt, FailMessage,
         ProjectAttempt, ProjectMessage, ProjectionFails, WriteFails, Return,
         Throw, Crash, store
  <2>3. ASSUME NEW n \in Messages, Queue(n) PROVE command'[m] = command[m]
    BY <2>3 DEF Queue, Orphaned, Overrun, Requeue, Evict, store
  <2>4. CASE Cron
    BY <2>4 DEF Cron, Scan, Reconcile, Recover, RecoverFails, Settled, MarkUnknown,
       ReconcileFails, store
  <2> QED
    BY <2>1, <2>2, <2>3, <2>4 DEF Next
<1> QED
  BY <1>1, Invariance, PTL DEF Spec, OutcomeIsFinal
-----------------------------------------------------------------------------
(* The delivery implements the promise of SendOnce.                          *)

Kept == [Promise!Next]_(Promise!vars)

\* A step that leaves the commands and the provider alone, and the message and
\* the attempt of all messages but one.
LEMMA ShowStep ==
    ASSUME SuccessIsReal', NEW m \in Messages, UNCHANGED <<command, calls, accepted>>,
           \A n \in Messages \ {m} : message'[n] = message[n] /\ attempt'[n] = attempt[n]
    PROVE  Kept
<1>1. CASE m \in ShownAsSent'
  <2>1. ShownAsSent' = ShownAsSent \cup {m}
    BY <1>1 DEF ShownAsSent
  <2>2. accepted[m]
    BY <1>1 DEF ShownAsSent, SuccessIsReal
  <2> QED
    BY <2>1, <2>2 DEF Kept, Promise!Next, Promise!Show
<1>2. CASE m \notin ShownAsSent'
  <2>1. ShownAsSent' = ShownAsSent \ {m}
    BY <1>2 DEF ShownAsSent
  <2> QED
    BY <2>1 DEF Kept, Promise!Next, Promise!Hide
<1> QED
  BY <1>1, <1>2

LEMMA QuietStep ==
    ASSUME UNCHANGED <<message, command, attempt, calls, accepted>>
    PROVE  Kept
<1>1. ShownAsSent' = ShownAsSent
  BY DEF ShownAsSent
<1> QED
  BY <1>1 DEF Kept, Promise!vars

\* A step that moves one command the way the promise allows.
LEMMA CommandStep ==
    ASSUME TypeOK, NEW m \in Messages, NEW s, UNCHANGED <<message, attempt, calls, accepted>>,
           command' = [command EXCEPT ![m] = s],
           \/ s = command[m]
           \/ command[m] = "none" /\ s = "pending"
           \/ command[m] = "pending" /\ s = "processing"
           \/ command[m] = "processing" /\ s = "pending" /\ calls[m] = 0
           \/ command[m] = "processing" /\ s = "completed" /\ accepted[m]
           \/ command[m] = "processing" /\ s \in {"failed", "unknown"}
    PROVE  Kept
<1>1. ShownAsSent' = ShownAsSent
  BY DEF ShownAsSent
<1>2. CASE s = command[m]
  BY <1>1, <1>2 DEF Kept, Promise!vars, TypeOK
<1>3. CASE s # command[m]
  <2>1. \/ Promise!Request(m) \/ Promise!Begin(m) \/ Promise!PutBack(m)
        \/ Promise!Succeed(m) \/ Promise!GiveUp(m)
    BY <1>1, <1>3 DEF Promise!Request, Promise!Begin, Promise!PutBack, Promise!Succeed,
       Promise!GiveUp, Promise!Become
  <2> QED
    BY <2>1 DEF Kept, Promise!Next
<1> QED
  BY <1>2, <1>3

LEMMA CallStep ==
    ASSUME TypeOK, NEW m \in Messages, NEW taken \in BOOLEAN, Calls(m, taken),
           UNCHANGED <<message, command, attempt>>,
           command[m] \in {"processing", "unknown"}, calls[m] = 0, ~accepted[m]
    PROVE  Kept
<1>1. ShownAsSent' = ShownAsSent
  BY DEF ShownAsSent
<1>2. calls' = [calls EXCEPT ![m] = 1]
  BY DEF Calls, TypeOK
<1>3. accepted' = [accepted EXCEPT ![m] = taken]
  BY DEF Calls, TypeOK
<1>4. Promise!Call(m, taken)
  BY <1>1, <1>2, <1>3 DEF Promise!Call
<1>5. taken = TRUE \/ taken = FALSE
  OBVIOUS
<1> QED
  BY <1>4, <1>5 DEF Kept, Promise!Next

LEMMA CallerKeeps ==
    ASSUME TypeOK, SuccessIsReal', NEW c \in Callers, Caller(c)
    PROVE  Kept
<1>1. ASSUME NEW m \in Messages, Send(c, m) PROVE Kept
  BY <1>1, ShowStep DEF Send, world, TypeOK
<1>2. ASSUME NEW m \in Messages, Resend(c, m) PROVE Kept
  BY <1>2, QuietStep DEF Resend, store, world
<1>3. CASE Reset(c)
  <2>1. for[c] \in Messages
    BY <1>3 DEF Reset, CallerAt, TypeOK
  <2> QED
    BY <1>3, <2>1, ShowStep DEF Reset, world, TypeOK
<1>4. CASE Upsert(c)
  <2>1. for[c] \in Messages
    BY <1>4 DEF Upsert, CallerAt, TypeOK
  <2> QED
    BY <1>4, <2>1, CommandStep DEF Upsert, Inserted, world
<1>5. CASE Add(c) \/ CallerFails(c)
  BY <1>5, QuietStep DEF Add, CallerFails, store, world
<1> QED
  BY <1>1, <1>2, <1>3, <1>4, <1>5 DEF Caller

\* A message the provider was never asked to send, it did not take.
UncalledIsUntaken == \A m \in Messages : calls[m] = 0 => ~accepted[m]

LEMMA UntakenStep == Typed /\ UncalledIsUntaken /\ [Next]_vars => UncalledIsUntaken'
<1> SUFFICES ASSUME Typed, UncalledIsUntaken, [Next]_vars PROVE UncalledIsUntaken'
  OBVIOUS
<1> USE DEF Typed, UncalledIsUntaken
<1>1. CASE UNCHANGED world
  BY <1>1 DEF world
<1>2. ASSUME NEW w \in Workers, NEW taken \in BOOLEAN, of[w] \in Messages, Calls(of[w], taken)
      PROVE  UncalledIsUntaken'
  BY <1>2 DEF Calls, TypeOK
<1>3. ASSUME NEW w \in Workers, Worker(w) PROVE UncalledIsUntaken'
  <2>1. CASE Dispatch(w) \/ \E outcome \in {"failed", "unknown"} : DispatchFails(w, outcome)
    BY <1>1, <1>2, <2>1 DEF Dispatch, DispatchFails, Move, TypeOK
  <2> QED
    BY <1>1, <1>3, <2>1 DEF Worker, Handle, Take, Claim, NothingToClaim, Prepare, PrepareFails,
       Rewind, Start, StartFails, FailAttempt, FailMessage, FailCommand, Complete,
       ProjectAttempt, ProjectMessage, ProjectionFails, WriteFails, Return, Throw, Crash
<1> QED
  BY <1>1, <1>3 DEF Next, vars, Caller, Send, Resend, Reset, Upsert, Add, CallerFails, Queue,
     Orphaned, Overrun, Requeue, Evict, Cron, Scan, Reconcile, Recover, RecoverFails,
     MarkUnknown, ReconcileFails

LEMMA WorkerKeeps ==
    ASSUME TypeOK, SInv, SuccessIsReal', UncalledIsUntaken, NEW w \in Workers, Worker(w)
    PROVE  Kept
<1>1. at[w] # "idle" => of[w] \in Messages
  BY DEF TypeOK
<1>2. \/ \E m \in Messages : Take(w, m)
      \/ NothingToClaim(w) \/ Prepare(w) \/ PrepareFails(w) \/ StartFails(w)
      \/ ProjectionFails(w) \/ WriteFails(w) \/ Return(w) \/ Throw(w) \/ Crash(w)
      => Kept
  BY QuietStep DEF Take, NothingToClaim, Prepare, PrepareFails, StartFails, ProjectionFails,
     WriteFails, Return, Throw, Crash, store, world
<1>3. CASE Claim(w)
  BY <1>1, <1>3, CommandStep DEF Claim, Claimable, Move, world
<1>4. CASE Rewind(w)
  <2>1. calls[of[w]] = 0 /\ of[w] \in Messages
    BY <1>1, <1>4 DEF Rewind, Move, SInv, UnsentIsUncalled, Unsent
  <2> QED
    BY <1>4, <2>1, CommandStep DEF Rewind, Settled, world
<1>5. CASE Start(w) \/ FailAttempt(w) \/ ProjectAttempt(w) \/ FailMessage(w) \/ ProjectMessage(w)
  <2>1. of[w] \in Messages
    BY <1>1, <1>5 DEF Start, FailAttempt, ProjectAttempt, FailMessage, ProjectMessage, Move
  <2> QED
    BY <1>5, <2>1, ShowStep DEF Start, FailAttempt, ProjectAttempt, FailMessage, ProjectMessage,
       world, TypeOK
<1>6. CASE Dispatch(w) \/ \E outcome \in {"failed", "unknown"} : DispatchFails(w, outcome)
  <2>1. at[w] = "dispatch" /\ of[w] \in Messages
    BY <1>1, <1>6 DEF Dispatch, DispatchFails, Move
  <2>2. /\ command[of[w]] \in {"processing", "unknown"}
        /\ calls[of[w]] = 0 /\ ~accepted[of[w]]
    BY <2>1 DEF SInv, HoldsCommand, UnsentIsUncalled, Active, Unsent, UncalledIsUntaken
  <2>3. UNCHANGED store
    BY <1>6 DEF Dispatch, DispatchFails
  <2>4. CASE UNCHANGED world
    BY <2>3, <2>4, QuietStep DEF store, world
  <2>5. ASSUME NEW taken \in BOOLEAN, Calls(of[w], taken) PROVE Kept
    BY <2>1, <2>2, <2>3, <2>5, CallStep DEF store
  <2> QED
    BY <1>6, <2>4, <2>5 DEF Dispatch, DispatchFails
<1>7. CASE FailCommand(w)
  <2>1. of[w] \in Messages /\ err[w] \in {"failed", "unknown"}
    BY <1>1, <1>7 DEF FailCommand, Move, SInv, ReportsFailure
  <2> QED
    BY <1>7, <2>1, CommandStep DEF FailCommand, Settled, world
<1>8. CASE Complete(w)
  <2>1. of[w] \in Messages /\ accepted[of[w]]
    BY <1>1, <1>8 DEF Complete, Move, SInv, ReportsSuccess
  <2> QED
    BY <1>8, <2>1, CommandStep DEF Complete, Settled, world
<1> QED
  BY <1>2, <1>3, <1>4, <1>5, <1>6, <1>7, <1>8 DEF Worker, Handle

LEMMA CronKeeps ==
    ASSUME TypeOK, SuccessIsReal', Cron
    PROVE  Kept
<1>1. ASSUME NEW m \in Messages, Scan(m) PROVE Kept
  BY <1>1, QuietStep DEF Scan, store, world
<1>2. ASSUME NEW m \in Messages, Reconcile(m) PROVE Kept
  BY <1>2, ShowStep DEF Reconcile, world, TypeOK
<1>3. ASSUME NEW row \in scanned, Recover(row) PROVE Kept
  <2>1. row.of \in Messages
    BY DEF TypeOK
  <2>2. CASE row.saw = "processing"
    BY <1>3, <2>1, <2>2, CommandStep DEF Recover, Settled, Presumed, world
  <2>3. CASE row.saw = "pending"
    BY <1>3, <2>3, QuietStep DEF Recover, world
  <2> QED
    BY <1>3, <2>2, <2>3 DEF Recover
<1>4. ASSUME NEW row \in scanned, RecoverFails(row) PROVE Kept
  BY <1>4, QuietStep DEF RecoverFails, store, world
<1>5. CASE MarkUnknown
  <2>1. ShownAsSent' = ShownAsSent
    BY <1>5 DEF MarkUnknown, ShownAsSent, Closed, TypeOK
  <2> QED
    BY <1>5, <2>1 DEF MarkUnknown, Kept, Promise!vars, world
<1>6. CASE ReconcileFails
  BY <1>6, QuietStep DEF ReconcileFails, store, world
<1> QED
  BY <1>1, <1>2, <1>3, <1>4, <1>5, <1>6 DEF Cron

LEMMA StepKeeps == Typed /\ SInv /\ SInv' /\ UncalledIsUntaken /\ [Next]_vars => Kept
<1> SUFFICES ASSUME Typed, SInv, SInv', UncalledIsUntaken, [Next]_vars PROVE Kept
  OBVIOUS
<1>1. TypeOK /\ SuccessIsReal'
  BY DEF Typed, SInv
<1>2. CASE UNCHANGED vars
  BY <1>2, QuietStep DEF vars, store, world
<1>3. ASSUME NEW m \in Messages, Queue(m) PROVE Kept
  BY <1>3, QuietStep DEF Queue, Orphaned, Overrun, Requeue, Evict, store, world
<1> QED
  BY <1>1, <1>2, <1>3, CallerKeeps, WorkerKeeps, CronKeeps DEF Next

(* The durable delivery keeps the promise of SendOnce: a command is put back
   only before the provider was called, the call follows the claim and is the
   only one, a command that has ended keeps its outcome, and what is recorded
   or shown as sent was taken. *)
THEOREM DeliverySendsOnce == Spec => SendsOnce
<1>1. Init => Promise!Init
  BY DEF Init, Promise!Init, ShownAsSent
<1>2. Init => UncalledIsUntaken
  BY DEF Init, UncalledIsUntaken
<1>3. Typed /\ SInv /\ SInv' /\ UncalledIsUntaken /\ [Next]_vars => [Promise!Next]_(Promise!vars)
  BY StepKeeps DEF Kept
<1> QED
  BY <1>1, <1>2, <1>3, UntakenStep, Invariance, PTL DEF Spec, SendsOnce, Promise!Spec
=============================================================================
