---------------------------- MODULE LeadPipeline ----------------------------
(***************************************************************************)
(* The asynchronous half of the webhook intake: an acknowledged receipt    *)
(* and its outbox row (PostgreSQL), the dispatcher and reconciler that     *)
(* turn them into BullMQ jobs (Redis), and the workers that apply a job to *)
(* its lead in one transaction.  Every wait of the code on a lock, on      *)
(* Redis or on PostgreSQL separates two actions; a transaction's writes    *)
(* become visible in the action that commits it.                           *)
(*                                                                         *)
(* BullMQ is external: a job is known by the state it is in, its attempt   *)
(* and stall counts are abstracted to a choice between another delivery    *)
(* and the failed set.                                                     *)
(***************************************************************************)
EXTENDS Integers, FiniteSets

CONSTANTS
    Events,       \* receipts, by (source, eventId)
    Leads,        \* lead keys, by (source, externalId)
    Data,         \* lead snapshots; equal hashes are equal snapshots
    LeadOf,       \* the lead each stored payload names
    VersionOf,    \* its source version
    DataOf,       \* its snapshot
    Invalid,      \* receipts whose stored payload the schema refuses
    Workers,      \* concurrent job executions
    Dispatchers,  \* processes that run tick()
    MaxAttempts,  \* 8 in the code
    Batch,        \* 25 in the code
    MaxFaults,    \* bound: failures, crashes, lapsed leases and replays in a behaviour
    None          \* no event, no data, no worker

ASSUME PipelineAssumption ==
    /\ LeadOf \in [Events -> Leads]
    /\ VersionOf \in [Events -> Nat \ {0}]
    /\ DataOf \in [Events -> Data]
    /\ Invalid \subseteq Events
    /\ MaxAttempts \in Nat \ {0}
    /\ Batch \in Nat \ {0}
    /\ MaxFaults \in Nat
    /\ None \notin Events \cup Data \cup Workers

VARIABLES
    state,          \* receipt.state, "absent" before the intake commits
    attempts,       \* receipt.attempts
    errorCode,      \* receipt.errorCode
    lastEnqueued,   \* receipt.lastEnqueuedAt: never, within 60 s, older
    due,            \* receipt.nextAttemptAt <= now
    outbox,         \* unpublished outbox rows
    lead,           \* lead rows; sourceVersion 0 when there is none
    activities,     \* audit rows per lead
    created,        \* increments of the "total" dashboard counter per lead
    notices,        \* "notify" outbox rows written per receipt
    job,            \* BullMQ job state per receipt (the job id is the receipt id)
    holder,         \* the worker whose lease on an active job is valid
    pc, on,         \* worker: control point and receipt in hand
    seen,           \* worker: the lead row its transaction read
    snap,           \* worker: attempts read by the catch handler, outside any transaction
    batch,          \* dispatcher: rows its transaction has locked
    pushed,         \* dispatcher: rows whose Redis call has returned
    marked,         \* dispatcher: rows whose updates its transaction has made
    touched,        \* dispatcher: receipts its transaction has locked
    faults          \* environment failures so far

receiptVars == <<state, attempts, errorCode, due>>
leadVars == <<lead, activities, created, notices>>
queueVars == <<job, holder>>
workerVars == <<pc, on, seen, snap>>
dispatchVars == <<batch, pushed, marked, touched>>
vars == <<receiptVars, lastEnqueued, outbox, leadVars, queueVars, workerVars,
          dispatchVars, faults>>

ReceiptStates == {"absent", "pending", "processed", "ignored", "failed"}
ErrorCodes == {"none", "PROCESSING_RETRY", "RETRY_EXHAUSTED",
               "INVALID_STORED_PAYLOAD", "SOURCE_VERSION_CONFLICT"}
JobStates == {"none", "waiting", "active", "delayed", "completed", "failed"}
\* begin: job delivered; receipt: receipt row locked; lead: lead lock held;
\* recover: rolled back, catch handler entered; retry: catch handler has read
\* the receipt; done, failed: process() returned or threw, BullMQ not told yet.
Points == {"idle", "begin", "receipt", "lead", "recover", "retry", "done", "failed"}
LeadRow == [sourceVersion : Nat, data : Data \cup {None}, version : Nat]
NoLead == [sourceVersion |-> 0, data |-> None, version |-> 0]
Row == {"process", "notify", "recover"} \X Events

ReceiptType ==
    /\ state \in [Events -> ReceiptStates]
    /\ attempts \in [Events -> 0 .. MaxAttempts]
    /\ errorCode \in [Events -> ErrorCodes]
    /\ due \in [Events -> BOOLEAN]

LeadType ==
    /\ lead \in [Leads -> LeadRow]
    /\ activities \in [Leads -> Nat]
    /\ created \in [Leads -> Nat]
    /\ notices \in [Events -> Nat]

QueueType ==
    /\ lastEnqueued \in [Events -> {"never", "fresh", "stale"}]
    /\ outbox \subseteq {"process", "notify"} \X Events
    /\ job \in [Events -> JobStates]
    /\ holder \in [Events -> Workers \cup {None}]

WorkerType ==
    /\ pc \in [Workers -> Points]
    /\ on \in [Workers -> Events \cup {None}]
    /\ \A w \in Workers : pc[w] # "idle" => on[w] \in Events
    /\ seen \in [Workers -> LeadRow]
    /\ snap \in [Workers -> 0 .. MaxAttempts]

DispatchType ==
    /\ batch \in [Dispatchers -> SUBSET Row]
    /\ pushed \in [Dispatchers -> SUBSET Row]
    /\ marked \in [Dispatchers -> SUBSET Row]
    /\ touched \in [Dispatchers -> SUBSET Events]

TypeOK ==
    /\ ReceiptType
    /\ LeadType
    /\ QueueType
    /\ WorkerType
    /\ DispatchType
    /\ faults \in 0 .. MaxFaults

Init ==
    /\ state = [e \in Events |-> "absent"]
    /\ attempts = [e \in Events |-> 0]
    /\ errorCode = [e \in Events |-> "none"]
    /\ lastEnqueued = [e \in Events |-> "never"]
    /\ due = [e \in Events |-> TRUE]
    /\ outbox = {}
    /\ lead = [l \in Leads |-> NoLead]
    /\ activities = [l \in Leads |-> 0]
    /\ created = [l \in Leads |-> 0]
    /\ notices = [e \in Events |-> 0]
    /\ job = [e \in Events |-> "none"]
    /\ holder = [e \in Events |-> None]
    /\ pc = [w \in Workers |-> "idle"]
    /\ on = [w \in Workers |-> None]
    /\ seen = [w \in Workers |-> NoLead]
    /\ snap = [w \in Workers |-> 0]
    /\ batch = [d \in Dispatchers |-> {}]
    /\ pushed = [d \in Dispatchers |-> {}]
    /\ marked = [d \in Dispatchers |-> {}]
    /\ touched = [d \in Dispatchers |-> {}]
    /\ faults = 0

-----------------------------------------------------------------------------
(* Deliberately wrong variants, one step away from the code: a run in which  *)
(* one of them takes the place of its original must fail.                    *)

NoLeadLock(l) == FALSE                              \* for LeadLocked
NoRowLock(r) == FALSE                               \* for RowLocked
LateReceiptLock(w, e) == pc[w] = "lead" /\ on[w] = e \* for HoldsReceipt
AnyState(e) == TRUE                                 \* for StillPending
OneTooMany(n) == n > MaxAttempts                    \* for Exhausted
OnlyStale(e) ==                                     \* for Overdue
    state[e] = "pending" /\ due[e] /\ lastEnqueued[e] = "stale"
StayRunning(d) ==                                   \* for Release
    /\ pushed' = [pushed EXCEPT ![d] = {}]
    /\ marked' = [marked EXCEPT ![d] = {}]
    /\ touched' = [touched EXCEPT ![d] = {}]
    /\ UNCHANGED batch

-----------------------------------------------------------------------------
(* Locks, as PostgreSQL grants them. *)

\* Workers whose transaction has locked receipt e (SELECT ... FOR UPDATE).
HoldsReceipt(w, e) == pc[w] \in {"receipt", "lead"} /\ on[w] = e

ReceiptLocked(e) ==
    \/ \E w \in Workers : HoldsReceipt(w, e)
    \/ \E d \in Dispatchers : e \in touched[d]

\* The advisory lock 'lead:<source>:<externalId>', held to the end of the transaction.
LeadLocked(l) == \E w \in Workers : pc[w] = "lead" /\ LeadOf[on[w]] = l

RowLocked(r) == \E d \in Dispatchers : r \in batch[d]

\* An environment failure, counted against the bound.
Fault == faults < MaxFaults /\ faults' = faults + 1

-----------------------------------------------------------------------------
(* Intake: the receipt and its outbox row commit together. *)

Accept(e) ==
    /\ state[e] = "absent"
    /\ state' = [state EXCEPT ![e] = "pending"]
    /\ outbox' = outbox \cup {<<"process", e>>}
    /\ UNCHANGED <<attempts, errorCode, due, lastEnqueued, leadVars, queueVars,
                   workerVars, dispatchVars, faults>>

-----------------------------------------------------------------------------
(* LeadProcessor.process, one action per wait. *)

Idle(w) ==
    /\ pc' = [pc EXCEPT ![w] = "idle"]
    /\ on' = [on EXCEPT ![w] = None]
    /\ seen' = [seen EXCEPT ![w] = NoLead]
    /\ snap' = [snap EXCEPT ![w] = 0]

Deliver(w, e) ==
    /\ pc[w] = "idle"
    /\ job[e] = "waiting"
    /\ job' = [job EXCEPT ![e] = "active"]
    /\ holder' = [holder EXCEPT ![e] = w]
    /\ pc' = [pc EXCEPT ![w] = "begin"]
    /\ on' = [on EXCEPT ![w] = e]
    /\ UNCHANGED <<receiptVars, lastEnqueued, outbox, leadVars, seen, snap,
                   dispatchVars, faults>>

\* if (!receipt || receipt.state !== 'pending') return, and the same test in
\* the catch handler and in the UPDATEs.
StillPending(e) == state[e] = "pending"

\* The receipt is read under its row lock; a settled one ends the job quietly.
TakeReceipt(w) ==
    /\ pc[w] = "begin"
    /\ ~ReceiptLocked(on[w])
    /\ pc' = [pc EXCEPT ![w] = IF StillPending(on[w]) THEN "receipt" ELSE "done"]
    /\ UNCHANGED <<receiptVars, lastEnqueued, outbox, leadVars, queueVars, on, seen,
                   snap, dispatchVars, faults>>

\* The worker's transaction commits receipt e; the attempt it counted becomes
\* visible.  A commit whose answer is lost is reported to the caller as an error.
Commit(w, e, newState, code) ==
    /\ state' = [state EXCEPT ![e] = newState]
    /\ attempts' = [attempts EXCEPT ![e] = @ + 1]
    /\ errorCode' = [errorCode EXCEPT ![e] = code]
    /\ \/ pc' = [pc EXCEPT ![w] = "done"] /\ UNCHANGED faults
       \/ pc' = [pc EXCEPT ![w] = "recover"] /\ Fault
    /\ seen' = [seen EXCEPT ![w] = NoLead]
    /\ UNCHANGED <<due, lastEnqueued, queueVars, on, snap, dispatchVars>>

\* The two refusals decided before the lead is looked at.
Overspent(e) == attempts[e] + 1 > MaxAttempts

Refuse(w) ==
    LET e == on[w] IN
    /\ pc[w] = "receipt"
    /\ Overspent(e) \/ e \in Invalid
    /\ Commit(w, e, "failed",
              IF Overspent(e) THEN "RETRY_EXHAUSTED" ELSE "INVALID_STORED_PAYLOAD")
    /\ UNCHANGED <<outbox, leadVars>>

TakeLead(w) ==
    LET e == on[w] IN
    /\ pc[w] = "receipt"
    /\ ~Overspent(e) /\ e \notin Invalid
    /\ ~LeadLocked(LeadOf[e])
    /\ seen' = [seen EXCEPT ![w] = lead[LeadOf[e]]]
    /\ pc' = [pc EXCEPT ![w] = "lead"]
    /\ UNCHANGED <<receiptVars, lastEnqueued, outbox, leadVars, queueVars, on, snap,
                   dispatchVars, faults>>

\* An older version, or the same version with the same snapshot.
Superseded(e, row) ==
    \/ VersionOf[e] < row.sourceVersion
    \/ VersionOf[e] = row.sourceVersion /\ DataOf[e] = row.data

Ignore(w) ==
    LET e == on[w] IN
    /\ pc[w] = "lead"
    /\ Superseded(e, seen[w])
    /\ Commit(w, e, "ignored", "none")
    /\ UNCHANGED <<outbox, leadVars>>

Conflict(w) ==
    LET e == on[w] IN
    /\ pc[w] = "lead"
    /\ VersionOf[e] = seen[w].sourceVersion
    /\ ~Superseded(e, seen[w])
    /\ Commit(w, e, "failed", "SOURCE_VERSION_CONFLICT")
    /\ UNCHANGED <<outbox, leadVars>>

\* Create or update the lead, audit it (an update only when the snapshot
\* changed), count a new lead, and leave a notification in the outbox.
Apply(w) ==
    LET e == on[w]
        l == LeadOf[e]
        isNew == seen[w].sourceVersion = 0
        changed == DataOf[e] # seen[w].data
    IN
    /\ pc[w] = "lead"
    /\ VersionOf[e] > seen[w].sourceVersion
    /\ lead' = [lead EXCEPT ![l] = [sourceVersion |-> VersionOf[e],
                                    data |-> DataOf[e],
                                    version |-> seen[w].version + 1]]
    /\ activities' = [activities EXCEPT ![l] = IF changed THEN @ + 1 ELSE @]
    /\ created' = [created EXCEPT ![l] = IF isNew THEN @ + 1 ELSE @]
    /\ notices' = [notices EXCEPT ![e] = @ + 1]
    /\ outbox' = outbox \cup {<<"notify", e>>}
    /\ Commit(w, e, "processed", "none")

\* Any failure inside the transaction: it rolls back and the catch handler runs.
Fail(w) ==
    /\ pc[w] \in {"begin", "receipt", "lead"}
    /\ Fault
    /\ pc' = [pc EXCEPT ![w] = "recover"]
    /\ seen' = [seen EXCEPT ![w] = NoLead]
    /\ UNCHANGED <<receiptVars, lastEnqueued, outbox, leadVars, queueVars, on, snap,
                   dispatchVars>>

\* The catch handler reads the receipt with no lock and no transaction.
ReadCurrent(w) ==
    LET e == on[w] IN
    /\ pc[w] = "recover"
    /\ IF StillPending(e)
       THEN /\ snap' = [snap EXCEPT ![w] = attempts[e]]
            /\ pc' = [pc EXCEPT ![w] = "retry"]
       ELSE /\ pc' = [pc EXCEPT ![w] = "failed"]
            /\ UNCHANGED snap
    /\ UNCHANGED <<receiptVars, lastEnqueued, outbox, leadVars, queueVars, on, seen,
                   dispatchVars, faults>>

Exhausted(n) == n >= MaxAttempts

\* UPDATE ... WHERE id = e AND state = 'pending', from the attempts read before.
WriteRetry(w) ==
    LET e == on[w]
        n == snap[w] + 1
    IN
    /\ pc[w] = "retry"
    /\ ~ReceiptLocked(e)
    /\ IF StillPending(e)
       THEN /\ attempts' = [attempts EXCEPT ![e] = n]
            /\ state' = [state EXCEPT ![e] = IF Exhausted(n) THEN "failed" ELSE "pending"]
            /\ errorCode' = [errorCode EXCEPT ![e] =
                                IF Exhausted(n) THEN "RETRY_EXHAUSTED" ELSE "PROCESSING_RETRY"]
            /\ due' = [due EXCEPT ![e] = FALSE]
       ELSE UNCHANGED receiptVars
    /\ pc' = [pc EXCEPT ![w] = "failed"]
    /\ snap' = [snap EXCEPT ![w] = 0]
    /\ UNCHANGED <<lastEnqueued, outbox, leadVars, queueVars, on, seen, dispatchVars,
                   faults>>

\* The catch handler's own read or write fails: the retry is not recorded.
LoseRetry(w) ==
    /\ pc[w] \in {"recover", "retry"}
    /\ Fault
    /\ pc' = [pc EXCEPT ![w] = "failed"]
    /\ snap' = [snap EXCEPT ![w] = 0]
    /\ UNCHANGED <<receiptVars, lastEnqueued, outbox, leadVars, queueVars, on, seen,
                   dispatchVars>>

\* The process dies: PostgreSQL rolls back, the job stays active with no holder.
Crash(w) ==
    /\ pc[w] # "idle"
    /\ Fault
    /\ holder' = [e \in Events |-> IF holder[e] = w THEN None ELSE holder[e]]
    /\ Idle(w)
    /\ UNCHANGED <<receiptVars, lastEnqueued, outbox, leadVars, job, dispatchVars>>

-----------------------------------------------------------------------------
(* BullMQ. *)

\* The outcome is recorded only while the worker's lease on the job is valid.
Finish(w) ==
    LET e == on[w]
        owned == holder[e] = w
    IN
    /\ pc[w] \in {"done", "failed"}
    /\ \E next \in IF pc[w] = "done" THEN {"completed"} ELSE {"delayed", "failed"} :
            job' = IF owned THEN [job EXCEPT ![e] = next] ELSE job
    /\ holder' = IF owned THEN [holder EXCEPT ![e] = None] ELSE holder
    /\ Idle(w)
    /\ UNCHANGED <<receiptVars, lastEnqueued, outbox, leadVars, dispatchVars, faults>>

Promote(e) ==
    /\ job[e] = "delayed"
    /\ job' = [job EXCEPT ![e] = "waiting"]
    /\ UNCHANGED <<receiptVars, lastEnqueued, outbox, leadVars, holder, workerVars,
                   dispatchVars, faults>>

\* A stalled job is delivered again, or failed once it stalled too often.
Stalled(e) ==
    /\ job[e] = "active"
    /\ \E next \in {"waiting", "failed"} : job' = [job EXCEPT ![e] = next]
    /\ holder' = [holder EXCEPT ![e] = None]

\* The stall check finds a job nobody renews.
Reclaim(e) ==
    /\ holder[e] = None
    /\ Stalled(e)
    /\ UNCHANGED <<receiptVars, lastEnqueued, outbox, leadVars, workerVars,
                   dispatchVars, faults>>

\* The lease of a live worker lapses (a blocked event loop, an unreachable
\* Redis): the worker goes on while the job is delivered to another.
Lapse(e) ==
    /\ holder[e] # None
    /\ Fault
    /\ Stalled(e)
    /\ UNCHANGED <<receiptVars, lastEnqueued, outbox, leadVars, workerVars, dispatchVars>>

\* removeOnComplete and removeOnFail.
Evict(e) ==
    /\ job[e] \in {"completed", "failed"}
    /\ job' = [job EXCEPT ![e] = "none"]
    /\ UNCHANGED <<receiptVars, lastEnqueued, outbox, leadVars, holder, workerVars,
                   dispatchVars, faults>>

\* Redis loses its memory.
FlushRedis ==
    /\ Fault
    /\ job' = [e \in Events |-> "none"]
    /\ holder' = [e \in Events |-> None]
    /\ UNCHANGED <<receiptVars, lastEnqueued, outbox, leadVars, workerVars, dispatchVars>>

-----------------------------------------------------------------------------
(* JobsService.tick: dispatch, then reconcile, never both at once in one process. *)

\* ORDER BY createdAt LIMIT Batch SKIP LOCKED, the order abstracted away.
Selections(rows) ==
    {s \in SUBSET rows : s # {} /\ (s = rows \/ Cardinality(s) = Batch)
                         /\ Cardinality(s) <= Batch}

Select(d, rows, receipts) ==
    /\ batch[d] = {}
    /\ batch' = [batch EXCEPT ![d] = rows]
    /\ touched' = [touched EXCEPT ![d] = receipts]
    /\ UNCHANGED <<receiptVars, lastEnqueued, outbox, leadVars, queueVars, workerVars,
                   pushed, marked, faults>>

Dispatch(d) ==
    \E rows \in Selections({r \in outbox : ~RowLocked(r)}) : Select(d, rows, {})

\* Pending receipts whose retry is due and that nobody enqueued for 60 s.
Overdue(e) == state[e] = "pending" /\ due[e] /\ lastEnqueued[e] # "fresh"

Reconcile(d) ==
    \E es \in Selections({e \in Events : Overdue(e) /\ ~ReceiptLocked(e)}) :
        Select(d, {"recover"} \X es, es)

\* Queue.add is a no-op while a job with that id exists; recovery first removes
\* a finished one.
Enqueue(e, recovery) ==
    job' = IF job[e] = "none" \/ (recovery /\ job[e] \in {"completed", "failed"})
           THEN [job EXCEPT ![e] = "waiting"] ELSE job

\* The Redis call for one row; it survives a rollback of the transaction.
Push(d, r) ==
    /\ r \in batch[d] \ pushed[d]
    /\ pushed[d] = marked[d]
    /\ pushed' = [pushed EXCEPT ![d] = @ \cup {r}]
    /\ IF r[1] = "notify" THEN UNCHANGED job ELSE Enqueue(r[2], r[1] = "recover")
    /\ UNCHANGED <<receiptVars, lastEnqueued, outbox, leadVars, holder, workerVars, batch,
                   marked, touched, faults>>

\* The row updates that follow; UPDATE ... WHERE state = 'pending' waits for the
\* receipt's lock and takes it only when the receipt still is pending.
Mark(d, r) ==
    LET e == r[2] IN
    /\ r \in pushed[d] \ marked[d]
    /\ r[1] = "process" => ~ReceiptLocked(e)
    /\ marked' = [marked EXCEPT ![d] = @ \cup {r}]
    /\ touched' = IF r[1] = "process" /\ StillPending(e)
                  THEN [touched EXCEPT ![d] = @ \cup {e}] ELSE touched
    /\ UNCHANGED <<receiptVars, lastEnqueued, outbox, leadVars, queueVars, workerVars,
                   batch, pushed, faults>>

Release(d) ==
    /\ batch' = [batch EXCEPT ![d] = {}]
    /\ pushed' = [pushed EXCEPT ![d] = {}]
    /\ marked' = [marked EXCEPT ![d] = {}]
    /\ touched' = [touched EXCEPT ![d] = {}]

CommitBatch(d) ==
    /\ batch[d] # {}
    /\ marked[d] = batch[d]
    /\ outbox' = outbox \ batch[d]
    /\ lastEnqueued' = [e \in Events |-> IF e \in touched[d] THEN "fresh"
                                                            ELSE lastEnqueued[e]]
    /\ Release(d)
    /\ UNCHANGED <<receiptVars, leadVars, queueVars, workerVars, faults>>

\* Redis or PostgreSQL fails, or the process dies, in the middle of a batch.
Abort(d) ==
    /\ batch[d] # {}
    /\ Fault
    /\ Release(d)
    /\ UNCHANGED <<receiptVars, lastEnqueued, outbox, leadVars, queueVars, workerVars>>

-----------------------------------------------------------------------------
(* Time and the operator. *)

GraceExpires(e) ==
    /\ lastEnqueued[e] = "fresh"
    /\ lastEnqueued' = [lastEnqueued EXCEPT ![e] = "stale"]
    /\ UNCHANGED <<receiptVars, outbox, leadVars, queueVars, workerVars, dispatchVars, faults>>

BackoffExpires(e) ==
    /\ ~due[e]
    /\ due' = [due EXCEPT ![e] = TRUE]
    /\ UNCHANGED <<state, attempts, errorCode, lastEnqueued, outbox, leadVars, queueVars,
                   workerVars, dispatchVars, faults>>

\* scripts/replay.ts: only a failed receipt, under its row lock.
Replay(e) ==
    /\ state[e] = "failed"
    /\ ~ReceiptLocked(e)
    /\ Fault
    /\ state' = [state EXCEPT ![e] = "pending"]
    /\ attempts' = [attempts EXCEPT ![e] = 0]
    /\ errorCode' = [errorCode EXCEPT ![e] = "none"]
    /\ due' = [due EXCEPT ![e] = TRUE]
    /\ lastEnqueued' = [lastEnqueued EXCEPT ![e] = "never"]
    /\ UNCHANGED <<outbox, leadVars, queueVars, workerVars, dispatchVars>>

-----------------------------------------------------------------------------
Process(w) ==
    \/ \E e \in Events : Deliver(w, e)
    \/ TakeReceipt(w) \/ Refuse(w) \/ TakeLead(w)
    \/ Ignore(w) \/ Conflict(w) \/ Apply(w)
    \/ ReadCurrent(w) \/ WriteRetry(w) \/ Finish(w)

Tick(d) ==
    \/ Dispatch(d) \/ Reconcile(d)
    \/ \E r \in batch[d] : Push(d, r) \/ Mark(d, r)
    \/ CommitBatch(d)

Queue(e) == Promote(e) \/ Reclaim(e)

Clock(e) == GraceExpires(e) \/ BackoffExpires(e)

Trouble ==
    \/ \E w \in Workers : Fail(w) \/ LoseRetry(w) \/ Crash(w)
    \/ \E e \in Events : Lapse(e) \/ Evict(e) \/ Replay(e)
    \/ \E d \in Dispatchers : Abort(d)
    \/ FlushRedis

Next ==
    \/ \E e \in Events : Accept(e) \/ Queue(e) \/ Clock(e)
    \/ \E w \in Workers : Process(w)
    \/ \E d \in Dispatchers : Tick(d)
    \/ Trouble

Spec == Init /\ [][Next]_vars

\* The code's own loops keep running: workers, the one-second tick, BullMQ's
\* stall check and delay timer, and the clock.  A worker or a tick that is
\* blocked on a lock is granted it eventually although others come and go.
Fairness ==
    /\ \A w \in Workers : SF_vars(Process(w))
    /\ \A d \in Dispatchers : WF_vars(Tick(d))
    /\ \A e \in Events : WF_vars(Queue(e)) /\ WF_vars(Clock(e))

FairSpec == Spec /\ Fairness

-----------------------------------------------------------------------------
(* Safety. *)

Processed(l) == {e \in Events : LeadOf[e] = l /\ state[e] = "processed"}

\* A receipt's business effects happen exactly once however often its job is
\* delivered, retried, stalled or replayed: a notification is written for a
\* receipt if and only if it ended processed, and then once.
EffectsOnce ==
    \A e \in Events : notices[e] = IF state[e] = "processed" THEN 1 ELSE 0

\* The lead row is the newest processed snapshot: nothing older or lost, in
\* whatever order deliveries, retries and replays were applied.
LeadIsNewest ==
    \A l \in Leads :
        /\ lead[l].sourceVersion > 0 =>
               \E e \in Processed(l) : /\ VersionOf[e] = lead[l].sourceVersion
                                       /\ DataOf[e] = lead[l].data
        /\ \A e \in Events :
               LeadOf[e] = l /\ state[e] \in {"processed", "ignored"} =>
                   VersionOf[e] <= lead[l].sourceVersion

\* The audit trail and the dashboard total agree with the lead rows: a lead is
\* counted once, its row version counts the receipts applied to it, and it has
\* an audit row for its creation and at most one for each later change.
LedgerMatchesLeads ==
    \A l \in Leads :
        /\ created[l] = IF lead[l].sourceVersion > 0 THEN 1 ELSE 0
        /\ lead[l].version = Cardinality(Processed(l))
        /\ created[l] <= activities[l] /\ activities[l] <= lead[l].version

\* A source-version conflict is reported only against a different snapshot of
\* the same version that was processed.
ConflictHasRival ==
    \A e \in Events : errorCode[e] = "SOURCE_VERSION_CONFLICT" =>
        \E r \in Processed(LeadOf[e]) :
            VersionOf[r] = VersionOf[e] /\ DataOf[r] # DataOf[e]

\* A pending receipt always has an attempt left, so the budget test at the head
\* of the transaction never fires: the catch handler settles a receipt first.
PendingHasBudget == \A e \in Events : state[e] = "pending" => attempts[e] < MaxAttempts

\* Nobody shares a lock: a receipt is in the hands of one transaction (a
\* worker's, a dispatcher's or a reconciler's), a lead in those of one worker,
\* an outbox row in those of one dispatcher.
Serialized ==
    /\ \A v, w \in Workers : v # w =>
        /\ \A e \in Events : ~(HoldsReceipt(v, e) /\ HoldsReceipt(w, e))
        /\ pc[v] = "lead" /\ pc[w] = "lead" => LeadOf[on[v]] # LeadOf[on[w]]
    /\ \A c, d \in Dispatchers : c # d =>
        batch[c] \cap batch[d] = {} /\ touched[c] \cap touched[d] = {}
    /\ \A w \in Workers, d \in Dispatchers : \A e \in touched[d] : ~HoldsReceipt(w, e)

-----------------------------------------------------------------------------
(* What a step may never do. *)

\* Processed and ignored receipts are final; a failed one changes only by an
\* operator's replay, which restores the whole budget; none is ever forgotten.
ReceiptSteps ==
    [][\A e \in Events :
        /\ state[e] \in {"processed", "ignored"} =>
               UNCHANGED <<state[e], attempts[e], errorCode[e]>>
        /\ state[e] = "failed" /\ state'[e] # "failed" =>
               state'[e] = "pending" /\ attempts'[e] = 0 /\ lastEnqueued'[e] = "never"
        /\ state[e] # "absent" => state'[e] # "absent"]_vars

\* A lead's source version never goes back, and its snapshot changes only
\* together with it.
SourceVersionGrows ==
    [][\A l \in Leads :
        \/ lead'[l] = lead[l]
        \/ lead'[l].sourceVersion > lead[l].sourceVersion]_vars

-----------------------------------------------------------------------------
(* Liveness. *)

\* Every acknowledged receipt is settled, through crashes, lapsed leases, lost
\* Redis data and aborted batches.
EventuallySettled == \A e \in Events : state[e] = "pending" ~> state[e] # "pending"

\* Every notification is published.
EventuallyPublished ==
    \A e \in Events : notices[e] > 0 ~> <<"notify", e>> \notin outbox

-----------------------------------------------------------------------------
(* Refinement: the receipts and lead rows, seen without the machinery. *)

StatusOf(s) ==
    CASE s = "absent" -> "unknown"
      [] s = "pending" -> "accepted"
      [] s = "processed" -> "applied"
      [] s = "ignored" -> "superseded"
      [] s = "failed" -> "refused"

Promise == INSTANCE Inbox WITH
    status <- [e \in Events |-> StatusOf(state[e])],
    newest <- [l \in Leads |-> [version |-> lead[l].sourceVersion, data |-> lead[l].data]]

\* The pipeline implements the Inbox: whatever the interleaving of deliveries,
\* retries, crashes and replays, each commit is one indivisible decision against
\* the newest snapshot of its lead.
ImplementsInbox == Promise!Spec

=============================================================================
