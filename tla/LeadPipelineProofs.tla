------------------------- MODULE LeadPipelineProofs -------------------------
(***************************************************************************)
(* Safety of LeadPipeline for every set of receipts, leads, workers and    *)
(* dispatchers and every budget.                                           *)
(***************************************************************************)
EXTENDS LeadPipeline, FiniteSetTheorems, TLAPS

\* A receipt that can still be attempted has an attempt left, and so has the
\* count a catch handler is about to write.
Budget ==
    /\ \A e \in Events : state[e] \in {"absent", "pending"} => attempts[e] < MaxAttempts
    /\ \A w \in Workers : snap[w] < MaxAttempts

\* What a row lock on a receipt protects: it stays pending while it is held.
HeldIsPending ==
    \A w \in Workers : pc[w] \in {"receipt", "lead"} => state[on[w]] = "pending"

\* What the advisory lock on a lead protects: the row read is the row still there.
SeenIsCurrent ==
    \A w \in Workers : pc[w] = "lead" => seen[w] = lead[LeadOf[on[w]]]

\* Bookkeeping of a dispatcher's transaction.
BatchInv ==
    \A d \in Dispatchers :
        /\ pushed[d] \subseteq batch[d] /\ marked[d] \subseteq batch[d]
        /\ \A e \in Events : <<"recover", e>> \in batch[d] => e \in touched[d]

\* What LedgerMatchesLeads rests on: a lead nobody created is blank, and the
\* receipts applied to a lead can be counted.
Ledger ==
    /\ LedgerMatchesLeads
    /\ \A l \in Leads : lead[l].sourceVersion = 0 => lead[l].data = None
    /\ \A l \in Leads : IsFiniteSet(Processed(l))

IInv ==
    /\ TypeOK
    /\ Budget
    /\ HeldIsPending
    /\ SeenIsCurrent
    /\ BatchInv
    /\ Serialized
    /\ EffectsOnce
    /\ LeadIsNewest
    /\ ConflictHasRival
    /\ Ledger

-----------------------------------------------------------------------------
LEMMA InitIInv == Init => IInv
<1> SUFFICES ASSUME Init PROVE IInv
  OBVIOUS
<1> USE PipelineAssumption DEF Init
<1>1. TypeOK
  BY DEF TypeOK, ReceiptType, LeadType, QueueType, WorkerType, DispatchType, LeadRow,
     NoLead, ReceiptStates, ErrorCodes, JobStates, Points
<1>2. Budget /\ HeldIsPending /\ SeenIsCurrent /\ BatchInv
  BY DEF Budget, HeldIsPending, SeenIsCurrent, BatchInv
<1>3. Serialized
  BY DEF Serialized, HoldsReceipt
<1>4. EffectsOnce /\ LeadIsNewest /\ ConflictHasRival
  BY DEF EffectsOnce, LeadIsNewest, ConflictHasRival, NoLead
<1>5. Ledger
  <2>1. \A l \in Leads : Processed(l) = {}
    BY DEF Processed
  <2>2. IsFiniteSet({}) /\ Cardinality({}) = 0
    BY FS_EmptySet
  <2>3. \A l \in Leads : Cardinality(Processed(l)) = 0 /\ IsFiniteSet(Processed(l))
    BY <2>1, <2>2
  <2>4. \A l \in Leads : /\ lead[l].sourceVersion = 0 /\ lead[l].version = 0 /\ lead[l].data = None
                         /\ created[l] = 0 /\ activities[l] = 0
    BY DEF NoLead
  <2> QED
    BY <2>3, <2>4 DEF Ledger, LedgerMatchesLeads
<1> QED
  BY <1>1, <1>2, <1>3, <1>4, <1>5 DEF IInv

-----------------------------------------------------------------------------
(* Types.  The two counts stay in range because of Budget. *)

LEMMA WorkerMoves ==
  ASSUME WorkerType, NEW w \in Workers, NEW p \in Points, pc[w] # "idle",
         pc' = [pc EXCEPT ![w] = p], UNCHANGED on,
         seen' \in [Workers -> LeadRow], snap' \in [Workers -> 0 .. MaxAttempts]
  PROVE  WorkerType'
BY DEF WorkerType

LEMMA CommitType ==
  ASSUME TypeOK, NEW w \in Workers, NEW e \in Events, attempts[e] < MaxAttempts,
         pc[w] # "idle",
         NEW s \in ReceiptStates, NEW c \in ErrorCodes, Commit(w, e, s, c)
  PROVE  ReceiptType' /\ WorkerType' /\ DispatchType' /\ faults' \in 0 .. MaxFaults
<1>1. ReceiptType'
  BY PipelineAssumption DEF TypeOK, ReceiptType, Commit
<1>2. NoLead \in LeadRow
  BY DEF NoLead, LeadRow
<1>3. WorkerType'
  <2>1. seen' \in [Workers -> LeadRow] /\ snap' \in [Workers -> 0 .. MaxAttempts] /\ UNCHANGED on
    BY <1>2 DEF TypeOK, WorkerType, Commit
  <2>2. PICK p \in {"done", "recover"} : pc' = [pc EXCEPT ![w] = p]
    BY DEF Commit
  <2> QED
    BY <2>1, <2>2, WorkerMoves DEF TypeOK, Points
<1>4. DispatchType'
  BY DEF TypeOK, DispatchType, Commit, dispatchVars
<1>5. faults' \in 0 .. MaxFaults
  BY PipelineAssumption DEF TypeOK, Commit, Fault
<1> QED
  BY <1>1, <1>3, <1>4, <1>5

LEMMA IdleType ==
  ASSUME WorkerType, NEW w \in Workers, Idle(w)
  PROVE  WorkerType'
BY PipelineAssumption DEF WorkerType, Idle, NoLead, LeadRow, Points

LEMMA TypeStep == IInv /\ [Next]_vars => TypeOK'
<1> SUFFICES ASSUME IInv, [Next]_vars PROVE TypeOK'
  OBVIOUS
<1> USE DEF IInv
<1> DEFINE faultsOK == faults' \in 0 .. MaxFaults
<1>1. Fault => faultsOK
  BY PipelineAssumption DEF Fault, TypeOK
<1>2. UNCHANGED faults => faultsOK
  BY DEF TypeOK
<1>3. ASSUME NEW e \in Events, Accept(e) PROVE TypeOK'
  BY <1>3, <1>2 DEF Accept, TypeOK, ReceiptType, LeadType, QueueType, WorkerType, DispatchType,
     ReceiptStates, leadVars, queueVars, workerVars, dispatchVars
<1>4. ASSUME NEW w \in Workers, NEW e \in Events, Deliver(w, e) PROVE TypeOK'
  <2>1. WorkerType'
    BY <1>4 DEF Deliver, TypeOK, WorkerType, Points
  <2>2. QueueType'
    BY <1>4 DEF Deliver, TypeOK, QueueType, JobStates
  <2> QED
    BY <1>4, <1>2, <2>1, <2>2 DEF Deliver, TypeOK, ReceiptType, LeadType, DispatchType,
       receiptVars, leadVars, dispatchVars
<1>5. ASSUME NEW w \in Workers, TakeReceipt(w) PROVE TypeOK'
  <2>1. PICK p \in {"receipt", "done"} : pc' = [pc EXCEPT ![w] = p]
    BY <1>5 DEF TakeReceipt
  <2>2. WorkerType'
    BY <1>5, <2>1, WorkerMoves DEF TakeReceipt, TypeOK, WorkerType, Points
  <2> QED
    BY <1>5, <1>2, <2>2 DEF TakeReceipt, TypeOK, ReceiptType, LeadType, QueueType, DispatchType,
       receiptVars, leadVars, queueVars, dispatchVars
<1>6. ASSUME NEW w \in Workers, Refuse(w) PROVE TypeOK'
  <2>1. on[w] \in Events /\ attempts[on[w]] < MaxAttempts /\ pc[w] # "idle"
    BY <1>6 DEF Refuse, TypeOK, WorkerType, HeldIsPending, Budget
  <2>2. PICK c \in ErrorCodes : Commit(w, on[w], "failed", c)
    BY <1>6 DEF Refuse, ErrorCodes
  <2>3. ReceiptType' /\ WorkerType' /\ DispatchType' /\ faultsOK
    BY <2>1, <2>2, CommitType DEF ReceiptStates
  <2> QED
    BY <1>6, <2>2, <2>3 DEF Refuse, Commit, TypeOK, LeadType, QueueType, leadVars, queueVars
<1>7. ASSUME NEW w \in Workers, TakeLead(w) PROVE TypeOK'
  <2>1. seen' \in [Workers -> LeadRow]
    BY <1>7, PipelineAssumption DEF TakeLead, TypeOK, WorkerType, LeadType
  <2>2. WorkerType'
    BY <1>7, <2>1, WorkerMoves DEF TakeLead, TypeOK, WorkerType, Points
  <2> QED
    BY <1>7, <1>2, <2>2 DEF TakeLead, TypeOK, ReceiptType, LeadType, QueueType, DispatchType,
       receiptVars, leadVars, queueVars, dispatchVars
<1>8. ASSUME NEW w \in Workers, pc[w] = "lead", NEW s \in ReceiptStates, NEW c \in ErrorCodes,
             Commit(w, on[w], s, c)
      PROVE  ReceiptType' /\ WorkerType' /\ DispatchType' /\ faultsOK
  <2>1. on[w] \in Events /\ attempts[on[w]] < MaxAttempts
    BY <1>8 DEF TypeOK, WorkerType, HeldIsPending, Budget
  <2> QED
    BY <1>8, <2>1, CommitType
<1>9. ASSUME NEW w \in Workers, Ignore(w) \/ Conflict(w) PROVE TypeOK'
  <2>1. ReceiptType' /\ WorkerType' /\ DispatchType' /\ faultsOK
    BY <1>9, <1>8 DEF Ignore, Conflict, ReceiptStates, ErrorCodes
  <2>2. LeadType'
    BY <1>9 DEF Ignore, Conflict, TypeOK, LeadType, leadVars
  <2>3. QueueType'
    BY <1>9 DEF Ignore, Conflict, Commit, TypeOK, QueueType, queueVars
  <2> QED
    BY <2>1, <2>2, <2>3 DEF TypeOK
<1>10. ASSUME NEW w \in Workers, Apply(w) PROVE TypeOK'
  <2>1. ReceiptType' /\ WorkerType' /\ DispatchType' /\ faultsOK
    BY <1>10, <1>8 DEF Apply, ReceiptStates, ErrorCodes
  <2>2. on[w] \in Events /\ LeadOf[on[w]] \in Leads
    BY <1>10, PipelineAssumption DEF Apply, TypeOK, WorkerType
  <2>3. [sourceVersion |-> VersionOf[on[w]], data |-> DataOf[on[w]],
         version |-> seen[w].version + 1] \in LeadRow
    BY <2>2, PipelineAssumption DEF TypeOK, WorkerType, LeadRow
  <2>4. LeadType'
    BY <1>10, <2>2, <2>3 DEF Apply, TypeOK, LeadType
  <2>5. QueueType'
    BY <1>10, <2>2 DEF Apply, Commit, TypeOK, QueueType, queueVars
  <2> QED
    BY <2>1, <2>4, <2>5 DEF TypeOK
<1>11. ASSUME NEW w \in Workers, Fail(w) \/ LoseRetry(w) \/ ReadCurrent(w) PROVE TypeOK'
  <2>1. PICK p \in Points : pc' = [pc EXCEPT ![w] = p]
    BY <1>11 DEF Fail, LoseRetry, ReadCurrent, Points
  <2>2. NoLead \in LeadRow
    BY DEF NoLead, LeadRow
  <2>3. seen' \in [Workers -> LeadRow]
    BY <1>11, <2>2 DEF Fail, LoseRetry, ReadCurrent, TypeOK, WorkerType
  <2>4. snap' \in [Workers -> 0 .. MaxAttempts]
    BY <1>11, PipelineAssumption DEF Fail, LoseRetry, ReadCurrent, TypeOK, WorkerType, ReceiptType
  <2>5. WorkerType'
    BY <1>11, <2>1, <2>3, <2>4, WorkerMoves DEF Fail, LoseRetry, ReadCurrent, TypeOK
  <2> QED
    BY <1>11, <1>1, <1>2, <2>5 DEF Fail, LoseRetry, ReadCurrent, TypeOK, ReceiptType, LeadType,
       QueueType, DispatchType, receiptVars, leadVars, queueVars, dispatchVars
<1>12. ASSUME NEW w \in Workers, WriteRetry(w) PROVE TypeOK'
  <2>1. on[w] \in Events /\ snap[w] + 1 \in 0 .. MaxAttempts
    BY <1>12, PipelineAssumption DEF WriteRetry, TypeOK, WorkerType, Budget
  <2>2. ReceiptType'
    BY <1>12, <2>1 DEF WriteRetry, TypeOK, ReceiptType, ReceiptStates, ErrorCodes, receiptVars
  <2>3. snap' \in [Workers -> 0 .. MaxAttempts]
    BY <1>12, PipelineAssumption DEF WriteRetry, TypeOK, WorkerType
  <2>4. WorkerType'
    BY <1>12, <2>3, WorkerMoves DEF WriteRetry, TypeOK, WorkerType, Points
  <2> QED
    BY <1>12, <1>2, <2>2, <2>4 DEF WriteRetry, TypeOK, LeadType, QueueType, DispatchType,
       leadVars, queueVars, dispatchVars
<1>13. ASSUME NEW w \in Workers, Crash(w) \/ Finish(w) PROVE TypeOK'
  <2>1. WorkerType'
    BY <1>13, IdleType DEF Crash, Finish, TypeOK
  <2>2. on[w] \in Events
    BY <1>13 DEF Crash, Finish, TypeOK, WorkerType
  <2>3. holder' \in [Events -> Workers \cup {None}] /\ job' \in [Events -> JobStates]
    <3>1. CASE Crash(w)
      BY <3>1 DEF Crash, TypeOK, QueueType
    <3>2. CASE Finish(w)
      BY <3>2, <2>2 DEF Finish, TypeOK, QueueType, JobStates
    <3> QED
      BY <1>13, <3>1, <3>2
  <2> QED
    BY <1>13, <1>1, <1>2, <2>1, <2>3 DEF Crash, Finish, TypeOK, ReceiptType, LeadType, QueueType,
       DispatchType, receiptVars, leadVars, dispatchVars
<1>14. ASSUME \/ \E e \in Events : Promote(e) \/ Reclaim(e) \/ Lapse(e) \/ Evict(e)
             \/ FlushRedis
      PROVE  TypeOK'
  <2>1. QueueType'
    BY <1>14 DEF Promote, Reclaim, Lapse, Evict, FlushRedis, Stalled, TypeOK, QueueType, JobStates
  <2> QED
    BY <1>14, <1>1, <1>2, <2>1 DEF Promote, Reclaim, Lapse, Evict, FlushRedis, TypeOK, ReceiptType,
       LeadType, WorkerType, DispatchType, receiptVars, leadVars, workerVars, dispatchVars
<1>15. ASSUME NEW d \in Dispatchers, Dispatch(d) \/ Reconcile(d) PROVE TypeOK'
  <2>1. PICK rows \in SUBSET Row, es \in SUBSET Events : Select(d, rows, es)
    <3>1. CASE Dispatch(d)
      <4>1. PICK rows \in Selections({r \in outbox : ~RowLocked(r)}) : Select(d, rows, {})
        BY <3>1 DEF Dispatch
      <4>2. rows \in SUBSET Row
        BY DEF Selections, Row, TypeOK, QueueType
      <4> QED
        BY <4>1, <4>2
    <3>2. CASE Reconcile(d)
      <4>1. PICK es \in Selections({e \in Events : Overdue(e) /\ ~ReceiptLocked(e)}) :
                Select(d, {"recover"} \X es, es)
        BY <3>2 DEF Reconcile
      <4>2. es \in SUBSET Events /\ {"recover"} \X es \in SUBSET Row
        BY DEF Selections, Row
      <4> QED
        BY <4>1, <4>2
    <3> QED
      BY <1>15, <3>1, <3>2
  <2>2. DispatchType'
    BY <2>1 DEF Select, TypeOK, DispatchType
  <2> QED
    BY <1>2, <2>1, <2>2 DEF Select, TypeOK, ReceiptType, LeadType, QueueType, WorkerType,
       receiptVars, leadVars, queueVars, workerVars
<1>16. ASSUME NEW d \in Dispatchers, NEW r \in batch[d], Push(d, r) \/ Mark(d, r) PROVE TypeOK'
  <2>1. r \in Row /\ r[2] \in Events
    BY <1>16 DEF TypeOK, DispatchType, Row
  <2>2. DispatchType'
    BY <1>16, <2>1 DEF Push, Mark, TypeOK, DispatchType
  <2>3. QueueType'
    BY <1>16, <2>1 DEF Push, Mark, Enqueue, TypeOK, QueueType, JobStates, queueVars
  <2> QED
    BY <1>16, <1>2, <2>2, <2>3 DEF Push, Mark, TypeOK, ReceiptType, LeadType, WorkerType,
       receiptVars, leadVars, workerVars
<1>17. ASSUME NEW d \in Dispatchers, CommitBatch(d) \/ Abort(d) PROVE TypeOK'
  <2>1. DispatchType'
    BY <1>17 DEF CommitBatch, Abort, Release, TypeOK, DispatchType
  <2>2. QueueType'
    BY <1>17 DEF CommitBatch, Abort, TypeOK, QueueType, queueVars
  <2> QED
    BY <1>17, <1>1, <1>2, <2>1, <2>2 DEF CommitBatch, Abort, TypeOK, ReceiptType, LeadType,
       WorkerType, receiptVars, leadVars, workerVars
<1>18. ASSUME NEW e \in Events, GraceExpires(e) \/ BackoffExpires(e) \/ Replay(e) PROVE TypeOK'
  <2>0. 0 \in 0 .. MaxAttempts
    BY PipelineAssumption
  <2>1. ReceiptType' /\ lastEnqueued' \in [Events -> {"never", "fresh", "stale"}]
    <3>1. CASE GraceExpires(e)
      BY <3>1 DEF GraceExpires, TypeOK, ReceiptType, QueueType, receiptVars
    <3>2. CASE BackoffExpires(e)
      BY <3>2 DEF BackoffExpires, TypeOK, ReceiptType, QueueType
    <3>3. CASE Replay(e)
      BY <2>0, <3>3 DEF Replay, TypeOK, ReceiptType, QueueType, ReceiptStates, ErrorCodes
    <3> QED
      BY <1>18, <3>1, <3>2, <3>3
  <2> QED
    BY <1>18, <1>1, <1>2, <2>1 DEF GraceExpires, BackoffExpires, Replay, TypeOK, LeadType,
       QueueType, WorkerType, DispatchType, leadVars, queueVars, workerVars, dispatchVars
<1>19. CASE UNCHANGED vars
  BY <1>19 DEF vars, TypeOK, ReceiptType, LeadType, QueueType, WorkerType, DispatchType,
     receiptVars, leadVars, queueVars, workerVars, dispatchVars
<1> QED
  BY <1>3, <1>4, <1>5, <1>6, <1>7, <1>9, <1>10, <1>11, <1>12, <1>13, <1>14, <1>15, <1>16, <1>17, <1>18, <1>19
     DEF Next, Process, Tick, Queue, Clock, Trouble

-----------------------------------------------------------------------------
(* Locks.  Seen from the locks, a step does one of six things.              *)

InTransaction(w) == pc[w] \in {"receipt", "lead"}

\* The queue, the dispatchers and the clocks.
Background == UNCHANGED <<state, attempts, errorCode, leadVars, workerVars>>

\* Worker w does something outside a transaction, or gives its transaction up.
Leaves(w) ==
    /\ UNCHANGED <<state, attempts, errorCode, leadVars>>
    /\ \A v \in Workers \ {w} : pc'[v] = pc[v] /\ on'[v] = on[v] /\ seen'[v] = seen[v]
    /\ pc'[w] \notin {"receipt", "lead"}

\* Worker w commits the receipt it holds.
Settles(w) ==
    /\ InTransaction(w)
    /\ \E s \in {"failed", "ignored", "processed"}, c \in ErrorCodes \ {"PROCESSING_RETRY"} :
            Commit(w, on[w], s, c)
    /\ Apply(w) \/ UNCHANGED leadVars

\* Only receipts nobody holds change, or one that did not exist.
Outside(e) ==
    /\ e \in Events
    /\ state[e] = "absent" \/ ~ReceiptLocked(e)
    /\ \A f \in Events \ {e} : state'[f] = state[f]
    /\ UNCHANGED leadVars
    /\ \A v \in Workers : InTransaction(v)' => InTransaction(v)
    /\ \A v \in Workers : pc'[v] = "lead" => pc[v] = "lead"
    /\ UNCHANGED <<on, seen>>

LEMMA Commits ==
  ASSUME NEW w \in Workers, Refuse(w) \/ Ignore(w) \/ Conflict(w) \/ Apply(w)
  PROVE  Settles(w)
<1>1. CASE Refuse(w)
  BY <1>1 DEF Refuse, Settles, InTransaction, ErrorCodes, leadVars
<1>2. CASE Ignore(w) \/ Conflict(w) \/ Apply(w)
  BY <1>2 DEF Ignore, Conflict, Apply, Settles, InTransaction, ErrorCodes, leadVars
<1> QED
  BY <1>1, <1>2

LEMMA StepOrigins ==
  ASSUME [Next]_vars
  PROVE  \/ Background
         \/ \E w \in Workers :
                \/ \E e \in Events : Deliver(w, e)
                \/ TakeReceipt(w) \/ TakeLead(w) \/ ReadCurrent(w) \/ WriteRetry(w)
                \/ Refuse(w) \/ Ignore(w) \/ Conflict(w) \/ Apply(w)
                \/ Finish(w) \/ Fail(w) \/ LoseRetry(w) \/ Crash(w)
         \/ \E e \in Events : Accept(e) \/ Replay(e)
<1>1. ASSUME \/ \E e \in Events : Queue(e) \/ Clock(e) \/ Lapse(e) \/ Evict(e)
             \/ \E d \in Dispatchers : Tick(d) \/ Abort(d)
             \/ FlushRedis
      PROVE  Background
  <2>1. ASSUME NEW e \in Events, Queue(e) \/ Clock(e) \/ Lapse(e) \/ Evict(e) PROVE Background
    BY <2>1 DEF Queue, Clock, Promote, Reclaim, GraceExpires, BackoffExpires, Lapse, Evict,
       Background, receiptVars, leadVars, workerVars
  <2>2. ASSUME NEW d \in Dispatchers, Tick(d) \/ Abort(d) PROVE Background
    BY <2>2 DEF Tick, Dispatch, Reconcile, Select, Push, Mark, CommitBatch, Abort, Background,
       receiptVars, leadVars, workerVars
  <2> QED
    BY <1>1, <2>1, <2>2 DEF FlushRedis, Background, receiptVars, leadVars, workerVars
<1>2. CASE UNCHANGED vars
  BY <1>2 DEF vars, Background, receiptVars, leadVars, workerVars
<1> QED
  BY <1>1, <1>2 DEF Next, Process, Trouble

LEMMA StepKinds ==
  ASSUME IInv, [Next]_vars
  PROVE  \/ Background
         \/ \E w \in Workers : Leaves(w) \/ TakeReceipt(w) \/ TakeLead(w) \/ Settles(w)
         \/ \E e \in Events : Outside(e)
<1> USE DEF IInv
<1>1. ASSUME NEW e \in Events, Accept(e) \/ Replay(e) PROVE Outside(e)
  BY <1>1 DEF Accept, Replay, Outside, InTransaction, TypeOK, ReceiptType, workerVars
<1>2. ASSUME NEW w \in Workers, NEW e \in Events, Deliver(w, e) PROVE Leaves(w)
  BY <1>2 DEF Deliver, Leaves, TypeOK, WorkerType, receiptVars, leadVars
<1>3. ASSUME NEW w \in Workers, Fail(w) \/ LoseRetry(w) \/ ReadCurrent(w) PROVE Leaves(w)
  BY <1>3 DEF Fail, LoseRetry, ReadCurrent, Leaves, TypeOK, WorkerType, receiptVars, leadVars
<1>4. ASSUME NEW w \in Workers, Crash(w) \/ Finish(w) PROVE Leaves(w)
  BY <1>4 DEF Crash, Finish, Idle, Leaves, TypeOK, WorkerType, receiptVars, leadVars
<1>5. ASSUME NEW w \in Workers, WriteRetry(w) PROVE Outside(on[w])
  <2>1. on[w] \in Events
    BY <1>5 DEF WriteRetry, TypeOK, WorkerType
  <2>2. \A v \in Workers : pc'[v] = IF v = w THEN "failed" ELSE pc[v]
    BY <1>5 DEF WriteRetry, TypeOK, WorkerType
  <2> QED
    BY <1>5, <2>1, <2>2 DEF WriteRetry, Outside, InTransaction, TypeOK, ReceiptType, receiptVars
<1>6. ASSUME NEW w \in Workers, WriteRetry(w) PROVE on[w] \in Events
  BY <1>6 DEF WriteRetry, TypeOK, WorkerType
<1> QED
  BY <1>1, <1>2, <1>3, <1>4, <1>5, <1>6, StepOrigins, Commits

LEMMA HeldStep == IInv /\ [Next]_vars => HeldIsPending'
<1> SUFFICES ASSUME IInv, [Next]_vars, NEW v \in Workers, InTransaction(v)'
             PROVE  state'[on'[v]] = "pending"
  BY DEF HeldIsPending, InTransaction
<1> USE DEF IInv, InTransaction
<1>1. CASE Background
  BY <1>1 DEF Background, workerVars, HeldIsPending
<1>2. ASSUME NEW w \in Workers, Leaves(w) PROVE state'[on'[v]] = "pending"
  BY <1>2 DEF Leaves, HeldIsPending
<1>3. ASSUME NEW w \in Workers, TakeReceipt(w) PROVE state'[on'[v]] = "pending"
  BY <1>3 DEF TakeReceipt, StillPending, HeldIsPending, receiptVars, TypeOK, WorkerType
<1>4. ASSUME NEW w \in Workers, TakeLead(w) PROVE state'[on'[v]] = "pending"
  BY <1>4 DEF TakeLead, HeldIsPending, receiptVars, TypeOK, WorkerType
<1>5. ASSUME NEW w \in Workers, Settles(w) PROVE state'[on'[v]] = "pending"
  <2>1. v # w /\ pc[v] = pc'[v] /\ on'[v] = on[v]
    BY <1>5 DEF Settles, Commit, TypeOK, WorkerType
  <2>2. on[v] # on[w] /\ on[v] \in Events /\ on[w] \in Events
    BY <1>5, <2>1 DEF Settles, Serialized, HoldsReceipt, TypeOK, WorkerType
  <2> QED
    BY <1>5, <2>1, <2>2 DEF Settles, Commit, HeldIsPending, TypeOK, ReceiptType
<1>6. ASSUME NEW e \in Events, Outside(e) PROVE state'[on'[v]] = "pending"
  <2>1. HoldsReceipt(v, on[v]) /\ on[v] \in Events /\ state[on[v]] = "pending" /\ on'[v] = on[v]
    BY <1>6 DEF Outside, HoldsReceipt, HeldIsPending, TypeOK, WorkerType
  <2>2. on[v] # e
    BY <1>6, <2>1 DEF Outside, ReceiptLocked
  <2> QED
    BY <1>6, <2>1, <2>2 DEF Outside
<1> QED
  BY <1>1, <1>2, <1>3, <1>4, <1>5, <1>6, StepKinds

LEMMA SeenStep == IInv /\ [Next]_vars => SeenIsCurrent'
<1> SUFFICES ASSUME IInv, [Next]_vars, NEW v \in Workers, pc'[v] = "lead"
             PROVE  seen'[v] = lead'[LeadOf[on'[v]]]
  BY DEF SeenIsCurrent
<1> USE DEF IInv
<1>1. CASE Background
  BY <1>1 DEF Background, workerVars, leadVars, SeenIsCurrent
<1>2. ASSUME NEW w \in Workers, Leaves(w) PROVE seen'[v] = lead'[LeadOf[on'[v]]]
  BY <1>2 DEF Leaves, leadVars, SeenIsCurrent
<1>3. ASSUME NEW w \in Workers, TakeReceipt(w) PROVE seen'[v] = lead'[LeadOf[on'[v]]]
  BY <1>3 DEF TakeReceipt, leadVars, SeenIsCurrent, TypeOK, WorkerType
<1>4. ASSUME NEW w \in Workers, TakeLead(w) PROVE seen'[v] = lead'[LeadOf[on'[v]]]
  BY <1>4 DEF TakeLead, leadVars, SeenIsCurrent, TypeOK, WorkerType
<1>5. ASSUME NEW w \in Workers, Settles(w), UNCHANGED leadVars
      PROVE  seen'[v] = lead'[LeadOf[on'[v]]]
  BY <1>5 DEF Settles, Commit, leadVars, SeenIsCurrent, TypeOK, WorkerType
<1>6. ASSUME NEW w \in Workers, Apply(w) PROVE seen'[v] = lead'[LeadOf[on'[v]]]
  <2>1. v # w /\ pc[v] = "lead" /\ seen'[v] = seen[v] /\ on'[v] = on[v] /\ pc[w] = "lead"
    BY <1>6 DEF Apply, Commit, TypeOK, WorkerType
  <2>2. LeadOf[on[v]] # LeadOf[on[w]] /\ LeadOf[on[v]] \in Leads
    BY <2>1, PipelineAssumption DEF Serialized, TypeOK, WorkerType
  <2> QED
    BY <1>6, <2>1, <2>2 DEF Apply, SeenIsCurrent, TypeOK, LeadType
<1>7. ASSUME NEW e \in Events, Outside(e) PROVE seen'[v] = lead'[LeadOf[on'[v]]]
  BY <1>7 DEF Outside, leadVars, SeenIsCurrent
<1>8. ASSUME NEW w \in Workers, Settles(w) PROVE Apply(w) \/ UNCHANGED leadVars
  BY <1>8 DEF Settles
<1> QED
  BY <1>1, <1>2, <1>3, <1>4, <1>5, <1>6, <1>7, <1>8, StepKinds

-----------------------------------------------------------------------------
(* The retry budget and the dispatchers' bookkeeping. *)

LEMMA BudgetStep == IInv /\ [Next]_vars => Budget'
<1> SUFFICES ASSUME IInv, [Next]_vars PROVE Budget'
  OBVIOUS
<1> USE PipelineAssumption DEF IInv, Budget
<1>1. ASSUME UNCHANGED <<state, attempts>>, \A w \in Workers : snap'[w] \in {0, snap[w]}
      PROVE  Budget'
  BY <1>1 DEF TypeOK, WorkerType
<1>2. ASSUME NEW e \in Events, Accept(e) \/ Replay(e) PROVE Budget'
  BY <1>2 DEF Accept, Replay, TypeOK, ReceiptType, workerVars
<1>3. ASSUME NEW w \in Workers, Settles(w) PROVE Budget'
  BY <1>3 DEF Settles, Commit, TypeOK, ReceiptType, WorkerType
<1>4. ASSUME NEW w \in Workers, ReadCurrent(w) PROVE Budget'
  <2>1. on[w] \in Events
    BY <1>4 DEF ReadCurrent, TypeOK, WorkerType
  <2> QED
    BY <1>4, <2>1 DEF ReadCurrent, StillPending, TypeOK, WorkerType, receiptVars
<1>5. ASSUME NEW w \in Workers, WriteRetry(w) PROVE Budget'
  <2>1. on[w] \in Events /\ snap[w] \in 0 .. MaxAttempts
    BY <1>5 DEF WriteRetry, TypeOK, WorkerType
  <2> QED
    BY <1>5, <2>1 DEF WriteRetry, Exhausted, StillPending, TypeOK, ReceiptType, WorkerType,
       receiptVars
<1>6. ASSUME NEW w \in Workers,
             Finish(w) \/ Crash(w) \/ Fail(w) \/ LoseRetry(w) \/ TakeReceipt(w) \/ TakeLead(w)
             \/ \E e \in Events : Deliver(w, e)
      PROVE  Budget'
  <2>1. UNCHANGED <<state, attempts>>
    BY <1>6 DEF Finish, Crash, Fail, LoseRetry, TakeReceipt, TakeLead, Deliver, receiptVars
  <2>2. \A v \in Workers : snap'[v] \in {0, snap[v]}
    BY <1>6 DEF Finish, Crash, Idle, Fail, LoseRetry, TakeReceipt, TakeLead, Deliver, TypeOK,
       WorkerType
  <2> QED
    BY <1>1, <2>1, <2>2
<1>7. ASSUME Background PROVE Budget'
  BY <1>1, <1>7 DEF Background, workerVars
<1> QED
  BY <1>2, <1>3, <1>4, <1>5, <1>6, <1>7, StepOrigins, Commits

LEMMA DispatchOrigins ==
  ASSUME [Next]_vars
  PROVE  \/ UNCHANGED dispatchVars
         \/ /\ UNCHANGED workerVars
            /\ \E d \in Dispatchers :
                  \/ Dispatch(d) \/ Reconcile(d) \/ CommitBatch(d) \/ Abort(d)
                  \/ \E r \in batch[d] : Push(d, r) \/ Mark(d, r)
<1>1. ASSUME NEW w \in Workers, Process(w) \/ Fail(w) \/ LoseRetry(w) \/ Crash(w)
      PROVE  UNCHANGED dispatchVars
  BY <1>1 DEF Process, Deliver, TakeReceipt, Refuse, TakeLead, Ignore, Conflict, Apply, Commit,
     ReadCurrent, WriteRetry, Finish, Fail, LoseRetry, Crash
<1>2. ASSUME NEW e \in Events, Accept(e) \/ Queue(e) \/ Clock(e) \/ Lapse(e) \/ Evict(e) \/ Replay(e)
      PROVE  UNCHANGED dispatchVars
  BY <1>2 DEF Accept, Queue, Promote, Reclaim, Clock, GraceExpires, BackoffExpires, Lapse, Evict,
     Replay
<1>3. UNCHANGED vars \/ FlushRedis => UNCHANGED dispatchVars
  BY DEF vars, FlushRedis
<1>4. ASSUME NEW d \in Dispatchers, Tick(d) \/ Abort(d) PROVE UNCHANGED workerVars
  BY <1>4 DEF Tick, Dispatch, Reconcile, Select, Push, Mark, CommitBatch, Abort
<1> QED
  BY <1>1, <1>2, <1>3, <1>4 DEF Next, Tick, Trouble

LEMMA BatchStep == IInv /\ [Next]_vars => BatchInv'
<1> SUFFICES ASSUME IInv, [Next]_vars PROVE BatchInv'
  OBVIOUS
<1> USE DEF IInv, BatchInv
<1>1. CASE UNCHANGED dispatchVars
  BY <1>1 DEF dispatchVars
<1>2. ASSUME NEW d \in Dispatchers, Dispatch(d) PROVE BatchInv'
  <2>1. PICK rows \in Selections({r \in outbox : ~RowLocked(r)}) : Select(d, rows, {})
    BY <1>2 DEF Dispatch
  <2>2. \A e \in Events : <<"recover", e>> \notin rows
    BY DEF Selections, TypeOK, QueueType
  <2> QED
    BY <2>1, <2>2 DEF Select, TypeOK, DispatchType
<1>3. ASSUME NEW d \in Dispatchers, Reconcile(d) PROVE BatchInv'
  BY <1>3 DEF Reconcile, Select, TypeOK, DispatchType
<1>4. ASSUME NEW d \in Dispatchers, NEW r \in batch[d], Push(d, r) \/ Mark(d, r) PROVE BatchInv'
  BY <1>4 DEF Push, Mark, TypeOK, DispatchType
<1>5. ASSUME NEW d \in Dispatchers, CommitBatch(d) \/ Abort(d) PROVE BatchInv'
  BY <1>5 DEF CommitBatch, Abort, Release, TypeOK, DispatchType
<1> QED
  BY <1>1, <1>2, <1>3, <1>4, <1>5, DispatchOrigins

-----------------------------------------------------------------------------
(* Mutual exclusion. *)

\* The three parts of Serialized.
WorkersApart ==
    \A v, w \in Workers : v # w =>
        /\ \A e \in Events : ~(HoldsReceipt(v, e) /\ HoldsReceipt(w, e))
        /\ pc[v] = "lead" /\ pc[w] = "lead" => LeadOf[on[v]] # LeadOf[on[w]]

DispatchersApart ==
    \A c, d \in Dispatchers : c # d =>
        batch[c] \cap batch[d] = {} /\ touched[c] \cap touched[d] = {}

KindsApart == \A w \in Workers, d \in Dispatchers : \A e \in touched[d] : ~HoldsReceipt(w, e)

LEMMA SerializedParts == Serialized <=> WorkersApart /\ DispatchersApart /\ KindsApart
BY DEF Serialized, WorkersApart, DispatchersApart, KindsApart

LEMMA WorkersStep == IInv /\ [Next]_vars => WorkersApart'
<1> SUFFICES ASSUME IInv, [Next]_vars PROVE WorkersApart'
  OBVIOUS
<1>0. WorkersApart
  BY SerializedParts DEF IInv
<1> USE DEF IInv, WorkersApart, HoldsReceipt
<1>1. CASE Background
  BY <1>0, <1>1 DEF Background, workerVars
<1>2. ASSUME NEW w \in Workers, Leaves(w) PROVE WorkersApart'
  BY <1>0, <1>2 DEF Leaves
<1>3. ASSUME NEW w \in Workers, TakeReceipt(w) PROVE WorkersApart'
  BY <1>0, <1>3 DEF TakeReceipt, ReceiptLocked, TypeOK, WorkerType
<1>4. ASSUME NEW w \in Workers, TakeLead(w) PROVE WorkersApart'
  BY <1>0, <1>4 DEF TakeLead, LeadLocked, TypeOK, WorkerType
<1>5. ASSUME NEW w \in Workers, Settles(w) PROVE WorkersApart'
  BY <1>0, <1>5 DEF Settles, Commit, TypeOK, WorkerType
<1>6. ASSUME NEW e \in Events, Outside(e) PROVE WorkersApart'
  BY <1>0, <1>6 DEF Outside, InTransaction
<1> QED
  BY <1>1, <1>2, <1>3, <1>4, <1>5, <1>6, StepKinds

LEMMA DispatchersStep == IInv /\ [Next]_vars => DispatchersApart'
<1> SUFFICES ASSUME IInv, [Next]_vars PROVE DispatchersApart'
  OBVIOUS
<1>0. DispatchersApart
  BY SerializedParts DEF IInv
<1> USE DEF IInv, DispatchersApart
<1>1. CASE UNCHANGED dispatchVars
  BY <1>0, <1>1 DEF dispatchVars
<1>2. ASSUME NEW d \in Dispatchers, Dispatch(d) PROVE DispatchersApart'
  <2>1. PICK rows \in Selections({r \in outbox : ~RowLocked(r)}) : Select(d, rows, {})
    BY <1>2 DEF Dispatch
  <2>2. \A c \in Dispatchers : rows \cap batch[c] = {}
    BY DEF Selections, RowLocked
  <2> QED
    BY <1>0, <2>1, <2>2 DEF Select, TypeOK, DispatchType
<1>3. ASSUME NEW d \in Dispatchers, Reconcile(d) PROVE DispatchersApart'
  <2>1. PICK es \in Selections({e \in Events : Overdue(e) /\ ~ReceiptLocked(e)}) :
            Select(d, {"recover"} \X es, es)
    BY <1>3 DEF Reconcile
  <2>2. \A c \in Dispatchers : es \cap touched[c] = {}
    BY DEF Selections, ReceiptLocked
  <2>3. \A c \in Dispatchers : ({"recover"} \X es) \cap batch[c] = {}
    BY <2>2 DEF Selections, BatchInv
  <2> QED
    BY <1>0, <2>1, <2>2, <2>3 DEF Select, TypeOK, DispatchType
<1>4. ASSUME NEW d \in Dispatchers, NEW r \in batch[d], Push(d, r) \/ Mark(d, r)
      PROVE  DispatchersApart'
  BY <1>0, <1>4 DEF Push, Mark, ReceiptLocked, TypeOK, DispatchType
<1>5. ASSUME NEW d \in Dispatchers, CommitBatch(d) \/ Abort(d) PROVE DispatchersApart'
  BY <1>0, <1>5 DEF CommitBatch, Abort, Release, TypeOK, DispatchType
<1> QED
  BY <1>1, <1>2, <1>3, <1>4, <1>5, DispatchOrigins

LEMMA KindsStep == IInv /\ [Next]_vars => KindsApart'
<1> SUFFICES ASSUME IInv, [Next]_vars PROVE KindsApart'
  OBVIOUS
<1>0. KindsApart
  BY SerializedParts DEF IInv
<1> USE DEF IInv, KindsApart, HoldsReceipt
<1>1. CASE UNCHANGED dispatchVars
  <2> USE <1>1 DEF dispatchVars
  <2>1. CASE Background
    BY <1>0, <2>1 DEF Background, workerVars
  <2>2. ASSUME NEW w \in Workers, Leaves(w) PROVE KindsApart'
    BY <1>0, <2>2 DEF Leaves
  <2>3. ASSUME NEW w \in Workers, TakeReceipt(w) PROVE KindsApart'
    BY <1>0, <2>3 DEF TakeReceipt, ReceiptLocked, TypeOK, WorkerType
  <2>4. ASSUME NEW w \in Workers, TakeLead(w) PROVE KindsApart'
    BY <1>0, <2>4 DEF TakeLead, TypeOK, WorkerType
  <2>5. ASSUME NEW w \in Workers, Settles(w) PROVE KindsApart'
    BY <1>0, <2>5 DEF Settles, Commit, TypeOK, WorkerType
  <2>6. ASSUME NEW e \in Events, Outside(e) PROVE KindsApart'
    BY <1>0, <2>6 DEF Outside, InTransaction
  <2> QED
    BY <2>1, <2>2, <2>3, <2>4, <2>5, <2>6, StepKinds
<1>2. ASSUME NEW d \in Dispatchers, UNCHANGED workerVars, Dispatch(d) PROVE KindsApart'
  BY <1>0, <1>2 DEF Dispatch, Select, workerVars, TypeOK, DispatchType
<1>3. ASSUME NEW d \in Dispatchers, UNCHANGED workerVars, Reconcile(d) PROVE KindsApart'
  <2>1. PICK es \in Selections({e \in Events : Overdue(e) /\ ~ReceiptLocked(e)}) :
            Select(d, {"recover"} \X es, es)
    BY <1>3 DEF Reconcile
  <2>2. \A e \in es : ~ReceiptLocked(e)
    BY DEF Selections
  <2> QED
    BY <1>0, <1>3, <2>1, <2>2 DEF Select, ReceiptLocked, workerVars, TypeOK, DispatchType
<1>4. ASSUME NEW d \in Dispatchers, UNCHANGED workerVars,
             NEW r \in batch[d], Push(d, r) \/ Mark(d, r)
      PROVE  KindsApart'
  BY <1>0, <1>4 DEF Push, Mark, ReceiptLocked, workerVars, TypeOK, DispatchType
<1>5. ASSUME NEW d \in Dispatchers, UNCHANGED workerVars, CommitBatch(d) \/ Abort(d)
      PROVE  KindsApart'
  BY <1>0, <1>5 DEF CommitBatch, Abort, Release, workerVars, TypeOK, DispatchType
<1> QED
  BY <1>1, <1>2, <1>3, <1>4, <1>5, DispatchOrigins

-----------------------------------------------------------------------------
(* Decisions.  Seen from the receipts and the lead rows, a step does nothing *)
(* or one of seven things to one receipt.                                    *)

Keeps == UNCHANGED <<state, attempts, errorCode, leadVars>>

\* Only receipt e changes, from state s to state t.
Turns(e, s, t) ==
    /\ state[e] = s /\ state'[e] = t
    /\ \A f \in Events \ {e} :
           state'[f] = state[f] /\ attempts'[f] = attempts[f] /\ errorCode'[f] = errorCode[f]

Receives(e) ==
    Turns(e, "absent", "pending") /\ errorCode'[e] = errorCode[e] /\ UNCHANGED leadVars

Reopens(e) ==
    /\ Turns(e, "failed", "pending")
    /\ attempts'[e] = 0 /\ errorCode'[e] = "none" /\ lastEnqueued'[e] = "never"
    /\ UNCHANGED leadVars

Retries(e) ==
    Turns(e, "pending", "pending") /\ errorCode'[e] = "PROCESSING_RETRY" /\ UNCHANGED leadVars

GivesUp(e) ==
    /\ Turns(e, "pending", "failed")
    /\ errorCode'[e] # "SOURCE_VERSION_CONFLICT"
    /\ UNCHANGED leadVars

Clashes(e) ==
    /\ Turns(e, "pending", "failed")
    /\ VersionOf[e] = lead[LeadOf[e]].sourceVersion
    /\ DataOf[e] # lead[LeadOf[e]].data
    /\ UNCHANGED leadVars

Ignores(e) ==
    /\ Turns(e, "pending", "ignored")
    /\ Superseded(e, lead[LeadOf[e]])
    /\ errorCode'[e] = "none"
    /\ UNCHANGED leadVars

Applies(e) ==
    LET l == LeadOf[e] IN
    /\ Turns(e, "pending", "processed")
    /\ VersionOf[e] > lead[l].sourceVersion
    /\ errorCode'[e] = "none"
    /\ lead' = [lead EXCEPT ![l] = [sourceVersion |-> VersionOf[e], data |-> DataOf[e],
                                    version |-> lead[l].version + 1]]
    /\ activities' = [activities EXCEPT ![l] = IF DataOf[e] # lead[l].data THEN @ + 1 ELSE @]
    /\ created' = [created EXCEPT ![l] = IF lead[l].sourceVersion = 0 THEN @ + 1 ELSE @]
    /\ notices' = [notices EXCEPT ![e] = @ + 1]

Decides(e) == Retries(e) \/ GivesUp(e) \/ Clashes(e) \/ Ignores(e) \/ Applies(e)

LEMMA Decisions ==
  ASSUME IInv, [Next]_vars
  PROVE  Keeps \/ \E e \in Events : Receives(e) \/ Reopens(e) \/ Decides(e)
<1> USE DEF IInv
<1>1. Background => Keeps
  BY DEF Background, Keeps
<1>2. ASSUME NEW w \in Workers,
             \/ \E e \in Events : Deliver(w, e)
             \/ TakeReceipt(w) \/ TakeLead(w) \/ ReadCurrent(w)
             \/ Finish(w) \/ Fail(w) \/ LoseRetry(w) \/ Crash(w)
      PROVE  Keeps
  BY <1>2 DEF Deliver, TakeReceipt, TakeLead, ReadCurrent, Finish, Fail, LoseRetry, Crash, Keeps,
     receiptVars
<1>3. ASSUME NEW e \in Events, Accept(e) PROVE Receives(e)
  BY <1>3 DEF Accept, Receives, Turns, TypeOK, ReceiptType
<1>4. ASSUME NEW e \in Events, Replay(e) PROVE Reopens(e)
  BY <1>4 DEF Replay, Reopens, Turns, TypeOK, ReceiptType, QueueType
<1>5. ASSUME NEW w \in Workers, WriteRetry(w)
      PROVE  on[w] \in Events /\ (Keeps \/ Retries(on[w]) \/ GivesUp(on[w]))
  <2>1. on[w] \in Events
    BY <1>5 DEF WriteRetry, TypeOK, WorkerType
  <2>2. CASE StillPending(on[w])
    BY <1>5, <2>1, <2>2 DEF WriteRetry, StillPending, Retries, GivesUp, Turns, TypeOK, ReceiptType
  <2>3. CASE ~StillPending(on[w])
    BY <1>5, <2>1, <2>3 DEF WriteRetry, Keeps, receiptVars
  <2> QED
    BY <2>1, <2>2, <2>3
<1>6. ASSUME NEW w \in Workers, Refuse(w) \/ Ignore(w) \/ Conflict(w) \/ Apply(w)
      PROVE  on[w] \in Events /\ Decides(on[w])
  <2>1. on[w] \in Events /\ state[on[w]] = "pending"
    BY <1>6 DEF Refuse, Ignore, Conflict, Apply, TypeOK, WorkerType, HeldIsPending
  <2>2. ASSUME NEW s \in ReceiptStates, NEW c \in ErrorCodes, Commit(w, on[w], s, c)
        PROVE  Turns(on[w], "pending", s) /\ errorCode'[on[w]] = c
    BY <2>1, <2>2 DEF Commit, Turns, TypeOK, ReceiptType
  <2>3. CASE Refuse(w)
    <3>1. PICK c \in {"RETRY_EXHAUSTED", "INVALID_STORED_PAYLOAD"} : Commit(w, on[w], "failed", c)
      BY <2>3 DEF Refuse
    <3> QED
      BY <2>1, <2>2, <2>3, <3>1 DEF Refuse, Decides, GivesUp, ReceiptStates, ErrorCodes
  <2>4. pc[w] = "lead" => seen[w] = lead[LeadOf[on[w]]]
    BY DEF SeenIsCurrent
  <2>5. CASE Ignore(w)
    BY <2>1, <2>2, <2>4, <2>5 DEF Ignore, Decides, Ignores, ReceiptStates, ErrorCodes
  <2>6. CASE Conflict(w)
    BY <2>1, <2>2, <2>4, <2>6 DEF Conflict, Superseded, Decides, Clashes, ReceiptStates, ErrorCodes
  <2>7. CASE Apply(w)
    BY <2>1, <2>2, <2>4, <2>7 DEF Apply, Decides, Applies, ReceiptStates, ErrorCodes
  <2> QED
    BY <1>6, <2>1, <2>3, <2>5, <2>6, <2>7
<1> QED
  BY <1>1, <1>2, <1>3, <1>4, <1>5, <1>6, StepOrigins DEF Decides

-----------------------------------------------------------------------------
(* Effects.  Each decision preserves what the lead rows, the notices, the   *)
(* conflicts and the ledger say of the processed receipts.                  *)

LEMMA ProcessedStep ==
  ASSUME NEW e \in Events, Receives(e) \/ Reopens(e) \/ Retries(e) \/ GivesUp(e) \/ Clashes(e)
                           \/ Ignores(e),
         NEW l \in Leads
  PROVE  Processed(l)' = Processed(l)
BY DEF Receives, Reopens, Retries, GivesUp, Clashes, Ignores, Turns, Processed

LEMMA AppliedStep ==
  ASSUME NEW e \in Events, Applies(e), NEW l \in Leads
  PROVE  /\ e \notin Processed(l)
         /\ Processed(l)' = IF l = LeadOf[e] THEN Processed(l) \cup {e} ELSE Processed(l)
BY DEF Applies, Turns, Processed

LEMMA EffectsStep == IInv /\ [Next]_vars => EffectsOnce'
<1> SUFFICES ASSUME IInv, [Next]_vars PROVE EffectsOnce'
  OBVIOUS
<1> USE DEF IInv, EffectsOnce
<1>1. CASE Keeps
  BY <1>1 DEF Keeps, leadVars
<1>2. ASSUME NEW e \in Events, Receives(e) \/ Reopens(e) \/ Retries(e) \/ GivesUp(e) \/ Clashes(e)
                               \/ Ignores(e)
      PROVE  EffectsOnce'
  BY <1>2 DEF Receives, Reopens, Retries, GivesUp, Clashes, Ignores, Turns, leadVars
<1>3. ASSUME NEW e \in Events, Applies(e) PROVE EffectsOnce'
  BY <1>3 DEF Applies, Turns, TypeOK, LeadType
<1> QED
  BY <1>1, <1>2, <1>3, Decisions DEF Decides

LEMMA NewestStep == IInv /\ [Next]_vars => LeadIsNewest'
<1> SUFFICES ASSUME IInv, [Next]_vars PROVE LeadIsNewest'
  OBVIOUS
<1> USE PipelineAssumption DEF IInv, LeadIsNewest
<1>1. CASE Keeps
  BY <1>1 DEF Keeps, leadVars, Processed
<1>2. ASSUME NEW e \in Events, Receives(e) \/ Reopens(e) \/ Retries(e) \/ GivesUp(e) \/ Clashes(e)
      PROVE  LeadIsNewest'
  BY <1>2, ProcessedStep DEF Receives, Reopens, Retries, GivesUp, Clashes, Turns, leadVars
<1>3. ASSUME NEW e \in Events, Ignores(e) PROVE LeadIsNewest'
  <2>1. VersionOf[e] <= lead[LeadOf[e]].sourceVersion
    BY <1>3 DEF Ignores, Superseded, TypeOK, LeadType, LeadRow
  <2> QED
    BY <1>3, <2>1, ProcessedStep DEF Ignores, Turns, leadVars
<1>4. ASSUME NEW e \in Events, Applies(e), NEW l \in Leads PROVE LeadIsNewest!(l)'
  <2>1. VersionOf[e] \in Nat /\ lead[LeadOf[e]].sourceVersion \in Nat
    BY DEF TypeOK, LeadType, LeadRow
  <2>2. CASE l # LeadOf[e]
    <3>0. lead'[l] = lead[l]
      BY <1>4, <2>2 DEF Applies, TypeOK, LeadType
    <3>1. Processed(l)' = Processed(l)
      BY <1>4, <2>2, AppliedStep
    <3>2. \A f \in Events : LeadOf[f] = l => state'[f] = state[f]
      BY <1>4, <2>2 DEF Applies, Turns
    <3> QED
      BY <3>0, <3>1, <3>2
  <2>3. CASE l = LeadOf[e]
    <3>1. lead'[l].sourceVersion = VersionOf[e] /\ lead'[l].data = DataOf[e]
      BY <1>4, <2>3 DEF Applies, TypeOK, LeadType
    <3>2. e \in Processed(l)'
      BY <1>4, <2>3, AppliedStep
    <3>3. ASSUME NEW f \in Events, LeadOf[f] = l, state'[f] \in {"processed", "ignored"}
          PROVE  VersionOf[f] <= lead'[l].sourceVersion
      <4>1. VersionOf[f] \in Nat
        OBVIOUS
      <4>2. f # e => VersionOf[f] <= lead[l].sourceVersion
        BY <1>4, <3>3 DEF Applies, Turns
      <4> QED
        BY <1>4, <2>1, <2>3, <3>1, <4>1, <4>2 DEF Applies
    <3> QED
      BY <3>1, <3>2, <3>3
  <2> QED
    BY <2>2, <2>3
<1> QED
  BY <1>1, <1>2, <1>3, <1>4, Decisions DEF Decides

LEMMA RivalStep == IInv /\ [Next]_vars => ConflictHasRival'
<1> SUFFICES ASSUME IInv, [Next]_vars PROVE ConflictHasRival'
  OBVIOUS
<1> USE PipelineAssumption DEF IInv, ConflictHasRival
<1>1. CASE Keeps
  BY <1>1 DEF Keeps, Processed
<1>2. ASSUME NEW e \in Events, Receives(e) \/ Reopens(e) \/ Retries(e) \/ GivesUp(e) \/ Ignores(e)
      PROVE  ConflictHasRival'
  BY <1>2, ProcessedStep DEF Receives, Reopens, Retries, GivesUp, Ignores, Turns
<1>3. ASSUME NEW e \in Events, Clashes(e) PROVE ConflictHasRival'
  <2>1. lead[LeadOf[e]].sourceVersion > 0
    BY <1>3 DEF Clashes
  <2>2. PICK r \in Processed(LeadOf[e]) : VersionOf[r] = VersionOf[e] /\ DataOf[r] # DataOf[e]
    BY <1>3, <2>1 DEF Clashes, LeadIsNewest
  <2> QED
    BY <1>3, <2>2, ProcessedStep DEF Clashes, Turns
<1>4. ASSUME NEW e \in Events, Applies(e) PROVE ConflictHasRival'
  <2>1. ASSUME NEW l \in Leads PROVE Processed(l) \subseteq Processed(l)'
    BY <1>4, AppliedStep
  <2>2. \A f \in Events : errorCode'[f] = "SOURCE_VERSION_CONFLICT" => errorCode[f] = errorCode'[f]
    BY <1>4 DEF Applies, Turns
  <2> QED
    BY <2>1, <2>2
<1> QED
  BY <1>1, <1>2, <1>3, <1>4, Decisions DEF Decides

LEMMA LedgerStep == IInv /\ [Next]_vars => Ledger'
<1> SUFFICES ASSUME IInv, [Next]_vars, NEW l \in Leads
             PROVE  /\ LedgerMatchesLeads!(l)'
                    /\ lead'[l].sourceVersion = 0 => lead'[l].data = None
                    /\ IsFiniteSet(Processed(l)')
  BY DEF Ledger, LedgerMatchesLeads
<1> DEFINE Kept == Processed(l)' = Processed(l) /\ UNCHANGED leadVars
<1> USE PipelineAssumption DEF IInv, Ledger, LedgerMatchesLeads
<1>1. Keeps => Kept
  BY DEF Keeps, Processed
<1>2. ASSUME NEW e \in Events, Receives(e) \/ Reopens(e) \/ Retries(e) \/ GivesUp(e) \/ Clashes(e)
                               \/ Ignores(e)
      PROVE  Kept
  BY <1>2, ProcessedStep DEF Receives, Reopens, Retries, GivesUp, Clashes, Ignores
<1>3. CASE Kept
  <2>1. Cardinality(Processed(l)') = Cardinality(Processed(l)) /\ IsFiniteSet(Processed(l)')
    BY <1>3
  <2> QED
    BY <1>3, <2>1 DEF leadVars
<1>4. ASSUME NEW e \in Events, Applies(e), l # LeadOf[e]
      PROVE  Processed(l)' = Processed(l) /\ lead'[l] = lead[l] /\ activities'[l] = activities[l]
             /\ created'[l] = created[l]
  BY <1>4, AppliedStep DEF Applies, TypeOK, LeadType
<1>5. ASSUME NEW e \in Events, Applies(e), l = LeadOf[e]
      PROVE  /\ LedgerMatchesLeads!(l)'
             /\ lead'[l].sourceVersion > 0
             /\ IsFiniteSet(Processed(l)')
  <2>1. /\ lead[l].sourceVersion \in Nat /\ lead[l].version \in Nat /\ VersionOf[e] \in Nat
        /\ activities[l] \in Nat /\ created[l] \in Nat
    BY DEF TypeOK, LeadType, LeadRow
  <2>2. /\ lead'[l].sourceVersion = VersionOf[e] /\ lead'[l].version = lead[l].version + 1
        /\ activities'[l] = IF DataOf[e] # lead[l].data THEN activities[l] + 1 ELSE activities[l]
        /\ created'[l] = IF lead[l].sourceVersion = 0 THEN created[l] + 1 ELSE created[l]
    BY <1>5 DEF Applies, TypeOK, LeadType
  <2>3. VersionOf[e] > 0
    BY <2>1
  <2>4. /\ IsFiniteSet(Processed(l)')
        /\ Cardinality(Processed(l)') = Cardinality(Processed(l)) + 1
    BY <1>5, AppliedStep, FS_AddElement
  <2>5. CASE lead[l].sourceVersion = 0
    <3>1. Processed(l) = {}
      BY <2>5 DEF Processed, LeadIsNewest
    <3>2. lead[l].version = 0 /\ activities[l] = 0 /\ created[l] = 0
      BY <2>1, <2>5, <3>1, FS_EmptySet
    <3>3. DataOf[e] # lead[l].data
      BY <2>5
    <3> QED
      BY <2>2, <2>3, <2>4, <2>5, <3>2, <3>3
  <2>6. CASE lead[l].sourceVersion > 0
    BY <2>1, <2>2, <2>3, <2>4, <2>6
  <2> QED
    BY <2>1, <2>5, <2>6
<1> QED
  <2>1. CASE Kept
    BY <1>3, <2>1
  <2>2. ASSUME NEW e \in Events, Applies(e)
        PROVE  /\ LedgerMatchesLeads!(l)'
               /\ lead'[l].sourceVersion = 0 => lead'[l].data = None
               /\ IsFiniteSet(Processed(l)')
    BY <1>4, <1>5, <2>2
  <2> QED
    BY <1>1, <1>2, <2>1, <2>2, Decisions DEF Decides

-----------------------------------------------------------------------------
(* The results. *)

LEMMA Inductive == IInv /\ [Next]_vars => IInv'
BY TypeStep, BudgetStep, HeldStep, SeenStep, BatchStep, WorkersStep, DispatchersStep, KindsStep,
   SerializedParts, EffectsStep, NewestStep, RivalStep, LedgerStep
   DEF IInv, Serialized, WorkersApart, DispatchersApart, KindsApart

\* Every reachable state satisfies the inductive invariant: locks protect what
\* they are meant to, receipts keep an attempt while they can be attempted.
THEOREM Invariance == Spec => []IInv
<1>1. Init => IInv
  BY InitIInv
<1>2. IInv /\ [Next]_vars => IInv'
  BY Inductive
<1> QED
  BY <1>1, <1>2, PTL DEF Spec

\* Type correctness of rows, jobs, workers and dispatchers, attempt counts
\* never exceeding the budget included.
THEOREM TypeCorrect == Spec => []TypeOK
<1>1. IInv => TypeOK
  BY DEF IInv
<1> QED
  BY <1>1, Invariance, PTL

\* The business effects of a receipt happen exactly once, whatever is
\* delivered twice, retried, crashed or replayed.
THEOREM Effects == Spec => []EffectsOnce
<1>1. IInv => EffectsOnce
  BY DEF IInv
<1> QED
  BY <1>1, Invariance, PTL

\* The lead row is the newest processed snapshot, in every order of deliveries.
THEOREM Newest == Spec => []LeadIsNewest
<1>1. IInv => LeadIsNewest
  BY DEF IInv
<1> QED
  BY <1>1, Invariance, PTL

\* Audit rows, the dashboard total and row versions agree with the receipts.
THEOREM LedgerAgrees == Spec => []LedgerMatchesLeads
<1>1. IInv => LedgerMatchesLeads
  BY DEF IInv, Ledger
<1> QED
  BY <1>1, Invariance, PTL

\* A reported source-version conflict has a processed rival.
THEOREM Rivals == Spec => []ConflictHasRival
<1>1. IInv => ConflictHasRival
  BY DEF IInv
<1> QED
  BY <1>1, Invariance, PTL

\* A pending receipt has an attempt left.
THEOREM BudgetLeft == Spec => []PendingHasBudget
<1>1. IInv => PendingHasBudget
  BY DEF IInv, Budget, PendingHasBudget
<1> QED
  BY <1>1, Invariance, PTL

\* No receipt, lead or outbox row is in two transactions at once.
THEOREM MutualExclusion == Spec => []Serialized
<1>1. IInv => Serialized
  BY DEF IInv
<1> QED
  BY <1>1, Invariance, PTL

\* Settled receipts are final, but for an operator's replay of a failed one.
THEOREM Final == Spec => ReceiptSteps
<1> DEFINE A == \A e \in Events :
        /\ state[e] \in {"processed", "ignored"} =>
               UNCHANGED <<state[e], attempts[e], errorCode[e]>>
        /\ state[e] = "failed" /\ state'[e] # "failed" =>
               state'[e] = "pending" /\ attempts'[e] = 0 /\ lastEnqueued'[e] = "never"
        /\ state[e] # "absent" => state'[e] # "absent"
<1>1. IInv /\ [Next]_vars => A
  <2> SUFFICES ASSUME IInv, [Next]_vars PROVE A
    OBVIOUS
  <2>1. CASE Keeps
    BY <2>1 DEF Keeps
  <2>2. ASSUME NEW e \in Events, Receives(e) \/ Retries(e) \/ GivesUp(e) \/ Clashes(e) \/ Ignores(e)
                                 \/ Applies(e)
        PROVE  A
    BY <2>2 DEF Receives, Retries, GivesUp, Clashes, Ignores, Applies, Turns
  <2>3. ASSUME NEW e \in Events, Reopens(e) PROVE A
    BY <2>3 DEF Reopens, Turns
  <2> QED
    BY <2>1, <2>2, <2>3, Decisions DEF Decides
<1>2. Spec => []IInv /\ [][Next]_vars
  BY Invariance, PTL DEF Spec
<1>3. IInv /\ [Next]_vars => [A]_vars
  BY <1>1
<1> QED
  BY <1>2, <1>3, PTL DEF ReceiptSteps

\* Source versions only grow, and a snapshot never changes without its version.
THEOREM VersionsGrow == Spec => SourceVersionGrows
<1> DEFINE A == \A l \in Leads :
        \/ lead'[l] = lead[l]
        \/ lead'[l].sourceVersion > lead[l].sourceVersion
<1>1. IInv /\ [Next]_vars => A
  <2> SUFFICES ASSUME IInv, [Next]_vars, NEW l \in Leads
               PROVE  lead'[l] = lead[l] \/ lead'[l].sourceVersion > lead[l].sourceVersion
    OBVIOUS
  <2>1. CASE UNCHANGED leadVars
    BY <2>1 DEF leadVars
  <2>2. ASSUME NEW e \in Events, Applies(e)
        PROVE  lead'[l] = lead[l] \/ lead'[l].sourceVersion > lead[l].sourceVersion
    BY <2>2 DEF Applies, IInv, TypeOK, LeadType
  <2> QED
    BY <2>1, <2>2, Decisions DEF Keeps, Receives, Reopens, Decides, Retries, GivesUp, Clashes, Ignores
<1>2. Spec => []IInv /\ [][Next]_vars
  BY Invariance, PTL DEF Spec
<1>3. IInv /\ [Next]_vars => [A]_vars
  BY <1>1
<1> QED
  BY <1>2, <1>3, PTL DEF SourceVersionGrows

-----------------------------------------------------------------------------
(* Refinement. *)

Status == [e \in Events |-> StatusOf(state[e])]
NewestOf == [l \in Leads |-> [version |-> lead[l].sourceVersion, data |-> lead[l].data]]

LEMMA StatusTurns ==
  ASSUME NEW e \in Events, NEW s, NEW t, Turns(e, s, t)
  PROVE  Status[e] = StatusOf(s) /\ Status' = [Status EXCEPT ![e] = StatusOf(t)]
BY DEF Turns, Status

LEMMA DecisionsRefine ==
  ASSUME IInv, NEW e \in Events, Receives(e) \/ Reopens(e) \/ Decides(e)
  PROVE  \/ Promise!Receive(e) \/ Promise!Settle(e) \/ Promise!Reopen(e)
         \/ UNCHANGED Promise!vars
<1>1. UNCHANGED leadVars => UNCHANGED NewestOf
  BY DEF leadVars, NewestOf
<1> USE PipelineAssumption DEF Promise!Become
<1>2. CASE Receives(e)
  <2>1. Turns(e, "absent", "pending") /\ UNCHANGED NewestOf
    BY <1>1, <1>2 DEF Receives
  <2>2. Status[e] = "unknown" /\ Status' = [Status EXCEPT ![e] = "accepted"]
    BY <2>1, StatusTurns DEF StatusOf
  <2>3. Promise!Receive(e)
    BY <2>1, <2>2 DEF Promise!Receive, Status, NewestOf
  <2> QED
    BY <2>3
<1>3. CASE Reopens(e)
  <2>1. Turns(e, "failed", "pending") /\ UNCHANGED NewestOf
    BY <1>1, <1>3 DEF Reopens
  <2>2. Status[e] = "refused" /\ Status' = [Status EXCEPT ![e] = "accepted"]
    BY <2>1, StatusTurns DEF StatusOf
  <2>3. Promise!Reopen(e)
    BY <2>1, <2>2 DEF Promise!Reopen, Status, NewestOf
  <2> QED
    BY <2>3
<1>4. CASE Retries(e)
  <2>1. Turns(e, "pending", "pending") /\ UNCHANGED NewestOf
    BY <1>1, <1>4 DEF Retries
  <2>2. UNCHANGED Promise!vars
    BY <2>1 DEF Turns, Promise!vars, NewestOf
  <2> QED
    BY <2>2
<1>5. CASE GivesUp(e) \/ Clashes(e)
  <2>1. Turns(e, "pending", "failed") /\ UNCHANGED NewestOf
    BY <1>1, <1>5 DEF GivesUp, Clashes
  <2>2. Status[e] = "accepted" /\ Status' = [Status EXCEPT ![e] = "refused"]
    BY <2>1, StatusTurns DEF StatusOf
  <2>3. Promise!Refuse(e)
    BY <2>1, <2>2 DEF Promise!Refuse, Status, NewestOf
  <2> QED
    BY <2>3 DEF Promise!Settle
<1>6. CASE Ignores(e)
  <2>1. Turns(e, "pending", "ignored") /\ UNCHANGED NewestOf
    BY <1>1, <1>6 DEF Ignores
  <2>2. Status[e] = "accepted" /\ Status' = [Status EXCEPT ![e] = "superseded"]
    BY <2>1, StatusTurns DEF StatusOf
  <2>3. Promise!Supersede(e)
    BY <1>6, <2>1, <2>2 DEF Promise!Supersede, Ignores, Superseded, Status, NewestOf
  <2> QED
    BY <2>3 DEF Promise!Settle
<1>7. CASE Applies(e)
  <2>1. Turns(e, "pending", "processed")
    BY <1>7 DEF Applies
  <2>2. NewestOf' = [NewestOf EXCEPT ![LeadOf[e]] = [version |-> VersionOf[e], data |-> DataOf[e]]]
    BY <1>7 DEF Applies, NewestOf, IInv, TypeOK, LeadType
  <2>3. VersionOf[e] > NewestOf[LeadOf[e]].version
    BY <1>7 DEF Applies, NewestOf
  <2>4. Status[e] = "accepted" /\ Status' = [Status EXCEPT ![e] = "applied"]
    BY <2>1, StatusTurns DEF StatusOf
  <2>5. Promise!Apply(e)
    BY <2>1, <2>2, <2>3, <2>4 DEF Promise!Apply, Status, NewestOf
  <2> QED
    BY <2>5 DEF Promise!Settle
<1> QED
  BY <1>2, <1>3, <1>4, <1>5, <1>6, <1>7 DEF Decides

\* The pipeline implements the abstract Inbox: each of its steps is one
\* decision about one event, or invisible.
THEOREM Refinement == Spec => ImplementsInbox
<1>1. Init => Promise!Init
  BY DEF Init, Promise!Init, StatusOf, NoLead
<1>2. IInv /\ [Next]_vars => [Promise!Next]_(Promise!vars)
  <2> SUFFICES ASSUME IInv, [Next]_vars PROVE [Promise!Next]_(Promise!vars)
    OBVIOUS
  <2>1. CASE Keeps
    BY <2>1 DEF Keeps, leadVars, Promise!vars
  <2>2. ASSUME NEW e \in Events, Receives(e) \/ Reopens(e) \/ Decides(e)
        PROVE  [Promise!Next]_(Promise!vars)
    BY <2>2, DecisionsRefine DEF Promise!Next
  <2> QED
    BY <2>1, <2>2, Decisions
<1> QED
  BY <1>1, <1>2, Invariance, PTL DEF Spec, ImplementsInbox, Promise!Spec
=============================================================================
