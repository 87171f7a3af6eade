--------------------------- MODULE MCLeadPipeline ---------------------------
(***************************************************************************)
(* Small instances of LeadPipeline: four receipts of one lead, of which a  *)
(* behaviour accepts two.  first and rival claim version 1 with different  *)
(* snapshots, newer brings version 2, and the stored payload of garbled    *)
(* is invalid.                                                             *)
(***************************************************************************)
EXTENDS LeadPipeline, TLC

CONSTANTS first, rival, newer, garbled, l1, a, b

Receipts == {first, rival, newer, garbled}
TheLead == [e \in Events |-> l1]
Versions == [e \in Events |-> IF e = newer THEN 2 ELSE 1]
Snapshots == [e \in Events |-> IF e = first THEN a ELSE b]

\* Bounds: the receipts of one behaviour; with two of them, one fault, and either workers
\* or one dispatcher at work at a time.
Accepted == {e \in Events : state[e] # "absent"}
Both == Cardinality(Accepted) = 2
Working == {w \in Workers : pc[w] # "idle"}
Ticking == {d \in Dispatchers : batch[d] # {}}
AtWork == Cardinality(Working) + Cardinality(Ticking)

MayAccept(e) ==
    /\ Accepted \cup {e} \in SUBSET {first, rival} \cup SUBSET {first, newer} \cup {{garbled}}
    /\ Working = {} \/ Ticking = {}
    /\ Cardinality(Ticking) <= 1
MayDeliver == Both => Ticking = {}
MayTick == Both => AtWork = 0
MayFail == Both => faults = 0
OneFault == Both => faults <= 1

BoundedNext ==
    \/ \E e \in Events : (MayAccept(e) /\ Accept(e)) \/ Queue(e) \/ Clock(e) \/ Evict(e)
    \/ \E w \in Workers :
        \/ \E e \in Events : MayDeliver /\ Deliver(w, e)
        \/ TakeReceipt(w) \/ Refuse(w) \/ TakeLead(w)
        \/ Ignore(w) \/ Conflict(w) \/ Apply(w)
        \/ ReadCurrent(w) \/ WriteRetry(w) \/ LoseRetry(w) \/ Finish(w)
    \/ \E d \in Dispatchers :
        \/ MayTick /\ (Dispatch(d) \/ Reconcile(d))
        \/ \E r \in batch[d] : Push(d, r) \/ Mark(d, r)
        \/ CommitBatch(d)
    \/ MayFail /\ Trouble

BoundedSpec == Init /\ [][BoundedNext]_vars

ProcessSymmetry == Permutations(Workers) \cup Permutations(Dispatchers)
=============================================================================
