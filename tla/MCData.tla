------------------------------- MODULE MCData -------------------------------
(***************************************************************************)
(* How rows are written and read: the transactions on a small catalogue    *)
(* (one seeded status and room for two more, two shards), and a list that  *)
(* a client reads by pages while its rows change.  The models share no     *)
(* state, so that a run of one with the other at rest shows what any       *)
(* interleaving would: part says which one moves.                          *)
(***************************************************************************)
EXTENDS Catalog, Pagination, TLC

ThreeStatuses == 1 .. 3
TwoLeads == {1, 2}
TwoShards == {0, 1}
Split == [e \in Entities |-> e[2] % 2]
FirstOne == <<1>>
FewPositions == {0}

\* Bound: three transactions at a time, or a fourth one beside one other.
ReceiveFew(t) ==
    /\ requests < 3 \/ Cardinality({u \in Txns : Busy(u)}) < 2
    /\ Receive(t)

Transactions ==
    \E t \in Txns :
        \/ ReceiveFew(t) \/ Acquire(t) \/ Rollback(t)
        \/ CommitAssign(t) \/ CommitNewLead(t) \/ CommitContact(t)
        \/ CommitCreate(t) \/ CommitUpdate(t) \/ CommitArchive(t)
        \/ CommitReorder(t) \/ CommitRebuild(t)

\* Lists of three rows, in every sort order. Names are any, so that a falling list of
\* names mirrors a rising one; time stands still for it, whose rows move as they like.
ThreeRows == 1 .. 3
AllSorts == {"CREATED_AT", "UPDATED_AT", "NAME"}

VARIABLE part

DataInit ==
    /\ part \in {"catalog", "list"}
    /\ Init /\ PagingInit
    /\ part = "catalog" => list.sort = "NAME"
    /\ list.sort = "NAME" => list.asc

DataNext ==
    \/ part = "catalog" /\ Transactions /\ UNCHANGED <<part, pagingVars>>
    \/ /\ part = "list" /\ PagingNext /\ UNCHANGED <<part, vars>>
       /\ list.sort = "NAME" => now' = 0

DataSpec == DataInit /\ [][DataNext]_<<part, vars, pagingVars>>

Symmetry == Permutations(Txns)
=============================================================================
