---------------------------- MODULE RetryBudget -----------------------------
(***************************************************************************)
(* LeadPipeline with a history variable: how many of a receipt's           *)
(* transactions have failed since it was accepted, or since an operator    *)
(* last replayed it.                                                       *)
(***************************************************************************)
EXTENDS LeadPipeline

VARIABLE tries

budgetVars == <<vars, tries>>

BudgetInit == Init /\ tries = [e \in Events |-> 0]

Count(e) == tries' = [tries EXCEPT ![e] = @ + 1]

BudgetNext ==
    \/ \E w \in Workers : Fail(w) /\ Count(on[w])
    \/ \E e \in Events : Replay(e) /\ tries' = [tries EXCEPT ![e] = 0]
    \/ /\ Next
       /\ ~ \E w \in Workers : Fail(w)
       /\ ~ \E e \in Events : Replay(e)
       /\ UNCHANGED tries

BudgetSpec == BudgetInit /\ [][BudgetNext]_budgetVars

\* "Retry budget exhausted; operator replay required" is written on a receipt
\* only after the whole budget of attempts has failed.
ExhaustedMeansSpent ==
    \A e \in Events : errorCode[e] = "RETRY_EXHAUSTED" => tries[e] >= MaxAttempts
=============================================================================
