--------------------------- MODULE MCRetryBudget ----------------------------
(* One receipt, two workers. *)
EXTENDS RetryBudget, TLC

CONSTANTS e1, l1, a

OneLead == e1 :> l1
OneVersion == e1 :> 1
OneData == e1 :> a
=============================================================================
