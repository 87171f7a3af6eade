------------------------------- MODULE Inbox -------------------------------
(***************************************************************************)
(* What the asynchronous intake promises to the sender of an event and to  *)
(* the reader of a lead, with no queue, worker, lock or retry in sight: an *)
(* accepted event is settled by one indivisible decision against the       *)
(* newest snapshot of its lead, and a refused one may be offered again.    *)
(***************************************************************************)
EXTENDS Naturals

CONSTANTS Events, Leads, LeadOf, VersionOf, DataOf

VARIABLES
    status,     \* of each event: unknown, accepted, applied, superseded, refused
    newest      \* of each lead: the version and snapshot last applied

vars == <<status, newest>>

Init ==
    /\ status = [e \in Events |-> "unknown"]
    /\ \A l \in Leads : newest[l].version = 0

Become(e, s) == status' = [status EXCEPT ![e] = s]

Receive(e) == status[e] = "unknown" /\ Become(e, "accepted") /\ UNCHANGED newest

Apply(e) ==
    /\ status[e] = "accepted"
    /\ VersionOf[e] > newest[LeadOf[e]].version
    /\ newest' = [newest EXCEPT ![LeadOf[e]] =
                    [version |-> VersionOf[e], data |-> DataOf[e]]]
    /\ Become(e, "applied")

\* An older version, or a repetition of the newest one.
Supersede(e) ==
    LET n == newest[LeadOf[e]] IN
    /\ status[e] = "accepted"
    /\ \/ VersionOf[e] < n.version
       \/ VersionOf[e] = n.version /\ DataOf[e] = n.data
    /\ Become(e, "superseded")
    /\ UNCHANGED newest

Refuse(e) == status[e] = "accepted" /\ Become(e, "refused") /\ UNCHANGED newest

Reopen(e) == status[e] = "refused" /\ Become(e, "accepted") /\ UNCHANGED newest

Settle(e) == Apply(e) \/ Supersede(e) \/ Refuse(e)

Next == \E e \in Events : Receive(e) \/ Settle(e) \/ Reopen(e)

Spec == Init /\ [][Next]_vars

=============================================================================
