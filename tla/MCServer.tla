------------------------------ MODULE MCServer ------------------------------
(***************************************************************************)
(* An API process around its business: its start on a database with a      *)
(* history, its admission and shutdown, and the streams it serves.  The    *)
(* three models share no state, so that a run of one with the others at    *)
(* rest shows what any interleaving would: part says which one moves.      *)
(***************************************************************************)
EXTENDS DashboardStream, Admission, MCMigrationHistory

CONSTANTS r1, r2, s1

\* Admission: two ordinary requests and a stream, for one slot.
ThreeRequests == {r1, r2, s1}
OneStream == {s1}

\* Migrations: on an empty database as well as on what old versions have left.
AllHistories == OldHistories \cup {{}}

VARIABLE part

serverVars == <<part, vars, admissionVars, migrationVars>>

ServerInit ==
    /\ part \in {"streams", "admission", "migration"}
    /\ Init /\ AdmissionInit /\ MigrationInit
    /\ part # "migration" => history = {}

\* Bound: a client leaves, or there is a fault, but not both.
OneMishap == gone = {} \/ faults = 0

ServerNext ==
    \/ part = "streams" /\ Next /\ OneMishap' /\ UNCHANGED <<part, admissionVars, migrationVars>>
    \/ part = "admission" /\ AdmissionNext /\ UNCHANGED <<part, vars, migrationVars>>
    \/ part = "migration" /\ MigrationNext /\ UNCHANGED <<part, vars, admissionVars>>

ServerSpec == ServerInit /\ [][ServerNext]_serverVars

\* Fairness of the streams where they move; admission takes its fair steps only where
\* it moves too, since nothing has begun in the other behaviours.
ServerFairSpec ==
    /\ ServerSpec
    /\ WF_vars(part = "streams" /\ Tick)
    /\ WF_vars(part = "streams" /\ TakeSnapshot)
    /\ WF_vars(part = "streams" /\ Resolve) /\ WF_vars(part = "streams" /\ Grow)
    /\ \A c \in Streams : WF_vars(part = "streams" /\ Begin(c)) /\ WF_vars(part = "streams" /\ Beat(c))
    /\ AdmissionFairness
=============================================================================
