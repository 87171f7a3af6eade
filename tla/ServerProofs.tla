---------------------------- MODULE ServerProofs ----------------------------
(***************************************************************************)
(* A server process for every size: the in-flight count and the shutdown   *)
(* of Admission, for every set of requests and streams and every limit,    *)
(* and the start of MigrationHistory, for every set of processes and every *)
(* history of the old versions.                                            *)
(***************************************************************************)
EXTENDS Admission, MigrationHistory, FiniteSetTheorems, TLAPS

-----------------------------------------------------------------------------
(* Admission. *)

\* The flag of the closure says whether the response is still open.
FlagIsOpen == \A r \in Requests : request[r].released <=> ~Open(r)

OpenSet == {r \in Requests : Open(r)}

\* What stop() has waited for stays away, and the phases follow it.
Drained ==
    /\ phase = "up" => stopping = "no"
    /\ phase \in {"closing", "closed"} => stopping = "done"
    /\ stopping \in {"worker", "done"} => ~cycle
    /\ stopping = "done" => ~job

Left == phase = "closed" => \A r \in Requests : Working(r) => request[r].gone

IInv == AdmissionTypeOK /\ FlagIsOpen /\ CountIsExact /\ Drained /\ Left

Records == [at : {"idle", "limiting", "running", "sending", "sent"},
            gone : BOOLEAN, released : BOOLEAN]

LEMMA InitIInv == AdmissionInit => IInv
<1> SUFFICES ASSUME AdmissionInit PROVE IInv
  OBVIOUS
<1> USE AdmissionAssumption DEF AdmissionAssumption, AdmissionInit
<1>1. OpenSet = {} /\ FlagIsOpen
  BY DEF OpenSet, FlagIsOpen, Open, Fresh
<1>2. CountIsExact
  BY <1>1, FS_EmptySet DEF CountIsExact, OpenSet
<1>3. AdmissionTypeOK
  <2>1. 0 \in 0 .. MaxInflight
    OBVIOUS
  <2>2. request \in [Requests -> Records]
    BY DEF Records, Fresh
  <2> QED
    BY <2>1, <2>2 DEF AdmissionTypeOK, Records
<1> QED
  BY <1>1, <1>2, <1>3 DEF IInv, Drained, Left

-----------------------------------------------------------------------------
(* The count. *)

LEMMA OpenIsFinite ==
  ASSUME CountIsExact
  PROVE  IsFiniteSet(OpenSet) /\ inflight = Cardinality(OpenSet) /\ inflight \in Nat
<1>1. IsFiniteSet(OpenSet)
  BY FS_Subset, AdmissionAssumption DEF AdmissionAssumption, OpenSet
<1> QED
  BY <1>1, FS_CardinalityType DEF CountIsExact, OpenSet

\* A request changes; the count must follow what that makes of its response.
LEMMA OneRequest ==
  ASSUME IInv, NEW r \in Requests, NEW new \in Records,
         request' = [request EXCEPT ![r] = new],
         new.released <=> ~Open(r)',
         inflight' = inflight + (IF Open(r)' THEN 1 ELSE 0) - (IF Open(r) THEN 1 ELSE 0)
  PROVE  FlagIsOpen' /\ CountIsExact' /\ inflight' \in Nat
<1>1. /\ request'[r] = new /\ \A q \in Requests \ {r} : request'[q] = request[q]
  BY DEF IInv, AdmissionTypeOK
<1>2. \A q \in Requests \ {r} : Open(q)' <=> Open(q)
  BY <1>1 DEF Open
<1>3. FlagIsOpen'
  BY <1>1, <1>2 DEF IInv, FlagIsOpen
<1>4. IsFiniteSet(OpenSet) /\ inflight = Cardinality(OpenSet) /\ inflight \in Nat
  BY OpenIsFinite DEF IInv
<1>5. CASE Open(r) <=> Open(r)'
  <2>1. OpenSet' = OpenSet
    BY <1>2, <1>5 DEF OpenSet
  <2>2. inflight' = inflight
    BY <1>4, <1>5
  <2>3. inflight' = Cardinality(OpenSet')
    BY <1>4, <2>1, <2>2
  <2> QED
    BY <1>3, <1>4, <2>2, <2>3 DEF CountIsExact, OpenSet
<1>6. CASE Open(r)' /\ ~Open(r)
  <2>1. OpenSet' = OpenSet \cup {r} /\ r \notin OpenSet
    BY <1>2, <1>6 DEF OpenSet
  <2>2. Cardinality(OpenSet') = Cardinality(OpenSet) + 1
    BY <1>4, <2>1, FS_AddElement
  <2>3. inflight' = inflight + 1
    BY <1>4, <1>6
  <2>4. inflight' = Cardinality(OpenSet') /\ inflight' \in Nat
    BY <1>4, <2>2, <2>3
  <2> QED
    BY <1>3, <2>4 DEF CountIsExact, OpenSet
<1>7. CASE Open(r) /\ ~Open(r)'
  <2>1. OpenSet' = OpenSet \ {r} /\ r \in OpenSet
    BY <1>2, <1>7 DEF OpenSet
  <2>2. Cardinality(OpenSet') = Cardinality(OpenSet) - 1 /\ IsFiniteSet(OpenSet')
    BY <1>4, <2>1, FS_RemoveElement
  <2>3. inflight' = inflight - 1
    BY <1>4, <1>7
  <2>4. inflight' = Cardinality(OpenSet') /\ inflight' \in Nat
    BY <1>4, <2>2, <2>3, FS_CardinalityType
  <2> QED
    BY <1>3, <2>4 DEF CountIsExact, OpenSet
<1> QED
  BY <1>5, <1>6, <1>7

-----------------------------------------------------------------------------
(* The steps of a request. *)

processVars == <<phase, stopping, cycle, job>>

\* A step of one request keeps IInv if the count follows it and stays in its bounds.
LEMMA RequestKeeps ==
  ASSUME IInv, NEW r \in Requests, NEW new \in Records, phase # "closed",
         request' = [request EXCEPT ![r] = new], UNCHANGED processVars,
         new.released <=> ~Open(r)',
         inflight' = inflight + (IF Open(r)' THEN 1 ELSE 0) - (IF Open(r) THEN 1 ELSE 0),
         inflight' \in Nat => inflight' <= MaxInflight
  PROVE  IInv'
<1>1. FlagIsOpen' /\ CountIsExact' /\ inflight' \in Nat
  BY OneRequest
<1>2. inflight' \in 0 .. MaxInflight
  BY <1>1, AdmissionAssumption DEF AdmissionAssumption
<1>3. AdmissionTypeOK'
  BY <1>2 DEF IInv, AdmissionTypeOK, Records, processVars
<1>4. Drained' /\ Left'
  BY DEF IInv, Drained, Left, processVars
<1> QED
  BY <1>1, <1>3, <1>4 DEF IInv

LEMMA ServingIsOpen ==
  ASSUME Serving
  PROVE  phase # "closed"
BY DEF Serving

\* What a request's record becomes says whether its response is open.
LEMMA OpenNext ==
  ASSUME IInv, NEW r \in Requests, NEW new, request' = [request EXCEPT ![r] = new]
  PROVE  /\ Open(r)' <=> (r \notin StreamRequests /\ new.at \in {"limiting", "running", "sending"} /\ ~new.gone)
         /\ request[r] \in Records
         /\ request[r].released <=> ~Open(r)
         /\ inflight \in Nat /\ inflight <= MaxInflight
BY AdmissionAssumption DEF AdmissionAssumption, IInv, AdmissionTypeOK, FlagIsOpen, Open, Records

LEMMA AdmitKeeps ==
  ASSUME IInv, NEW r \in Requests, Admit(r)
  PROVE  IInv'
<1>1. phase # "closed" /\ request[r].at = "idle" /\ UNCHANGED processVars /\ ~Open(r)
  BY DEF Admit, processVars, Open
<1>2. CASE r \in StreamRequests
  <2> DEFINE new == [Fresh EXCEPT !.at = "limiting"]
  <2>1. request' = [request EXCEPT ![r] = new] /\ inflight' = inflight
    BY <1>2 DEF Admit
  <2>2. new \in Records /\ new.released
    BY DEF Fresh, Records
  <2>3. ~Open(r)' /\ inflight \in Nat /\ inflight <= MaxInflight
    BY <1>2, <2>1, OpenNext
  <2>4. inflight' = inflight + 0 - 0
    BY <2>1, <2>3
  <2> QED
    BY <1>1, <2>1, <2>2, <2>3, <2>4, RequestKeeps
<1>3. CASE r \notin StreamRequests
  <2> DEFINE new == [at |-> "limiting", gone |-> FALSE, released |-> FALSE]
  <2>1. request' = [request EXCEPT ![r] = new] /\ inflight' = inflight + 1 /\ ~(inflight >= MaxInflight)
    BY <1>3 DEF Admit, Busy
  <2>2. new \in Records /\ ~new.released
    BY DEF Records
  <2>3. Open(r)' /\ inflight \in Nat
    BY <1>3, <2>1, OpenNext
  <2>4. inflight' = inflight + 1 - 0 /\ inflight' <= MaxInflight
    BY <2>1, <2>3, AdmissionAssumption DEF AdmissionAssumption
  <2> QED
    BY <1>1, <2>1, <2>2, <2>3, <2>4, RequestKeeps
<1> QED
  BY <1>2, <1>3

\* Release, for a request that is closed or done with: exactly an open one gives back.
LEMMA ReleaseKeeps ==
  ASSUME IInv, NEW r \in Requests, NEW new \in Records, phase # "closed",
         request' = [request EXCEPT ![r] = new], UNCHANGED processVars,
         new.released, new.gone \/ new.at \in {"idle", "sent"},
         Release(r)
  PROVE  IInv'
<1>1. ~Open(r)' /\ (request[r].released <=> ~Open(r)) /\ inflight \in Nat /\ inflight <= MaxInflight
  BY OpenNext
<1>2. inflight' = inflight + 0 - (IF Open(r) THEN 1 ELSE 0) /\ (inflight' \in Nat => inflight' <= MaxInflight)
  BY <1>1, AdmissionAssumption DEF Release, AdmissionAssumption
<1> QED
  BY <1>1, <1>2, RequestKeeps

\* A step that leaves the response as open as it was.
LEMMA SameOpenKeeps ==
  ASSUME IInv, NEW r \in Requests, NEW new \in Records, phase # "closed",
         request' = [request EXCEPT ![r] = new], UNCHANGED <<inflight, processVars>>,
         new.released = request[r].released, Open(r)' <=> Open(r)
  PROVE  IInv'
<1>1. (request[r].released <=> ~Open(r)) /\ inflight \in Nat /\ inflight <= MaxInflight
  BY OpenNext
<1>2. inflight' = inflight + (IF Open(r)' THEN 1 ELSE 0) - (IF Open(r) THEN 1 ELSE 0)
  BY <1>1
<1> QED
  BY <1>1, <1>2, RequestKeeps

LEMMA ServeKeeps ==
  ASSUME IInv, NEW r \in Requests, Serve(r)
  PROVE  IInv'
<1>1. request[r] \in Records /\ (request[r].released <=> ~Open(r))
  BY OpenNext DEF IInv, AdmissionTypeOK, FlagIsOpen, Records
<1>2. ASSUME NEW stage \in {"running", "sending"}, Set(r, stage), UNCHANGED <<inflight, processVars>>,
             request[r].at \in {"limiting", "running"}, Serving
      PROVE  IInv'
  <2> DEFINE new == [request[r] EXCEPT !.at = stage]
  <2>1. request' = [request EXCEPT ![r] = new]
    BY <1>2 DEF Set
  <2>2. new \in Records /\ new.released = request[r].released /\ new.gone = request[r].gone /\ new.at = stage
    BY <1>1 DEF Records
  <2>3. Open(r)' <=> Open(r)
    BY <1>2, <2>1, <2>2, OpenNext DEF Open
  <2> QED
    BY <1>2, <2>1, <2>2, <2>3, SameOpenKeeps, ServingIsOpen
<1>3. CASE Limited(r)
  BY <1>2, <1>3 DEF Limited, processVars
<1>4. CASE Respond(r)
  BY <1>2, <1>4 DEF Respond, processVars
<1>5. CASE Finish(r)
  <2> DEFINE new == IF request[r].gone THEN Fresh
                    ELSE [request[r] EXCEPT !.at = "sent", !.released = TRUE]
  <2>1. request' = [request EXCEPT ![r] = new] /\ Release(r) /\ UNCHANGED processVars
    BY <1>5 DEF Finish, processVars
  <2>2. new \in Records /\ new.released /\ new.at \in {"idle", "sent"}
    BY <1>1 DEF Records, Fresh
  <2>3. Serving
    BY <1>5 DEF Finish
  <2> QED
    BY <2>1, <2>2, <2>3, ReleaseKeeps, ServingIsOpen
<1>6. CASE Discard(r)
  <2>1. /\ request' = [request EXCEPT ![r] = Fresh] /\ UNCHANGED <<inflight, processVars>>
        /\ Serving /\ request[r].gone
    BY <1>6 DEF Discard, processVars
  <2>2. Fresh \in Records /\ Fresh.released /\ Fresh.at = "idle" /\ ~Open(r)
    BY <2>1 DEF Records, Fresh, Open
  <2>3. ~Open(r)'
    BY <2>1, <2>2, OpenNext
  <2> QED
    BY <1>1, <2>1, <2>2, <2>3, SameOpenKeeps, ServingIsOpen
<1> QED
  BY <1>3, <1>4, <1>5, <1>6 DEF Serve

LEMMA CloseKeeps ==
  ASSUME IInv, NEW r \in Requests, Disconnect(r)
  PROVE  IInv'
<1> DEFINE new == IF request[r].at = "sent" THEN Fresh
                  ELSE [request[r] EXCEPT !.gone = TRUE, !.released = TRUE]
<1>1. request[r] \in Records
  BY DEF IInv, AdmissionTypeOK, Records
<1>2. request' = [request EXCEPT ![r] = new] /\ Release(r) /\ UNCHANGED processVars
  BY DEF Disconnect, OnClose, processVars
<1>3. new \in Records /\ new.released /\ (new.gone \/ new.at \in {"idle", "sent"})
  BY <1>1 DEF Records, Fresh
<1>4. phase # "closed"
  BY DEF Disconnect, Serving
<1> QED
  BY <1>2, <1>3, <1>4, ReleaseKeeps

-----------------------------------------------------------------------------
(* The steps of the process. *)

JobSteps == StartCycle \/ EndCycle \/ StartJob \/ EndJob \/ CycleDrained \/ WorkerClosed
EndSteps == Signal \/ HooksDone \/ ServerClosed \/ End \/ Deadline

LEMMA ProcessKeeps ==
  ASSUME IInv, JobSteps \/ EndSteps
  PROVE  IInv'
<1>1. request' = request /\ inflight' = inflight
  BY DEF JobSteps, EndSteps, StartCycle, EndCycle, StartJob, EndJob, CycleDrained, WorkerClosed,
         Signal, HooksDone, ServerClosed, End, Deadline
<1>2. FlagIsOpen' /\ CountIsExact'
  BY <1>1 DEF IInv, FlagIsOpen, CountIsExact, Open
<1>3. AdmissionTypeOK'
  BY <1>1 DEF IInv, AdmissionTypeOK, JobSteps, EndSteps, StartCycle, EndCycle, StartJob, EndJob, CycleDrained,
         WorkerClosed, Signal, HooksDone, ServerClosed, End, Deadline
<1>4. CASE JobSteps
  <2>1. phase' = phase /\ Left'
    BY <1>1, <1>4 DEF IInv, Left, Working, JobSteps, StartCycle, EndCycle, StartJob, EndJob, CycleDrained,
         WorkerClosed
  <2>2. Drained'
    BY <1>4, <2>1 DEF IInv, AdmissionTypeOK, Drained, JobSteps, MayTick, StartCycle, EndCycle, StartJob, EndJob,
         CycleDrained, WorkerClosed
  <2> QED
    BY <1>2, <1>3, <2>1, <2>2 DEF IInv
<1>5. CASE EndSteps
  <2>1. Drained'
    BY <1>5 DEF IInv, AdmissionTypeOK, Drained, EndSteps, Signal, HooksDone, ServerClosed, End, Deadline
  <2>2. Left'
    BY <1>1, <1>5 DEF IInv, Left, Working, EndSteps, Signal, HooksDone, ServerClosed, End, Deadline
  <2> QED
    BY <1>2, <1>3, <2>1, <2>2 DEF IInv
<1> QED
  BY <1>4, <1>5

LEMMA NextKeeps == IInv /\ [AdmissionNext]_admissionVars => IInv'
<1> SUFFICES ASSUME IInv, [AdmissionNext]_admissionVars PROVE IInv'
  OBVIOUS
<1>1. ASSUME NEW r \in Requests, Admit(r) \/ Serve(r) \/ Disconnect(r) PROVE IInv'
  BY <1>1, AdmitKeeps, ServeKeeps, CloseKeeps
<1>2. CASE JobSteps \/ EndSteps
  BY <1>2, ProcessKeeps
<1>3. CASE UNCHANGED admissionVars
  BY <1>3 DEF admissionVars, IInv, AdmissionTypeOK, FlagIsOpen, CountIsExact, Open, Drained, Left, Working
<1> QED
  BY <1>1, <1>2, <1>3 DEF AdmissionNext, JobSteps, EndSteps

-----------------------------------------------------------------------------
LEMMA Invariance == AdmissionSpec => []IInv
BY InitIInv, NextKeeps, PTL DEF AdmissionSpec

\* The count stays between zero and MAX_INFLIGHT_REQUESTS.
THEOREM TypeCorrect == AdmissionSpec => []AdmissionTypeOK
<1>1. IInv => AdmissionTypeOK
  BY DEF IInv
<1> QED
  BY <1>1, Invariance, PTL

\* The count is that of the open responses: each is given back once, whether it
\* finishes, closes, or both.
THEOREM Exact == AdmissionSpec => []CountIsExact
<1>1. IInv => CountIsExact
  BY DEF IInv
<1> QED
  BY <1>1, Invariance, PTL

\* The database is closed only when nothing works for anybody any more.
THEOREM CutsNothing == AdmissionSpec => []NothingIsCutOff
<1>1. IInv => NothingIsCutOff
  BY DEF IInv, Drained, Left, NothingIsCutOff
<1> QED
  BY <1>1, Invariance, PTL

-----------------------------------------------------------------------------
(* MigrationHistory. *)

\* The places between the acquisition of the advisory lock and its release.
Holding == {"locked", "expanded", "running", "executed", "failed"}

MigrationTypeOK ==
    /\ lock \subseteq Starts
    /\ at \in [Starts -> Holding \cup {"idle", "done"}]
    /\ todo \in [Starts -> SUBSET FileSet]
    /\ seeded \in BOOLEAN
    /\ crashes \in 0 .. MaxCrashes

Recorded(op) == FileName(op) \in history

\* Who works on the schema has the lock, alone.
Locked ==
    /\ \A p \in Starts : at[p] \in Holding <=> p \in lock
    /\ \A p, q \in lock : p = q

\* Every file is recorded or still to come, and what is to be recorded was executed.
Advanced ==
    \A p \in Starts :
        /\ at[p] \in {"running", "executed"} =>
               \A op \in FileSet : Recorded(op) \/ op \in todo[p]
        /\ at[p] = "executed" => todo[p] # {} /\ Finished(p) \in schema
        /\ at[p] = "done" => seeded /\ \A op \in FileSet : Recorded(op)

OwnNames == \A name \in history : name.family = "file"

\* Without crashes the schema shows what is recorded and what is about to be.
InStep ==
    crashes = 0 /\ OwnNames =>
        /\ repeated = {}
        /\ \A op \in schema : Recorded(op) \/ \E p \in Starts : at[p] = "executed" /\ op = Finished(p)
        /\ \A p \in Starts : at[p] \in {"running", "executed"} => \A op \in todo[p] : ~Recorded(op)

MigrationInv == MigrationTypeOK /\ Locked /\ Advanced /\ InStep /\ HistoryIsTrue

\* The sequence of the files and the set of their names, written out.
LEMMA FilesAre ==
    /\ DOMAIN Files = 1 .. 12
    /\ FileSet = {"enable-pg-trgm", "create-users", "create-sessions", "create-statuses",
                  "create-app-settings", "create-leads", "create-activities",
                  "create-webhook-receipts", "create-outbox", "create-dashboard-counters",
                  "webhook-credentials", "add-receipt-actor"}
<1> DEFINE first == <<"enable-pg-trgm", "create-users", "create-sessions", "create-statuses",
                       "create-app-settings", "create-leads", "create-activities",
                       "create-webhook-receipts", "create-outbox", "create-dashboard-counters">>
<1>0. Files = first \o <<"webhook-credentials", "add-receipt-actor">>
  <2>1. [Initial EXCEPT ![5] = "create-app-settings"] = first
    BY DEF Initial
  <2> QED BY <2>1 DEF Files
<1>1. DOMAIN Files = 1 .. 12
  BY <1>0
<1>2. FileSet = {Files[i] : i \in 1 .. 12}
  BY <1>1 DEF FileSet
<1>3. /\ Files[1] = "enable-pg-trgm" /\ Files[2] = "create-users" /\ Files[3] = "create-sessions"
      /\ Files[4] = "create-statuses" /\ Files[5] = "create-app-settings"
      /\ Files[6] = "create-leads" /\ Files[7] = "create-activities"
      /\ Files[8] = "create-webhook-receipts" /\ Files[9] = "create-outbox"
      /\ Files[10] = "create-dashboard-counters" /\ Files[11] = "webhook-credentials"
      /\ Files[12] = "add-receipt-actor"
  BY <1>0
<1> QED BY <1>2, <1>3, <1>1

\* A bundle stands for something, and never for a bundle.
LEMMA BundlesAre ==
    \A b \in Bundles : Replacements(b) # {} /\ Replacements(b) \cap Bundles = {}
BY DEF Bundles, Replacements, Initial

\* A file means itself; what a bundle is expanded into means no more than the bundle.
LEMMA Meanings ==
    /\ \A op \in FileSet : Meaning(FileName(op)) = {op}
    /\ \A b \in Bundles : \A name \in Aliases(b) : Meaning(name) = Replacements(b)
    /\ \A b \in Bundles : \A name \in Listed(b) : Meaning(name) \subseteq Replacements(b)
BY FilesAre, BundlesAre DEF Meaning, FileName, Name, Aliases, Listed, Bundles

\* The runner takes a pending file.
LEMMA NextFileIn ==
    ASSUME NEW ops \in SUBSET FileSet, ops # {}
    PROVE  NextFile(ops) \in ops
<1> DEFINE In == {i \in 1 .. 12 : Files[i] \in ops}
           Least(i) == i \in In /\ \A j \in 1 .. 12 : j < i => j \notin In
<1>1. In # {}
  BY FilesAre DEF FileSet
<1>2. In \subseteq 1 .. 12
  OBVIOUS
<1> HIDE DEF In
<1>3. \E i \in 1 .. 12 : Least(i)
  <2> HIDE DEF Least
  <2> DEFINE None(n) == \A j \in 1 .. n : j \notin In
  <2>1. \A i \in 1 .. 12 : i \in In /\ None(i - 1) => Least(i)
    BY DEF Least
  <2>2. None(0)
    OBVIOUS
  <2>3. \A n \in 0 .. 11 : None(n) => None(n + 1) \/ Least(n + 1)
    BY <2>1
  <2>4. ~None(12)
    BY <1>1, <1>2
  <2> HIDE DEF None
  <2> QED BY <2>2, <2>3, <2>4
<1>4. \E i \in DOMAIN Files : Files[i] \in ops /\ \A j \in DOMAIN Files : j < i => Files[j] \notin ops
  BY <1>3, FilesAre DEF In
<1> QED BY <1>4 DEF NextFile

\* A step of one process leaves the others where they are.
LEMMA Places ==
    ASSUME NEW p \in Starts, MigrationTypeOK, NEW place, Move(p, place)
    PROVE  at'[p] = place /\ \A q \in Starts \ {p} : at'[q] = at[q]
BY DEF Move, MigrationTypeOK

\* The variables keep their types.
LEMMA MigrationTypeStep == MigrationTypeOK /\ [MigrationNext]_migrationVars => MigrationTypeOK'
<1> SUFFICES ASSUME MigrationTypeOK, [MigrationNext]_migrationVars PROVE MigrationTypeOK'
  OBVIOUS
<1>0. MaxCrashes \in Nat
  BY MigrationAssumption
<1>1. CASE UNCHANGED migrationVars
  BY <1>1 DEF migrationVars, MigrationTypeOK
<1>2. ASSUME NEW p \in Starts, Lock(p) PROVE MigrationTypeOK'
  BY <1>2 DEF Lock, TakeLock, Move, MigrationTypeOK, Holding
<1>3. ASSUME NEW p \in Starts, Expand(p) PROVE MigrationTypeOK'
  BY <1>3 DEF Expand, Move, MigrationTypeOK, Holding
<1>4. ASSUME NEW p \in Starts, Pending(p) PROVE MigrationTypeOK'
  BY <1>4 DEF Pending, Move, MigrationTypeOK, Holding
<1>5. ASSUME NEW p \in Starts, Execute(p) PROVE MigrationTypeOK'
  BY <1>5 DEF Execute, Move, MigrationTypeOK, Holding
<1>6. ASSUME NEW p \in Starts, Record(p) PROVE MigrationTypeOK'
  BY <1>6 DEF Record, Rest, Move, MigrationTypeOK, Holding
<1>7. ASSUME NEW p \in Starts, Seed(p) PROVE MigrationTypeOK'
  BY <1>7 DEF Seed, Move, MigrationTypeOK, Holding
<1>8. ASSUME NEW p \in Starts, Fail(p) PROVE MigrationTypeOK'
  BY <1>8 DEF Fail, Move, MigrationTypeOK, Holding
<1>9. ASSUME NEW p \in Starts, Stop(p) PROVE MigrationTypeOK'
  BY <1>9 DEF Stop, Move, MigrationTypeOK, Holding
<1>10. ASSUME NEW p \in Starts, Crash(p) PROVE MigrationTypeOK'
  BY <1>10, <1>0 DEF Crash, Move, MigrationTypeOK, Holding
<1> QED BY <1>1, <1>2, <1>3, <1>4, <1>5, <1>6, <1>7, <1>8, <1>9, <1>10 DEF MigrationNext

\* The lock is taken when it is free and given back when its holder leaves.
LEMMA LockedStep == MigrationTypeOK /\ Locked /\ [MigrationNext]_migrationVars => Locked'
<1> SUFFICES ASSUME MigrationTypeOK, Locked, [MigrationNext]_migrationVars PROVE Locked'
  OBVIOUS
<1>1. CASE UNCHANGED migrationVars
  BY <1>1 DEF migrationVars, Locked
<1>2. ASSUME NEW p \in Starts, Lock(p) PROVE Locked'
  BY <1>2, Places DEF Lock, TakeLock, Locked, Holding
<1>3. ASSUME NEW p \in Starts, Expand(p) \/ Pending(p) \/ Execute(p) \/ Record(p) PROVE Locked'
  <2>1. /\ at[p] \in Holding /\ lock' = lock
        /\ \E place \in Holding : Move(p, place)
    BY <1>3 DEF Expand, Pending, Execute, Record, Holding
  <2> QED BY <2>1, Places DEF Locked
<1>4. ASSUME NEW p \in Starts, Seed(p) \/ Fail(p) \/ Stop(p) \/ Crash(p) PROVE Locked'
  <2>1. /\ lock' = lock \ {p}
        /\ \E place \in {"idle", "done"} : Move(p, place)
    BY <1>4 DEF Seed, Fail, Stop, Crash, Locked, Holding
  <2> QED BY <2>1, Places DEF Locked, Holding
<1> QED BY <1>1, <1>2, <1>3, <1>4 DEF MigrationNext

\* Two processes are never at work on the schema.
LEMMA OneWorks ==
    ASSUME MigrationTypeOK, Locked, NEW p \in Starts, NEW q \in Starts, at[p] \in Holding, at[q] \in Holding
    PROVE  p = q
BY DEF Locked

\* The rows of this version's own names are never taken away.
LEMMA OwnRowsStay ==
    ASSUME NEW p \in Starts, Expand(p)
    PROVE  \A op \in FileSet : Recorded(op) => Recorded(op)'
<1>1. \A b \in Bundles : \A op \in FileSet : FileName(op) \notin Aliases(b)
  BY DEF Aliases, Name, FileName
<1> QED BY <1>1 DEF Expand, Expansion, Recorded, Present

\* Between the plan and the last record nobody else touches the history, so that what a
\* runner found unrecorded is all that is missing.
LEMMA AdvancedStep ==
    ASSUME MigrationTypeOK, Locked, Advanced, [MigrationNext]_migrationVars
    PROVE  Advanced'
<1>1. CASE UNCHANGED migrationVars
  BY <1>1 DEF migrationVars, Advanced, Recorded, Finished
<1> DEFINE Ready(q) ==
        /\ at[q] \in {"running", "executed"} =>
               \A op \in FileSet : Recorded(op) \/ op \in todo[q]
        /\ at[q] = "executed" => todo[q] # {} /\ Finished(q) \in schema
        /\ at[q] = "done" => seeded /\ \A op \in FileSet : Recorded(op)
<1>2. \A q \in Starts : Ready(q)
  BY DEF Advanced
<1>3. ASSUME NEW p \in Starts, Lock(p) \/ Seed(p) \/ Fail(p) \/ Stop(p) \/ Crash(p) PROVE Advanced'
  <2>1. UNCHANGED <<history, schema>> /\ (seeded => seeded') /\ \A q \in Starts \ {p} : todo'[q] = todo[q]
    BY <1>3 DEF Lock, Seed, Fail, Stop, Crash, MigrationTypeOK
  <2>2. \A op : Recorded(op)' = Recorded(op)
    BY <2>1 DEF Recorded
  <2>3. \A q \in Starts \ {p} : Finished(q)' = Finished(q)
    BY <2>1 DEF Finished
  <2>4. \A q \in Starts \ {p} : at'[q] = at[q]
    BY <1>3, Places DEF Lock, Seed, Fail, Stop, Crash
  <2>5. \A q \in Starts \ {p} : Ready(q)'
    BY <1>2, <2>1, <2>2, <2>3, <2>4
  <2>6. CASE Seed(p)
    <3>1. at'[p] = "done" /\ seeded' /\ at[p] = "running" /\ todo[p] = {}
      BY <2>6, Places DEF Seed
    <3> QED BY <3>1, <1>2, <2>2, <2>5 DEF Advanced
  <2>7. CASE Lock(p) \/ Fail(p) \/ Stop(p) \/ Crash(p)
    <3>1. at'[p] \in {"locked", "idle"}
      BY <2>7, Places DEF Lock, Fail, Stop, Crash
    <3> QED BY <3>1, <2>5 DEF Advanced
  <2> QED BY <1>3, <2>6, <2>7
<1>4. ASSUME NEW p \in Starts, Expand(p) PROVE Advanced'
  <2>1. \A q \in Starts \ {p} : at[q] \notin Holding /\ at'[q] = at[q]
    BY <1>4, OneWorks, Places DEF Expand, Holding
  <2>2. at'[p] \in {"expanded", "failed"}
    BY <1>4, Places DEF Expand
  <2> QED BY <2>1, <2>2, <1>2, <1>4, OwnRowsStay DEF Advanced, Expand, Holding
<1>5. ASSUME NEW p \in Starts, Pending(p) PROVE Advanced'
  <2>1. \A q \in Starts \ {p} : at[q] \notin Holding /\ at'[q] = at[q]
    BY <1>5, OneWorks, Places DEF Pending, Holding
  <2>2. at'[p] = "running" /\ todo'[p] = {op \in FileSet : ~Recorded(op)}
    BY <1>5, Places DEF Pending, MigrationTypeOK, Recorded
  <2>3. \A op : Recorded(op)' = Recorded(op)
    BY <1>5 DEF Pending, Recorded
  <2> QED BY <2>1, <2>2, <2>3, <1>2, <1>5 DEF Advanced, Pending, Holding
<1>6. ASSUME NEW p \in Starts, Execute(p) PROVE Advanced'
  <2>1. \A q \in Starts \ {p} : at[q] \notin Holding /\ at'[q] = at[q]
    BY <1>6, OneWorks, Places DEF Execute, Holding
  <2>2. at'[p] = "failed" \/ (at'[p] = "executed" /\ Finished(p) \in schema')
    BY <1>6, Places DEF Execute, Finished
  <2>3. UNCHANGED <<history, todo, seeded>> /\ todo[p] # {} /\ at[p] = "running"
    BY <1>6 DEF Execute
  <2>4. \A op : Recorded(op)' = Recorded(op)
    BY <2>3 DEF Recorded
  <2>5. Finished(p)' = Finished(p)
    BY <2>3 DEF Finished
  <2> QED BY <2>1, <2>2, <2>3, <2>4, <2>5, <1>2 DEF Advanced, Holding
<1>7. ASSUME NEW p \in Starts, Record(p) PROVE Advanced'
  <2>1. \A q \in Starts \ {p} : at[q] \notin Holding /\ at'[q] = at[q]
    BY <1>7, OneWorks, Places DEF Record, Holding
  <2>2. at'[p] = "running" /\ at[p] = "executed" /\ todo'[p] = todo[p] \ {Finished(p)}
    BY <1>7, Places DEF Record, Rest, Finished, MigrationTypeOK
  <2>3. \A op : Recorded(op) \/ op = Finished(p) => Recorded(op)'
    BY <1>7 DEF Record, Recorded
  <2>4. \A op \in FileSet : Recorded(op) \/ op \in todo[p]
    BY <1>2, <2>2
  <2> QED BY <2>1, <2>2, <2>3, <2>4, <1>2, <1>7 DEF Advanced, Record, Holding
<1> QED BY <1>1, <1>3, <1>4, <1>5, <1>6, <1>7 DEF MigrationNext

\* An expansion claims what the bundle claimed, a record what was just executed.
LEMMA TruthStep ==
    ASSUME MigrationTypeOK, Advanced, HistoryIsTrue, [MigrationNext]_migrationVars
    PROVE  HistoryIsTrue'
<1>1. ASSUME UNCHANGED <<history, schema>> PROVE HistoryIsTrue'
  BY <1>1 DEF HistoryIsTrue
<1>2. ASSUME NEW p \in Starts, Lock(p) \/ Pending(p) \/ Seed(p) \/ Fail(p) \/ Stop(p) \/ Crash(p)
      PROVE  HistoryIsTrue'
  BY <1>1, <1>2 DEF Lock, Pending, Seed, Fail, Stop, Crash
<1>3. ASSUME NEW p \in Starts, Expand(p) PROVE HistoryIsTrue'
  <2>1. schema' = schema
    BY <1>3 DEF Expand
  <2>2. ASSUME NEW name \in history' PROVE Meaning(name) \subseteq schema
    <3>1. CASE name \in history
      BY <3>1 DEF HistoryIsTrue
    <3>2. CASE name \notin history
      <4>1. PICK b \in Bundles : Present(b) # {} /\ name \in Listed(b)
        BY <3>2, <1>3, <2>2 DEF Expand, Expansion
      <4>2. PICK alias \in history : alias \in Aliases(b)
        BY <4>1 DEF Present
      <4> QED BY <4>1, <4>2, Meanings DEF HistoryIsTrue
    <3> QED BY <3>1, <3>2
  <2> QED BY <2>1, <2>2 DEF HistoryIsTrue
<1>4. ASSUME NEW p \in Starts, Execute(p) PROVE HistoryIsTrue'
  <2>1. history' = history /\ schema \subseteq schema'
    BY <1>4 DEF Execute
  <2> QED BY <2>1 DEF HistoryIsTrue
<1>5. ASSUME NEW p \in Starts, Record(p) PROVE HistoryIsTrue'
  <2>1. Finished(p) \in FileSet /\ Finished(p) \in schema
    BY <1>5, NextFileIn DEF Record, Advanced, MigrationTypeOK, Finished
  <2> QED BY <2>1, <1>5, Meanings DEF Record, HistoryIsTrue
<1> QED BY <1>1, <1>2, <1>3, <1>4, <1>5 DEF MigrationNext, migrationVars

\* Where the expansion finds nothing of an old version it changes nothing.
LEMMA NothingToExpand ==
    ASSUME NEW p \in Starts, Expand(p), OwnNames'
    PROVE  history' = history
<1>1. CASE Ambiguous
  BY <1>1 DEF Expand
<1>2. CASE ~Ambiguous
  <2>1. \A b \in Bundles : Listed(b) # {} /\ \A name \in Listed(b) : name.family # "file"
    <3> TAKE b \in Bundles
    <3>1. PICK op \in Replacements(b) : TRUE
      BY BundlesAre
    <3>2. Name(op, "listed") \in Listed(b)
      BY DEF Listed
    <3> QED BY <3>2 DEF Listed, Name
  <2>2. \A b \in Bundles : Present(b) = {}
    <3> SUFFICES ASSUME NEW b \in Bundles, Present(b) # {} PROVE FALSE
      OBVIOUS
    <3>1. Listed(b) \subseteq history'
      BY <1>2 DEF Expand, Expansion
    <3> QED BY <2>1, <3>1 DEF OwnNames
  <2>3. UNION {Present(b) : b \in Bundles} = {}
    BY <2>2
  <2>4. UNION {Listed(b) : b \in {c \in Bundles : Present(c) # {}}} = {}
    BY <2>2
  <2> QED BY <1>2, <2>3, <2>4 DEF Expand, Expansion
<1> QED BY <1>1, <1>2

\* Without a crash the schema is ahead of the history by one operation at most, which its
\* process records before anyone asks what is pending.
LEMMA InStepStep ==
    ASSUME MigrationTypeOK, Locked, Advanced, InStep, [MigrationNext]_migrationVars
    PROVE  InStep'
<1> SUFFICES ASSUME crashes' = 0, OwnNames'
             PROVE  /\ repeated' = {}
                    /\ \A op \in schema' :
                           Recorded(op)' \/ \E p \in Starts : at'[p] = "executed" /\ op = Finished(p)'
                    /\ \A p \in Starts :
                           at'[p] \in {"running", "executed"} => \A op \in todo'[p] : ~Recorded(op)'
  BY DEF InStep
<1> DEFINE Shown(op) == Recorded(op) \/ \E p \in Starts : at[p] = "executed" /\ op = Finished(p)
           Ahead(q) == at[q] \in {"running", "executed"} => \A op \in todo[q] : ~Recorded(op)
<1>0. SUFFICES repeated' = {} /\ (\A op \in schema' : Shown(op)') /\ \A q \in Starts : Ahead(q)'
  OBVIOUS
<1>1. crashes = 0 /\ OwnNames => repeated = {} /\ (\A op \in schema : Shown(op)) /\ \A q \in Starts : Ahead(q)
  BY DEF InStep
<1>2. CASE UNCHANGED migrationVars
  BY <1>1, <1>2 DEF migrationVars, Recorded, Finished, OwnNames
<1>3. ASSUME NEW p \in Starts, Crash(p) PROVE FALSE
  BY <1>3 DEF Crash, MigrationTypeOK
\* A step of a process that neither executes nor records.
<1>4. ASSUME NEW p \in Starts, Lock(p) \/ Expand(p) \/ Pending(p) \/ Seed(p) \/ Fail(p) \/ Stop(p)
      PROVE  repeated' = {} /\ (\A op \in schema' : Shown(op)') /\ \A q \in Starts : Ahead(q)'
  <2>1. history' = history
    BY <1>4, NothingToExpand DEF Lock, Pending, Seed, Fail, Stop
  <2>2. UNCHANGED <<schema, repeated, crashes>> /\ at[p] # "executed"
    BY <1>4 DEF Lock, Expand, Pending, Seed, Fail, Stop
  <2>3. /\ \A q \in Starts \ {p} : at'[q] = at[q] /\ todo'[q] = todo[q]
        /\ at'[p] # "executed" /\ (at'[p] = "running" => Pending(p))
    BY <1>4, Places DEF Lock, Expand, Pending, Seed, Fail, Stop, MigrationTypeOK
  <2>4. repeated = {} /\ (\A op \in schema : Shown(op)) /\ \A q \in Starts : Ahead(q)
    BY <1>1, <2>1, <2>2 DEF OwnNames
  <2>5. \A op : Recorded(op)' = Recorded(op)
    BY <2>1 DEF Recorded
  <2>6. \A q \in Starts \ {p} : Finished(q)' = Finished(q)
    BY <2>3 DEF Finished
  <2>7. \A op \in schema' : Shown(op)'
    BY <2>2, <2>3, <2>4, <2>5, <2>6
  <2>8. Ahead(p)'
    BY <2>3, <2>5 DEF Pending, MigrationTypeOK, Recorded
  <2> QED BY <2>2, <2>3, <2>4, <2>5, <2>7, <2>8
<1>5. ASSUME NEW p \in Starts, Execute(p)
      PROVE  repeated' = {} /\ (\A op \in schema' : Shown(op)') /\ \A q \in Starts : Ahead(q)'
  <2>1. UNCHANGED <<history, todo, crashes>> /\ at[p] = "running" /\ todo[p] # {}
    BY <1>5 DEF Execute
  <2>2. repeated = {} /\ (\A op \in schema : Shown(op)) /\ \A q \in Starts : Ahead(q)
    BY <1>1, <2>1 DEF OwnNames
  <2>3. Finished(p) \in todo[p]
    BY <2>1, NextFileIn DEF MigrationTypeOK, Finished
  <2>4. \A q \in Starts \ {p} : at[q] \notin Holding
    BY <2>1, OneWorks DEF Holding
  <2>5. Finished(p) \notin schema
    BY <2>1, <2>2, <2>3, <2>4 DEF Holding
  <2>6. /\ schema' = schema \cup {Finished(p)} /\ repeated' = repeated
        /\ at'[p] = "executed" /\ \A q \in Starts \ {p} : at'[q] = at[q]
    BY <1>5, <2>5, Places DEF Execute, Finished
  <2>7. \A op : Recorded(op)' = Recorded(op)
    BY <2>1 DEF Recorded
  <2>8. \A q \in Starts : Finished(q)' = Finished(q)
    BY <2>1 DEF Finished
  <2>9. \A op \in schema' : Shown(op)'
    BY <2>1, <2>2, <2>4, <2>6, <2>7, <2>8 DEF Holding
  <2> QED BY <2>1, <2>2, <2>6, <2>7, <2>9
<1>6. ASSUME NEW p \in Starts, Record(p)
      PROVE  repeated' = {} /\ (\A op \in schema' : Shown(op)') /\ \A q \in Starts : Ahead(q)'
  <2>1. /\ UNCHANGED <<schema, repeated, crashes>> /\ at[p] = "executed"
        /\ history' = history \cup {FileName(Finished(p))}
        /\ todo'[p] = todo[p] \ {Finished(p)} /\ \A q \in Starts \ {p} : todo'[q] = todo[q]
    BY <1>6 DEF Record, Rest, Finished, MigrationTypeOK
  <2>2. OwnNames
    BY <2>1 DEF OwnNames
  <2>3. repeated = {} /\ (\A op \in schema : Shown(op)) /\ \A q \in Starts : Ahead(q)
    BY <1>1, <2>1, <2>2
  <2>4. \A q \in Starts \ {p} : at[q] \notin Holding /\ at'[q] = at[q]
    BY <1>6, <2>1, OneWorks, Places DEF Holding, Record
  <2>5. at'[p] = "running"
    BY <1>6, Places DEF Record
  <2>6. \A op : Recorded(op)' <=> Recorded(op) \/ op = Finished(p)
    BY <2>1 DEF Recorded, FileName, Name
  <2>7. \A op \in schema' : Shown(op)'
    BY <2>1, <2>3, <2>4, <2>6 DEF Holding
  <2>8. \A q \in Starts : Ahead(q)'
    BY <2>1, <2>3, <2>4, <2>5, <2>6 DEF Holding
  <2> QED BY <2>1, <2>3, <2>7, <2>8
<1> QED BY <1>2, <1>3, <1>4, <1>5, <1>6 DEF MigrationNext

\* The invariant of the start, from its cases.
LEMMA MigrationInvariance == MigrationSpec => []MigrationInv
<1>1. MigrationInit => MigrationInv
  <2> SUFFICES ASSUME MigrationInit PROVE MigrationInv
    OBVIOUS
  <2>1. MigrationTypeOK
    BY MigrationAssumption DEF MigrationInit, MigrationTypeOK
  <2>2. Locked /\ Advanced
    BY DEF MigrationInit, Locked, Advanced, Holding
  <2>3. HistoryIsTrue
    BY DEF MigrationInit, HistoryIsTrue
  <2>4. InStep
    <3> SUFFICES ASSUME OwnNames PROVE history = {}
      BY DEF MigrationInit, InStep
    <3>1. history \subseteq UNION {Aliases(b) \cup Listed(b) : b \in Bundles}
      BY MigrationAssumption DEF MigrationInit
    <3>2. \A b \in Bundles : \A name \in Aliases(b) \cup Listed(b) : name.family # "file"
      BY DEF Aliases, Listed, Name
    <3> QED BY <3>1, <3>2 DEF OwnNames
  <2> QED BY <2>1, <2>2, <2>3, <2>4 DEF MigrationInv
<1>2. MigrationInv /\ [MigrationNext]_migrationVars => MigrationInv'
  BY MigrationTypeStep, LockedStep, AdvancedStep, TruthStep, InStepStep DEF MigrationInv
<1> QED BY <1>1, <1>2, PTL DEF MigrationSpec

\* No row of SequelizeMeta claims what the schema does not show, whoever dies between a
\* migration and its record (migrator.ts).
THEOREM HistoryStaysTrue == MigrationSpec => []HistoryIsTrue
BY MigrationInvariance, PTL DEF MigrationInv

\* An API that runs has every operation in its schema and in its history, and its
\* reference rows.
THEOREM ServesComplete == MigrationSpec => []ServingIsComplete
<1>1. MigrationInv => ServingIsComplete
  <2> SUFFICES ASSUME MigrationInv, NEW p \in Starts, at[p] = "done"
               PROVE  FileSet \subseteq schema /\ (\A op \in FileSet : FileName(op) \in history) /\ seeded
    BY DEF ServingIsComplete
  <2>1. seeded /\ \A op \in FileSet : FileName(op) \in history
    BY DEF MigrationInv, Advanced, Recorded
  <2> QED BY <2>1, Meanings DEF MigrationInv, HistoryIsTrue
<1> QED BY <1>1, MigrationInvariance, PTL

\* While no process dies, no operation is executed twice on a database of this version.
THEOREM RunsOnce == MigrationSpec => []EachRunsOnce
<1>1. MigrationInv => EachRunsOnce
  BY DEF MigrationInv, InStep, OwnNames, EachRunsOnce
<1> QED BY <1>1, MigrationInvariance, PTL
=============================================================================
