--------------------------- MODULE CatalogProofs ---------------------------
(***************************************************************************)
(* Safety and refinement of Catalog for every set of statuses, leads,      *)
(* transactions and shards, and any number of requests.                    *)
(*                                                                         *)
(* The argument is two-phase locking: a transaction keeps its locks until  *)
(* it commits, so what it has read under them is still so (Current). That  *)
(* needs a status to be read under the settings row and a recount under    *)
(* the frozen tables (Guarded), since writers of those lock nothing else   *)
(* that the reader holds, and that locks really exclude (Exclusive). What  *)
(* a user saw is not locked: there the row versions carry the argument, a  *)
(* row with the version that was seen being the row that was seen          *)
(* (RequestsHold). Audit rows record versions that were reached, so that   *)
(* those of a commit are new and count (AuditsPast). That nobody waits in  *)
(* a circle needs the order in which locks are taken (InOrder).            *)
(***************************************************************************)
EXTENDS Catalog, FiniteSetTheorems, TLAPS

(* Who holds what. *)

\* No two transactions hold locks that exclude each other.
Exclusive ==
    \A t, u \in Txns : t # u => \A lock \in DOMAIN seen[t] : ~Excludes(u, lock)

\* What a lock is taken under: the settings for statuses, the frozen tables for a recount.
Under(t, lock) ==
    /\ lock[1] = "status" => Holds(t, SettingsShare) \/ Holds(t, SettingsUpdate)
    /\ lock[1] = "scan" => Holds(t, SettingsUpdate)
    /\ lock[1] = "recount" => Holds(t, Freeze("leads")) /\ Holds(t, Freeze("activities"))
    /\ lock[1] = "lead" => lock[2] \in Leads
    /\ lock[1] = "settings" => lock[2] = None

Guarded == \A t \in Txns : \A lock \in DOMAIN seen[t] : Under(t, lock)

\* What a transaction has read under a lock is still so.
Current == \A t \in Txns : \A lock \in DOMAIN seen[t] : seen[t][lock] = Row(lock)

(* What requests say of rows that go on changing. *)

Exists(row) == row.version > 0

\* A row that has the version of a view is the row that was viewed.
Follows(row, view) == view.version <= row.version /\ (view.version = row.version => row = view)

Named(r) ==
    /\ r.kind = "assign" => /\ Exists(leads[r.lead]) /\ Exists(statuses[r.status])
                            /\ Follows(leads[r.lead], r.view)
    /\ r.kind = "create" => ~Exists(statuses[r.status])
    /\ r.kind \in {"update", "archive"} => /\ Exists(statuses[r.status])
                                           /\ Follows(statuses[r.status], r.view)
    /\ r.kind = "archive" => r.replacement = None \/ Exists(statuses[r.replacement])
    /\ r.kind = "reorder" =>
           /\ \A i \in DOMAIN r.items : Exists(statuses[r.items[i]])
           /\ \A i, j \in DOMAIN r.items : r.items[i] = r.items[j] => i = j
           /\ \A s \in Statuses : Follows(statuses[s], r.view[s])

RequestsHold ==
    /\ \A t \in Txns : Named(request[t])
    /\ \A t, u \in Txns :
           t # u /\ request[t].kind = "create" /\ request[u].kind = "create" =>
               request[t].status # request[u].status

(* The rows. *)

LeadsHaveStatus == \A l \in Leads : Exists(leads[l]) => leads[l].status \in Statuses

StatusAudits == {a \in audits : a[1][1] = "status"}

\* An audit row records a version that was reached, and of a status every one was.
AuditsPast ==
    /\ IsFiniteSet(audits)
    /\ \A s \in Statuses, v \in Nat :
           <<<<"status", s>>, v>> \in audits <=> v \in FirstAudited(s) .. statuses[s].version
    /\ \A s \in Statuses : FirstAudited(s) <= statuses[s].version + 1
    /\ \A l \in Leads, v \in Nat :
           <<<<"lead", l>>, v>> \in audits => v \in 1 .. leads[l].version
    /\ settings.catalogVersion = 1 + Cardinality(StatusAudits)

IInv ==
    /\ TypeOK /\ Exclusive /\ Guarded /\ Current /\ RequestsHold
    /\ LeadsHaveStatus /\ DefaultIsActive /\ AuditsPast /\ CountersAreExact
-----------------------------------------------------------------------------
(* Requests and locks. *)

\* The fields of a request are those of its kind.
LEMMA RequestFields ==
    ASSUME NEW r \in RequestType
    PROVE  /\ r.kind = "assign" => r.lead \in Leads /\ r.status \in Statuses /\ r.view \in LeadRecord
           /\ r.kind = "arrive" => r.lead \in Leads /\ r.changed \in BOOLEAN
           /\ r.kind = "create" => r.status \in Statuses /\ r.position \in Positions \cup {None}
           /\ r.kind = "update" => /\ r.status \in Statuses /\ r.view \in StatusRecord
                                  /\ r.position \in Positions \cup {None} /\ r.isDefault \in BOOLEAN
           /\ r.kind = "archive" => /\ r.status \in Statuses /\ r.view \in StatusRecord
                                   /\ r.replacement \in Statuses \cup {None}
           /\ r.kind = "reorder" => r.items \in Seq(Statuses) /\ r.view \in [Statuses -> StatusRecord]
           /\ r.kind \in {"idle", "rebuild", "assign", "arrive", "create", "update", "archive",
                          "reorder"}
           /\ r.kind = "idle" => r = Idle
BY DEF RequestType, ArriveRequests, Idle

\* Which modes exclude each other.
LEMMA Conflicts ==
    /\ \A m : <<"update", m>> \notin Compatible /\ <<m, "update">> \notin Compatible
    /\ <<"rowExclusive", "tableShare">> \notin Compatible
    /\ <<"tableShare", "rowExclusive">> \notin Compatible
    /\ \A m, n : <<m, n>> \in Compatible => <<n, m>> \in Compatible
BY DEF Compatible

\* Two transactions never hold the same row, one of them for update.
LEMMA RowIsExclusive ==
    ASSUME Exclusive, NEW t \in Txns, NEW u \in Txns, t # u, NEW table, NEW row, NEW mode,
           <<table, row, "update">> \in DOMAIN seen[t], <<table, row, mode>> \in DOMAIN seen[u]
    PROVE  FALSE
BY Conflicts DEF Exclusive, Excludes

\* A granted lock excludes nobody's, and what is read under it is the current row.
LEMMA AcquireKeeps ==
    ASSUME IInv, NEW t \in Txns, Acquire(t)
    PROVE  Exclusive' /\ Current'
<1> PICK lock \in Wanted(t) :
        /\ \A u \in Txns \ {t} : ~Excludes(u, lock)
        /\ seen' = [seen EXCEPT ![t] =
               [k \in DOMAIN seen[t] \cup {lock} |->
                   IF k = lock THEN Row(lock) ELSE seen[t][k]]]
  BY DEF Acquire
<1>1. DOMAIN seen = Txns
  BY DEF IInv, TypeOK
<1>2. DOMAIN seen'[t] = DOMAIN seen[t] \cup {lock}
  BY <1>1
<1>3. \A u \in Txns \ {t} : seen'[u] = seen[u]
  BY <1>1
<1>4. \A k : Row(k)' = Row(k)
  BY DEF Acquire, Row, Tally, Count, LeadsIn
<1>5. \A u, v \in Txns : u # v =>
          \A k \in DOMAIN seen[u], h \in DOMAIN seen[v] :
              k[1] = h[1] /\ k[2] = h[2] => <<h[3], k[3]>> \in Compatible
  BY DEF IInv, Exclusive, Excludes
<1>6. \A v \in Txns \ {t} : \A h \in DOMAIN seen[v] :
          lock[1] = h[1] /\ lock[2] = h[2] =>
              <<h[3], lock[3]>> \in Compatible /\ <<lock[3], h[3]>> \in Compatible
  BY Conflicts DEF Excludes
<1>7. Exclusive'
  <2> SUFFICES ASSUME NEW u \in Txns, NEW v \in Txns, u # v, NEW k \in DOMAIN seen'[u],
                      NEW h \in DOMAIN seen'[v], h[1] = k[1], h[2] = k[2],
                      <<h[3], k[3]>> \notin Compatible
               PROVE  FALSE
    BY DEF Exclusive, Excludes
  <2>1. CASE u = t
    BY <1>2, <1>3, <1>5, <1>6, <2>1
  <2>2. CASE v = t
    BY <1>2, <1>3, <1>5, <1>6, <2>2
  <2>3. CASE u # t /\ v # t
    BY <1>3, <1>5, <2>3
  <2> QED BY <2>1, <2>2, <2>3
<1>8. Current'
  <2> SUFFICES ASSUME NEW u \in Txns, NEW k \in DOMAIN seen'[u]
               PROVE  seen'[u][k] = Row(k)
    BY <1>4 DEF Current
  <2>1. CASE u = t
    BY <1>1, <1>2, <2>1 DEF IInv, Current
  <2>2. CASE u # t
    BY <1>3, <2>2 DEF IInv, Current
  <2> QED BY <2>1, <2>2
<1> QED BY <1>7, <1>8

-----------------------------------------------------------------------------
(* What the order of a path makes a transaction hold. *)

\* The lock that is asked for next is that of a step before which nothing is left.
LEMMA WantedStep ==
    ASSUME NEW t \in Txns, NEW lock \in Wanted(t)
    PROVE  /\ Working(t)
           /\ \E a \in Path(t) : /\ a[3] = lock
                                /\ \A c \in Path(t) : Before(c, a) => Holds(t, c[3])
BY DEF Wanted, Ahead

\* Every path takes the settings before a status and the tables before a recount.
LEMMA WantedIsGuarded ==
    ASSUME TypeOK, NEW t \in Txns, NEW lock \in Wanted(t)
    PROVE  Under(t, lock)
<1> DEFINE r == request[t]
<1>1. r \in RequestType /\ r # Idle
  BY WantedStep DEF TypeOK, Working, Busy
<1> PICK a \in Path(t) : a[3] = lock /\ \A c \in Path(t) : Before(c, a) => Holds(t, c[3])
  BY WantedStep
<1>2. CASE r.kind = "assign"
  <2>1. Path(t) = AssignPath(t)
    BY <1>2 DEF Path
  <2>2. Step(1, SettingsShare) \in Path(t)
    BY <2>1 DEF AssignPath, AssignHead
  <2>3. lock[1] = "status" => a[1] = 2
    BY <2>1 DEF AssignPath, AssignHead, After, AuditPath, Step, SettingsShare, StatusShare,
                LeadUpdate, WriteTo, CounterUpdate
  <2>4. /\ lock[1] # "scan" /\ lock[1] # "recount"
        /\ lock[1] = "lead" => lock[2] \in Leads
        /\ lock[1] = "settings" => lock[2] = None
    BY <1>1, <1>2, <2>1, RequestFields DEF AssignPath, AssignHead, After, AuditPath, Step, SettingsShare, StatusShare,
                LeadUpdate, WriteTo, CounterUpdate
  <2> QED BY <2>2, <2>3, <2>4 DEF Under, Before, Step
<1>3. CASE r.kind = "arrive"
  <2>1. Path(t) = ArrivePath(t)
    BY <1>3 DEF Path
  <2>2. lock[1] = "status" => Holds(t, SettingsShare)
    BY <2>1 DEF ArrivePath, After, AuditPath, Step, SettingsShare, StatusShare,
                LeadUpdate, LeadKey, WriteTo, CounterUpdate
  <2>3. /\ lock[1] # "scan" /\ lock[1] # "recount"
        /\ lock[1] = "lead" => lock[2] \in Leads
        /\ lock[1] = "settings" => lock[2] = None
    BY <1>1, <1>3, <2>1, RequestFields DEF ArrivePath, After, AuditPath, Step, SettingsShare, StatusShare,
                LeadUpdate, LeadKey, WriteTo, CounterUpdate
  <2> QED BY <2>2, <2>3 DEF Under
<1>4. CASE r.kind = "create"
  <2>1. Path(t) = CreatePath(t)
    BY <1>4 DEF Path
  <2>2. Step(1, SettingsUpdate) \in Path(t)
    BY <2>1 DEF CreatePath
  <2>3. /\ lock[1] # "status" /\ lock[1] # "recount" /\ lock[1] # "lead"
        /\ lock[1] = "settings" => lock[2] = None
        /\ lock[1] = "scan" => a[1] = 2
    BY <2>1 DEF CreatePath, AuditPath, Step, SettingsUpdate, ReadStatuses, WriteTo,
                CounterUpdate
  <2> QED BY <2>2, <2>3 DEF Under, Before, Step
<1>5. CASE r.kind = "update"
  <2>1. Path(t) = UpdatePath(t)
    BY <1>5 DEF Path
  <2>2. Step(1, SettingsUpdate) \in Path(t)
    BY <2>1 DEF UpdatePath
  <2>3. /\ lock[1] # "scan" /\ lock[1] # "recount" /\ lock[1] # "lead"
        /\ lock[1] = "settings" => lock[2] = None
        /\ lock[1] = "status" => a[1] = 2
    BY <2>1 DEF UpdatePath, AuditPath, Step, SettingsUpdate, StatusUpdate, WriteTo,
                CounterUpdate
  <2> QED BY <2>2, <2>3 DEF Under, Before, Step
<1>6. CASE r.kind = "archive"
  <2>1. Path(t) = ArchivePath(t)
    BY <1>6 DEF Path
  <2>2. Step(1, SettingsUpdate) \in Path(t)
    BY <2>1 DEF ArchivePath
  <2>3. /\ lock[1] # "scan" /\ lock[1] # "recount" /\ lock[1] # "lead"
        /\ lock[1] = "settings" => lock[2] = None
        /\ lock[1] = "status" => a[1] \in {2, 3}
    BY <2>1 DEF ArchivePath, After, AuditPath, Step, SettingsUpdate, StatusUpdate, WriteTo,
                CounterUpdate
  <2> QED BY <2>2, <2>3 DEF Under, Before, Step
<1>7. CASE r.kind = "reorder"
  <2>1. Path(t) = ReorderPath(t)
    BY <1>7 DEF Path
  <2>2. Step(1, SettingsUpdate) \in Path(t)
    BY <2>1 DEF ReorderPath
  <2>3. \/ a = Step(1, SettingsUpdate)
        \/ a = Step(2, ReadStatuses(t))
        \/ \E s : a = <<3, s, StatusUpdate(s)>>
        \/ a = Step(5, WriteTo("activities"))
        \/ \E i, e : a = <<6, i, CounterUpdate(ActivityKey, e)>>
    BY <2>1 DEF ReorderPath, After
  <2>4. /\ lock[1] # "recount" /\ lock[1] # "lead"
        /\ lock[1] = "settings" => lock[2] = None
        /\ lock[1] \in {"status", "scan"} => a[1] \in {2, 3}
    BY <2>3 DEF Step, SettingsUpdate, StatusUpdate, ReadStatuses, WriteTo, CounterUpdate
  <2> QED BY <2>2, <2>4 DEF Under, Before, Step
<1>8. CASE r.kind = "rebuild"
  <2>1. Path(t) = RebuildPath
    BY <1>8 DEF Path
  <2>2. Step(1, Freeze("leads")) \in Path(t) /\ Step(2, Freeze("activities")) \in Path(t)
    BY <2>1 DEF RebuildPath
  <2>3. /\ lock[1] # "scan" /\ lock[1] # "status" /\ lock[1] # "lead"
        /\ lock[1] = "settings" => lock[2] = None
        /\ lock[1] = "recount" => a[1] = 3
    BY <2>1 DEF RebuildPath, Step, Freeze, Recount
  <2> QED BY <2>2, <2>3 DEF Under, Before, Step
<1> QED BY <1>1, <1>2, <1>3, <1>4, <1>5, <1>6, <1>7, <1>8, RequestFields

\* So a lock is granted only to a transaction that holds what it is taken under.
LEMMA GuardedStep ==
    ASSUME IInv, NEW t \in Txns, Acquire(t)
    PROVE  Guarded'
<1> PICK lock \in Wanted(t) : DOMAIN seen'[t] = DOMAIN seen[t] \cup {lock}
  BY DEF Acquire, IInv, TypeOK
<1>1. \A u \in Txns \ {t} : seen'[u] = seen[u]
  BY DEF Acquire, IInv, TypeOK
<1>2. \A u \in Txns : \A k : Holds(u, k) => Holds(u, k)'
  BY <1>1 DEF Holds
<1>3. \A u \in Txns : \A k : Under(u, k) => Under(u, k)'
  BY <1>2 DEF Under, SettingsShare, SettingsUpdate, Freeze
<1>4. \A u \in Txns : \A k \in DOMAIN seen'[u] : k \in DOMAIN seen[u] \/ (u = t /\ k = lock)
  BY <1>1
<1>5. Guarded /\ Under(t, lock)
  BY WantedIsGuarded DEF IInv
<1> QED BY <1>3, <1>4, <1>5 DEF Guarded

-----------------------------------------------------------------------------
(* What a commit does, in terms of the current rows. *)

\* A transaction that commits holds every lock of its path.
LEMMA ReadyHolds ==
    ASSUME NEW t, Ready(t)
    PROVE  Working(t) /\ \A c \in Path(t) : Holds(t, c[3])
BY DEF Ready, Ahead

\* The row behind each lock.
LEMMA RowValues ==
    /\ Row(SettingsShare) = settings /\ Row(SettingsUpdate) = settings
    /\ \A s : Row(StatusShare(s)) = statuses[s] /\ Row(StatusUpdate(s)) = statuses[s]
    /\ \A l : Row(LeadUpdate(l)) = leads[l]
    /\ \A t : Row(ReadStatuses(t)) = statuses
    /\ Row(Recount) = Tally
BY DEF Row, SettingsShare, SettingsUpdate, StatusShare, StatusUpdate, LeadUpdate, ReadStatuses,
       Recount

\* What was read under a lock that is still held is the current row.
LEMMA ReadIsCurrent ==
    ASSUME IInv, NEW t \in Txns
    PROVE  /\ Holds(t, SettingsShare) => Read(t, SettingsShare) = settings
           /\ Holds(t, SettingsUpdate) => Read(t, SettingsUpdate) = settings
           /\ \A s : Holds(t, StatusShare(s)) => Read(t, StatusShare(s)) = statuses[s]
           /\ \A s : Holds(t, StatusUpdate(s)) => Read(t, StatusUpdate(s)) = statuses[s]
           /\ \A l : Holds(t, LeadUpdate(l)) => Read(t, LeadUpdate(l)) = leads[l]
           /\ Holds(t, ReadStatuses(t)) => Read(t, ReadStatuses(t)) = statuses
           /\ Holds(t, Recount) => Read(t, Recount) = Tally
BY RowValues DEF IInv, Current, Holds, Read

\* A commit of its kind, with what the transaction has not found.
LEMMA CommitFacts ==
    ASSUME IInv, NEW t \in Txns, NEW kind, Commit(t, kind), kind # "idle"
    PROVE  /\ request[t].kind = kind /\ request[t] \in RequestType
           /\ Ready(t) /\ ~Settled(t) /\ Named(request[t])
           /\ request' = [request EXCEPT ![t] = Idle]
           /\ seen' = [seen EXCEPT ![t] = <<>>]
           /\ requests' = requests
BY DEF Commit, Ready, Working, Release, IInv, TypeOK, RequestsHold

\* A status change gives the lead, as the user saw it, another active status.
LEMMA AssignCommit ==
    ASSUME IInv, NEW t \in Txns, CommitAssign(t)
    PROVE  LET r == request[t]
               row == leads[r.lead]
               h == ShardOf[<<"lead", r.lead>>]
           IN  /\ r.kind = "assign" /\ r.lead \in Leads /\ r.status \in Statuses
               /\ Holds(t, LeadUpdate(r.lead)) /\ Holds(t, WriteTo("leads"))
               /\ Exists(row) /\ row = r.view /\ row.status # r.status
               /\ r.status \in Active(statuses)
               /\ leads' = [leads EXCEPT ![r.lead] = [version |-> row.version + 1,
                                                     status |-> r.status]]
               /\ Account({<<<<"lead", r.lead>>, row.version + 1>>},
                          {<<StatusKey(r.status), h>>}, {<<StatusKey(row.status), h>>})
               /\ settings' = settings /\ statuses' = statuses
<1> DEFINE r == request[t]
<1>1. Commit(t, "assign")
  BY DEF CommitAssign
<1>2. r.kind = "assign" /\ r \in RequestType /\ Ready(t) /\ ~Settled(t) /\ Named(r)
  BY <1>1, CommitFacts
<1>3. r.lead \in Leads /\ r.status \in Statuses /\ r.view \in LeadRecord
  BY <1>2, RequestFields
<1>4. Path(t) = AssignPath(t)
  BY <1>2 DEF Path
<1>5. /\ Holds(t, SettingsShare) /\ Holds(t, StatusShare(r.status))
      /\ Holds(t, LeadUpdate(r.lead))
  <2>1. /\ Step(1, SettingsShare) \in Path(t) /\ Step(2, StatusShare(r.status)) \in Path(t)
        /\ Step(3, LeadUpdate(r.lead)) \in Path(t)
    BY <1>4 DEF AssignPath, AssignHead
  <2> QED BY <1>2, <2>1, ReadyHolds DEF Step
<1>6. Holds(t, WriteTo("leads"))
  <2>1. Step(4, WriteTo("leads")) \in Path(t)
    BY <1>4, <1>5 DEF AssignPath, After
  <2> QED BY <1>2, <2>1, ReadyHolds DEF Step
<1>7. /\ Read(t, StatusShare(r.status)) = statuses[r.status]
      /\ Read(t, LeadUpdate(r.lead)) = leads[r.lead]
  BY <1>5, ReadIsCurrent
<1>8. ~Unassignable(t) /\ ~AssignSettled(t)
  BY <1>2 DEF Settled
<1>9. r.status \in Active(statuses)
  <2>1. ~statuses[r.status].archived
    BY <1>3, <1>5, <1>7, <1>8 DEF Unassignable
  <2> QED BY <1>2, <1>3, <2>1 DEF Named, Exists, Active
<1>10. leads[r.lead].version = r.view.version /\ leads[r.lead].status # r.status
  BY <1>5, <1>7, <1>8 DEF AssignSettled, Stale
<1>11. Exists(leads[r.lead]) /\ leads[r.lead] = r.view
  BY <1>2, <1>10 DEF Named, Follows
<1> QED BY <1>2, <1>3, <1>5, <1>6, <1>7, <1>9, <1>10, <1>11 DEF CommitAssign

\* A new lead gets the status that is the default when it is committed.
LEMMA NewLeadCommit ==
    ASSUME IInv, NEW t \in Txns, CommitNewLead(t)
    PROVE  LET l == request[t].lead
               h == ShardOf[<<"lead", l>>]
           IN  /\ request[t].kind = "arrive" /\ l \in Leads
               /\ Holds(t, LeadUpdate(l)) /\ Holds(t, WriteTo("leads"))
               /\ leads[l].version = 0
               /\ leads' = [leads EXCEPT ![l] = [version |-> 1, status |-> settings.default]]
               /\ Account({<<<<"lead", l>>, 1>>},
                          {<<StatusKey(settings.default), h>>, <<TotalKey, h>>}, {})
               /\ settings' = settings /\ statuses' = statuses
<1> DEFINE l == request[t].lead
<1>1. Commit(t, "arrive")
  BY DEF CommitNewLead
<1>2. request[t].kind = "arrive" /\ request[t] \in RequestType /\ Ready(t)
  BY <1>1, CommitFacts
<1>3. l \in Leads
  BY <1>2, RequestFields
<1>4. Path(t) = ArrivePath(t)
  BY <1>2 DEF Path
<1>5. Holds(t, LeadUpdate(l))
  <2>1. Step(1, LeadUpdate(l)) \in Path(t)
    BY <1>4 DEF ArrivePath
  <2> QED BY <1>2, <2>1, ReadyHolds DEF Step
<1>6. Read(t, LeadUpdate(l)).version = 0 /\ leads[l].version = 0
  BY <1>5, ReadIsCurrent DEF CommitNewLead
<1>7. Holds(t, WriteTo("leads")) /\ Holds(t, SettingsShare)
  <2>1. Step(4, WriteTo("leads")) \in Path(t) /\ Step(2, SettingsShare) \in Path(t)
    BY <1>4, <1>5, <1>6 DEF ArrivePath, After
  <2> QED BY <1>2, <2>1, ReadyHolds DEF Step
<1>8. Read(t, SettingsShare) = settings
  BY <1>7, ReadIsCurrent
<1> QED BY <1>2, <1>3, <1>5, <1>6, <1>7, <1>8 DEF CommitNewLead

\* New contact data write the next version of the lead and keep its status.
LEMMA ContactCommit ==
    ASSUME IInv, NEW t \in Txns, CommitContact(t)
    PROVE  LET l == request[t].lead
           IN  /\ request[t].kind = "arrive" /\ l \in Leads
               /\ Holds(t, LeadUpdate(l)) /\ Holds(t, WriteTo("leads"))
               /\ Exists(leads[l])
               /\ leads' = [leads EXCEPT ![l].version = leads[l].version + 1]
               /\ Account(IF request[t].changed
                          THEN {<<<<"lead", l>>, leads[l].version + 1>>} ELSE {}, {}, {})
               /\ settings' = settings /\ statuses' = statuses
<1> DEFINE l == request[t].lead
<1>1. Commit(t, "arrive")
  BY DEF CommitContact
<1>2. request[t].kind = "arrive" /\ request[t] \in RequestType /\ Ready(t)
  BY <1>1, CommitFacts
<1>3. l \in Leads
  BY <1>2, RequestFields
<1>4. Path(t) = ArrivePath(t)
  BY <1>2 DEF Path
<1>5. Holds(t, LeadUpdate(l))
  <2>1. Step(1, LeadUpdate(l)) \in Path(t)
    BY <1>4 DEF ArrivePath
  <2> QED BY <1>2, <2>1, ReadyHolds DEF Step
<1>6. Read(t, LeadUpdate(l)) = leads[l]
  BY <1>5, ReadIsCurrent
<1>7. Holds(t, WriteTo("leads"))
  <2>1. Step(4, WriteTo("leads")) \in Path(t)
    BY <1>4, <1>5 DEF ArrivePath, After
  <2> QED BY <1>2, <2>1, ReadyHolds DEF Step
<1> QED BY <1>2, <1>3, <1>5, <1>6, <1>7 DEF CommitContact, Exists

\* The active statuses can be counted.
LEMMA FiniteActive ==
    ASSUME TypeOK
    PROVE  IsFiniteSet(Active(statuses)) /\ Cardinality(Active(statuses)) \in Nat
<1>1. Active(statuses) \in SUBSET Statuses
  BY DEF Active
<1> QED BY <1>1, CatalogAssumption, FS_Subset, FS_CardinalityType

\* A new status is inserted where there was none and below the maximum.
LEMMA CreateCommit ==
    ASSUME IInv, NEW t \in Txns, CommitCreate(t)
    PROVE  LET s == request[t].status
           IN  /\ request[t].kind = "create" /\ s \in Statuses
               /\ Holds(t, SettingsUpdate) /\ Holds(t, WriteTo("activities"))
               /\ ~Exists(statuses[s])
               /\ Cardinality(Active(statuses)) < MaxActive
               /\ \E p \in Positions \cup {LastPosition(statuses) + 1} :
                      statuses' = [statuses EXCEPT
                          ![s] = [version |-> 1, archived |-> FALSE, position |-> p]]
               /\ settings' = [catalogVersion |-> settings.catalogVersion + 1,
                               default |-> settings.default]
               /\ Account({<<<<"status", s>>, 1>>}, {}, {})
               /\ leads' = leads
<1> DEFINE r == request[t]
           s == r.status
           p == IF r.position = None THEN LastPosition(statuses) + 1 ELSE r.position
<1>1. Commit(t, "create")
  BY DEF CommitCreate
<1>2. r.kind = "create" /\ r \in RequestType /\ Ready(t) /\ ~Settled(t) /\ Named(r)
  BY <1>1, CommitFacts
<1>3. s \in Statuses /\ r.position \in Positions \cup {None}
  BY <1>2, RequestFields
<1>4. Path(t) = CreatePath(t)
  BY <1>2 DEF Path
<1>5. /\ Holds(t, SettingsUpdate) /\ Holds(t, ReadStatuses(t))
      /\ Holds(t, WriteTo("activities"))
  <2>1. /\ Step(1, SettingsUpdate) \in Path(t) /\ Step(2, ReadStatuses(t)) \in Path(t)
        /\ Step(5, WriteTo("activities")) \in Path(t)
    BY <1>4 DEF CreatePath, AuditPath
  <2> QED BY <1>2, <2>1, ReadyHolds DEF Step
<1>6. Read(t, SettingsUpdate) = settings /\ Read(t, ReadStatuses(t)) = statuses
  BY <1>5, ReadIsCurrent
<1>7. Cardinality(Active(statuses)) < MaxActive
  <2>1. ~CreateSettled(t)
    BY <1>2 DEF Settled
  <2>2. ~(Cardinality(Active(statuses)) >= MaxActive)
    BY <2>1, <1>5, <1>6 DEF CreateSettled, TooMany
  <2> QED BY <2>2, FiniteActive, CatalogAssumption DEF IInv
<1>8. ~Exists(statuses[s])
  BY <1>2 DEF Named
<1>9. statuses' = [statuses EXCEPT ![s] = [version |-> 1, archived |-> FALSE, position |-> p]]
  BY <1>6 DEF CommitCreate
<1>10. p \in Positions \cup {LastPosition(statuses) + 1}
  BY <1>3
<1>11. settings' = [catalogVersion |-> settings.catalogVersion + 1, default |-> settings.default]
  BY <1>6, FS_Singleton DEF CommitCreate, Changed
<1>12. statuses'[s].version = 1
  BY <1>3, <1>9 DEF IInv, TypeOK, RowType
<1>13. Account({<<<<"status", s>>, 1>>}, {}, {})
  <2>1. {<<<<"status", x>>, statuses'[x].version>> : x \in {s}} = {<<<<"status", s>>, 1>>}
    BY <1>12
  <2> QED BY <2>1 DEF CommitCreate, Changed
<1>14. leads' = leads
  BY DEF CommitCreate, Changed
<1> HIDE DEF p
<1> QED BY <1>2, <1>3, <1>5, <1>7, <1>8, <1>9, <1>10, <1>11, <1>13, <1>14

\* An edit changes the active status its user saw, its position, the default or both.
LEMMA UpdateCommit ==
    ASSUME IInv, NEW t \in Txns, CommitUpdate(t)
    PROVE  LET s == request[t].status
           IN  /\ request[t].kind = "update" /\ s \in Statuses
               /\ Holds(t, SettingsUpdate) /\ Holds(t, WriteTo("activities"))
               /\ s \in Active(statuses) /\ statuses[s] = request[t].view
               /\ \E p \in Positions \cup {statuses[s].position}, d \in {s, settings.default} :
                      /\ <<p, d>> # <<statuses[s].position, settings.default>>
                      /\ statuses' = [statuses EXCEPT
                             ![s].position = p, ![s].version = statuses[s].version + 1]
                      /\ settings' = [catalogVersion |-> settings.catalogVersion + 1,
                                      default |-> d]
               /\ Account({<<<<"status", s>>, statuses[s].version + 1>>}, {}, {})
               /\ leads' = leads
<1> DEFINE r == request[t]
           s == r.status
           p == IF r.position = None THEN statuses[s].position ELSE r.position
           d == IF r.isDefault THEN s ELSE settings.default
<1>1. Commit(t, "update")
  BY DEF CommitUpdate
<1>2. r.kind = "update" /\ r \in RequestType /\ Ready(t) /\ ~Settled(t) /\ Named(r)
  BY <1>1, CommitFacts
<1>3. s \in Statuses /\ r.position \in Positions \cup {None} /\ r.isDefault \in BOOLEAN
  BY <1>2, RequestFields
<1>4. Path(t) = UpdatePath(t)
  BY <1>2 DEF Path
<1>5. /\ Holds(t, SettingsUpdate) /\ Holds(t, StatusUpdate(s))
      /\ Holds(t, WriteTo("activities"))
  <2>1. /\ Step(1, SettingsUpdate) \in Path(t) /\ Step(2, StatusUpdate(s)) \in Path(t)
        /\ Step(5, WriteTo("activities")) \in Path(t)
    BY <1>4 DEF UpdatePath, AuditPath
  <2> QED BY <1>2, <2>1, ReadyHolds DEF Step
<1>6. Read(t, SettingsUpdate) = settings /\ Read(t, StatusUpdate(s)) = statuses[s]
  BY <1>5, ReadIsCurrent
<1>7. ~UpdateSettled(t)
  BY <1>2 DEF Settled
<1>8. /\ ~Stale(statuses[s], r.view) /\ ~statuses[s].archived
      /\ ~(r.position \in {None, statuses[s].position} /\ (r.isDefault => settings.default = s))
  BY <1>5, <1>6, <1>7 DEF UpdateSettled
<1>9. s \in Active(statuses) /\ statuses[s] = r.view
  BY <1>2, <1>3, <1>8 DEF Stale, Named, Exists, Follows, Active
<1>10. statuses \in [Statuses -> StatusRecord]
  BY DEF IInv, TypeOK, RowType
<1>11. statuses' = [statuses EXCEPT ![s].position = p, ![s].version = statuses[s].version + 1]
  BY <1>3, <1>6, <1>10 DEF CommitUpdate
<1>12. <<p, d>> # <<statuses[s].position, settings.default>>
  BY <1>3, <1>8
<1>13. p \in Positions \cup {statuses[s].position} /\ d \in {s, settings.default}
  BY <1>3
<1>14. settings' = [catalogVersion |-> settings.catalogVersion + 1, default |-> d]
  BY <1>6, FS_Singleton DEF CommitUpdate, Changed
<1>15. statuses'[s].version = statuses[s].version + 1
  BY <1>3, <1>10, <1>11 DEF StatusRecord
<1>16. Account({<<<<"status", s>>, statuses[s].version + 1>>}, {}, {})
  <2>1. {<<<<"status", x>>, statuses'[x].version>> : x \in {s}} =
            {<<<<"status", s>>, statuses[s].version + 1>>}
    BY <1>15
  <2> QED BY <2>1 DEF CommitUpdate, Changed
<1>17. leads' = leads
  BY DEF CommitUpdate, Changed
<1> HIDE DEF p, d
<1> QED BY <1>2, <1>3, <1>5, <1>9, <1>11, <1>12, <1>13, <1>14, <1>16, <1>17

\* The status its user saw is archived; the default is another active one then.
LEMMA ArchiveCommit ==
    ASSUME IInv, NEW t \in Txns, CommitArchive(t)
    PROVE  LET s == request[t].status
           IN  /\ request[t].kind = "archive" /\ s \in Statuses
               /\ Holds(t, SettingsUpdate) /\ Holds(t, WriteTo("activities"))
               /\ s \in Active(statuses) /\ statuses[s] = request[t].view
               /\ statuses' = [statuses EXCEPT
                      ![s].archived = TRUE, ![s].version = statuses[s].version + 1]
               /\ \E d \in Active(statuses) \ {s} :
                      /\ settings.default # s => d = settings.default
                      /\ settings' = [catalogVersion |-> settings.catalogVersion + 1,
                                      default |-> d]
               /\ Account({<<<<"status", s>>, statuses[s].version + 1>>}, {}, {})
               /\ leads' = leads
<1> DEFINE r == request[t]
           s == r.status
           d == IF settings.default = s THEN r.replacement ELSE settings.default
<1>1. Commit(t, "archive")
  BY DEF CommitArchive
<1>2. r.kind = "archive" /\ r \in RequestType /\ Ready(t) /\ ~Settled(t) /\ Named(r)
  BY <1>1, CommitFacts
<1>3. s \in Statuses /\ r.replacement \in Statuses \cup {None}
  BY <1>2, RequestFields
<1>4. Path(t) = ArchivePath(t)
  BY <1>2 DEF Path
<1>5. /\ Holds(t, SettingsUpdate) /\ Holds(t, StatusUpdate(s))
      /\ Holds(t, WriteTo("activities"))
  <2>1. /\ Step(1, SettingsUpdate) \in Path(t) /\ Step(2, StatusUpdate(s)) \in Path(t)
        /\ Step(5, WriteTo("activities")) \in Path(t)
    BY <1>4 DEF ArchivePath, AuditPath
  <2> QED BY <1>2, <2>1, ReadyHolds DEF Step
<1>6. Read(t, SettingsUpdate) = settings /\ Read(t, StatusUpdate(s)) = statuses[s]
  BY <1>5, ReadIsCurrent
<1>7. ~ArchiveSettled(t)
  BY <1>2 DEF Settled
<1>8. /\ ~Stale(statuses[s], r.view) /\ ~statuses[s].archived
      /\ settings.default = s => ~Irreplaceable(t)
  BY <1>5, <1>6, <1>7 DEF ArchiveSettled
<1>9. s \in Active(statuses) /\ statuses[s] = r.view
  BY <1>2, <1>3, <1>8 DEF Stale, Named, Exists, Follows, Active
<1>10. statuses \in [Statuses -> StatusRecord]
  BY DEF IInv, TypeOK, RowType
<1>11. statuses' = [statuses EXCEPT ![s].archived = TRUE, ![s].version = statuses[s].version + 1]
  BY <1>6 DEF CommitArchive
<1>12. d \in Active(statuses) \ {s}
  <2>1. CASE settings.default # s
    BY <2>1 DEF IInv, DefaultIsActive
  <2>2. CASE settings.default = s
    <3>1. r.replacement \in Statuses \ {s}
      BY <1>3, <1>8, <2>2 DEF Irreplaceable
    <3>2. Step(3, StatusUpdate(r.replacement)) \in Path(t)
      BY <1>4, <1>5, <1>6, <2>2 DEF ArchivePath, After
    <3>3. Holds(t, StatusUpdate(r.replacement))
      BY <1>2, <3>2, ReadyHolds DEF Step
    <3>4. Read(t, StatusUpdate(r.replacement)) = statuses[r.replacement]
      BY <3>3, ReadIsCurrent
    <3>5. ~statuses[r.replacement].archived
      BY <1>8, <2>2, <3>3, <3>4 DEF Irreplaceable
    <3>6. Exists(statuses[r.replacement])
      BY <1>2, <3>1, CatalogAssumption DEF Named
    <3> QED BY <2>2, <3>1, <3>5, <3>6 DEF Active, Exists
  <2> QED BY <2>1, <2>2
<1>13. settings' = [catalogVersion |-> settings.catalogVersion + 1, default |-> d]
  BY <1>6, FS_Singleton DEF CommitArchive, Changed
<1>14. statuses'[s].version = statuses[s].version + 1
  BY <1>3, <1>10, <1>11 DEF StatusRecord
<1>15. Account({<<<<"status", s>>, statuses[s].version + 1>>}, {}, {})
  <2>1. {<<<<"status", x>>, statuses'[x].version>> : x \in {s}} =
            {<<<<"status", s>>, statuses[s].version + 1>>}
    BY <1>14
  <2> QED BY <2>1 DEF CommitArchive, Changed
<1>16. leads' = leads
  BY DEF CommitArchive, Changed
<1>17. settings.default # s => d = settings.default
  OBVIOUS
<1> HIDE DEF d
<1> QED BY <1>2, <1>3, <1>5, <1>9, <1>11, <1>12, <1>13, <1>15, <1>16, <1>17

\* An order of exactly the active statuses, as they were seen, moves those it must.
LEMMA ReorderCommit ==
    ASSUME IInv, NEW t \in Txns, CommitReorder(t)
    PROVE  LET items == request[t].items
               places == {i \in DOMAIN items : statuses[items[i]].position # i - 1}
               moved == {items[i] : i \in places}
           IN  /\ request[t].kind = "reorder" /\ items \in Seq(Statuses)
               /\ Holds(t, SettingsUpdate) /\ Holds(t, WriteTo("activities"))
               /\ {items[i] : i \in DOMAIN items} = Active(statuses)
               /\ \A i, j \in DOMAIN items : items[i] = items[j] => i = j
               /\ \A i \in DOMAIN items : statuses[items[i]] = request[t].view[items[i]]
               /\ places # {}
               /\ DOMAIN statuses' = Statuses
               /\ statuses' = [s \in Statuses |-> statuses'[s]]
               /\ \A i \in places :
                      statuses'[items[i]] = [statuses[items[i]] EXCEPT
                          !.position = i - 1, !.version = statuses[items[i]].version + 1]
               /\ \A s \in Statuses \ moved : statuses'[s] = statuses[s]
               /\ settings' = [catalogVersion |-> settings.catalogVersion + Cardinality(moved),
                               default |-> settings.default]
               /\ Account({<<<<"status", s>>, statuses'[s].version>> : s \in moved}, {}, {})
               /\ leads' = leads
<1> DEFINE r == request[t]
           items == r.items
           places == {i \in DOMAIN items : statuses[items[i]].position # i - 1}
           moved == {items[i] : i \in places}
           place(s) == CHOOSE i \in DOMAIN items : items[i] = s
<1>1. Commit(t, "reorder")
  BY DEF CommitReorder
<1>2. r.kind = "reorder" /\ r \in RequestType /\ Ready(t) /\ ~Settled(t) /\ Named(r)
  BY <1>1, CommitFacts
<1>3. items \in Seq(Statuses) /\ r.view \in [Statuses -> StatusRecord]
  BY <1>2, RequestFields
<1>4. Path(t) = ReorderPath(t)
  BY <1>2 DEF Path
<1>5. Holds(t, SettingsUpdate) /\ Holds(t, ReadStatuses(t))
  <2>1. /\ Step(1, SettingsUpdate) \in Path(t) /\ Step(2, ReadStatuses(t)) \in Path(t)
    BY <1>4 DEF ReorderPath
  <2> QED BY <1>2, <2>1, ReadyHolds DEF Step
<1>6. Read(t, SettingsUpdate) = settings /\ Read(t, ReadStatuses(t)) = statuses
  BY <1>5, ReadIsCurrent
<1>7. \A s \in Active(statuses) : Holds(t, StatusUpdate(s))
  <2> SUFFICES ASSUME NEW s \in Active(statuses)
               PROVE  Holds(t, StatusUpdate(s))
    OBVIOUS
  <2>1. <<3, s, StatusUpdate(s)>> \in Path(t)
    BY <1>4, <1>5, <1>6 DEF ReorderPath, After
  <2>2. <<3, s, StatusUpdate(s)>>[3] = StatusUpdate(s)
    OBVIOUS
  <2> QED BY <1>2, <2>1, <2>2, ReadyHolds
<1>8. \A s \in Active(statuses) : Read(t, StatusUpdate(s)) = statuses[s]
  BY <1>7, ReadIsCurrent
<1>9. Holds(t, WriteTo("activities"))
  <2>1. Step(5, WriteTo("activities")) \in Path(t)
    BY <1>4, <1>5, <1>6, <1>7 DEF ReorderPath, After
  <2> QED BY <1>2, <2>1, ReadyHolds DEF Step
<1>10. ~ReorderSettled(t)
  BY <1>2 DEF Settled
<1>11. /\ Active(statuses) = {items[i] : i \in DOMAIN items}
       /\ \A s \in Active(statuses) : ~Stale(statuses[s], r.view[s])
       /\ Moved(t) # {}
  BY <1>5, <1>6, <1>7, <1>8, <1>10 DEF ReorderSettled
<1>12. Moved(t) = places
  BY <1>8, <1>11 DEF Moved
<1>13. \A i, j \in DOMAIN items : items[i] = items[j] => i = j
  BY <1>2 DEF Named
<1>14. \A s \in Active(statuses) : statuses[s] = r.view[s]
  BY <1>2, <1>11 DEF Named, Follows, Stale, Active
<1>15. moved \subseteq Active(statuses) /\ Active(statuses) \subseteq Statuses
  BY <1>11 DEF Active
<1>16. statuses' = [s \in Statuses |->
           IF s \in moved
           THEN [statuses[s] EXCEPT !.position = place(s) - 1,
                                    !.version = Read(t, StatusUpdate(s)).version + 1]
           ELSE statuses[s]]
  BY <1>12 DEF CommitReorder
<1>17. \A i \in places : items[i] \in moved /\ place(items[i]) = i
  BY <1>13
<1>18. \A i \in places :
           statuses'[items[i]] = [statuses[items[i]] EXCEPT
               !.position = i - 1, !.version = statuses[items[i]].version + 1]
  <2> SUFFICES ASSUME NEW i \in places
               PROVE  statuses'[items[i]] = [statuses[items[i]] EXCEPT
                          !.position = i - 1, !.version = statuses[items[i]].version + 1]
    OBVIOUS
  <2>1. items[i] \in moved /\ place(items[i]) = i /\ items[i] \in Statuses
    BY <1>15, <1>17
  <2>2. Read(t, StatusUpdate(items[i])) = statuses[items[i]]
    BY <1>8, <1>15, <2>1
  <2> HIDE DEF place, moved
  <2> QED BY <1>16, <2>1, <2>2
<1>19. \A s \in Statuses \ moved : statuses'[s] = statuses[s]
  BY <1>16
<1>20. settings' = [catalogVersion |-> settings.catalogVersion + Cardinality(moved),
                    default |-> settings.default]
  BY <1>6, <1>12 DEF CommitReorder, Changed
<1>21. Account({<<<<"status", s>>, statuses'[s].version>> : s \in moved}, {}, {})
  BY <1>12 DEF CommitReorder, Changed
<1>22. leads' = leads
  BY DEF CommitReorder, Changed
<1>23. DOMAIN statuses' = Statuses /\ statuses' = [s \in Statuses |-> statuses'[s]]
  BY <1>16
<1>24. \A i \in DOMAIN items : statuses[items[i]] = r.view[items[i]]
  BY <1>11, <1>14
<1> QED BY <1>2, <1>3, <1>5, <1>9, <1>11, <1>12, <1>13, <1>18, <1>19, <1>20, <1>21, <1>22,
           <1>23, <1>24

\* A rebuild writes the exact counts of the current rows.
LEMMA RebuildCommit ==
    ASSUME IInv, NEW t \in Txns, CommitRebuild(t)
    PROVE  /\ counters' = Tally /\ settings' = settings /\ statuses' = statuses
           /\ leads' = leads /\ audits' = audits
<1>1. request[t].kind = "rebuild" /\ Ready(t)
  BY CommitFacts DEF CommitRebuild
<1>2. Path(t) = RebuildPath
  BY <1>1 DEF Path
<1>3. Holds(t, Recount)
  <2>1. Step(3, Recount) \in Path(t)
    BY <1>2 DEF RebuildPath
  <2> QED BY <1>1, <2>1, ReadyHolds DEF Step
<1> QED BY <1>3, ReadIsCurrent DEF CommitRebuild

-----------------------------------------------------------------------------
(* The two ways in which rows are written. *)

\* The lead's next version, perhaps with an audit row.
LeadWrite(t, l, rows) ==
    /\ l \in Leads /\ Holds(t, LeadUpdate(l)) /\ Holds(t, WriteTo("leads"))
    /\ leads' \in [Leads -> LeadRecord]
    /\ leads'[l].version = leads[l].version + 1 /\ leads'[l].status \in Statuses
    /\ \A x \in Leads \ {l} : leads'[x] = leads[x]
    /\ rows \subseteq {<<<<"lead", l>>, leads[l].version + 1>>}
    /\ audits' = audits \cup rows
    /\ settings' = settings /\ statuses' = statuses

\* The next version of some statuses, each with its audit row; when it is a new one
\* nobody else has named it.
StatusWrite(t, ids) ==
    /\ ids \subseteq Statuses /\ Holds(t, SettingsUpdate) /\ Holds(t, WriteTo("activities"))
    /\ statuses' \in [Statuses -> StatusRecord]
    /\ \A s \in ids : /\ statuses'[s].version = statuses[s].version + 1
                      /\ ~Exists(statuses[s]) => /\ request[t].kind = "create"
                                                 /\ request[t].status = s
    /\ \A s \in Statuses \ ids : statuses'[s] = statuses[s]
    /\ settings' \in [default : Statuses, catalogVersion : Nat]
    /\ settings'.catalogVersion = settings.catalogVersion + Cardinality(ids)
    /\ DefaultIsActive'
    /\ audits' = audits \cup {<<<<"status", s>>, statuses[s].version + 1>> : s \in ids}
    /\ leads' = leads

\* A finite set of numbers that is not empty has a greatest one.
LEMMA MaxExists ==
    ASSUME NEW S \in SUBSET Nat, IsFiniteSet(S), S # {}
    PROVE  \E m \in S : \A n \in S : n <= m
<1> DEFINE above(m) == {n \in S : n > m}
           T == {above(m) : m \in S}
<1>1. T \subseteq FiniteSubsetsOf(S) /\ T # {}
  <2>1. \A m \in S : above(m) \in SUBSET S
    OBVIOUS
  <2>2. FiniteSubsetsOf(S) = SUBSET S
    BY FS_FiniteSubsetsOfFinite
  <2>3. PICK m \in S : TRUE
    OBVIOUS
  <2>4. above(m) \in T
    OBVIOUS
  <2>5. T \subseteq SUBSET S
    BY <2>1
  <2> HIDE DEF T, above
  <2> QED BY <2>2, <2>4, <2>5
<1>2. PICK U \in T : \A V \in T : <<V, U>> \notin StrictSubsetOrdering(S)
  <2> HIDE DEF T
  <2> QED BY <1>1, WFMin, FS_StrictSubsetOrderingWellFounded
<1>3. PICK m \in S : U = above(m)
  BY <1>2
<1>4. ASSUME NEW n \in S, n > m PROVE FALSE
  <2>0. above(n) \in T
    OBVIOUS
  <2>1. above(n) \subseteq above(m)
    <3>1. n \in Nat /\ m \in Nat /\ \A k \in S : k \in Nat
      OBVIOUS
    <3>2. \A k \in above(n) : k \in S /\ k > n
      OBVIOUS
    <3>3. \A k \in S : k > n => k > m
      BY <1>4, <3>1
    <3> QED BY <3>2, <3>3
  <2>2. n \in above(m) /\ n \notin above(n)
    BY <1>4
  <2>3. above(n) \in SUBSET S /\ above(m) \in SUBSET S
    OBVIOUS
  <2> HIDE DEF above, T
  <2>4. <<above(n), U>> \in StrictSubsetOrdering(S)
    BY <1>3, <2>1, <2>2, <2>3 DEF StrictSubsetOrdering
  <2> QED BY <1>2, <2>0, <2>4
<1>5. \A n \in S : n \in Nat /\ m \in Nat
  OBVIOUS
<1> HIDE DEF T, above
<1> QED BY <1>4, <1>5

\* There is a last position.
LEMMA LastIsNat ==
    ASSUME statuses \in [Statuses -> StatusRecord]
    PROVE  LastPosition(statuses) \in Nat
<1> DEFINE S == {statuses[s].position : s \in Statuses}
           f == [s \in Statuses |-> statuses[s].position]
<1>1. S \in SUBSET Nat /\ S # {}
  <2>1. Statuses # {}
    BY CatalogAssumption
  <2>2. \A s \in Statuses : statuses[s].position \in Nat
    BY DEF StatusRecord
  <2>3. PICK s \in Statuses : TRUE
    BY <2>1
  <2>4. statuses[s].position \in S
    OBVIOUS
  <2> QED BY <2>2, <2>4
<1>2. f \in Surjection(Statuses, S)
  <2>1. f \in [Statuses -> S]
    OBVIOUS
  <2>2. \A p \in S : \E s \in Statuses : f[s] = p
    OBVIOUS
  <2> HIDE DEF f, S
  <2> QED BY <2>1, <2>2 DEF Surjection
<1>3. IsFiniteSet(S)
  BY <1>2, FS_Surjection, CatalogAssumption
<1>4. PICK m \in S : \A n \in S : n <= m
  <2> HIDE DEF S
  <2> QED BY <1>1, <1>3, MaxExists
<1>5. \A s \in Statuses : statuses[s].position <= m
  BY <1>4
<1> QED BY <1>1, <1>4, <1>5 DEF LastPosition

\* A status change is a write of the lead and of its audit row.
LEMMA AssignWrites ==
    ASSUME IInv, NEW t \in Txns, CommitAssign(t)
    PROVE  LeadWrite(t, request[t].lead,
                     {<<<<"lead", request[t].lead>>, leads[request[t].lead].version + 1>>})
<1> DEFINE l == request[t].lead
           new == [version |-> leads[l].version + 1, status |-> request[t].status]
<1>1. l \in Leads /\ request[t].status \in Statuses /\ leads' = [leads EXCEPT ![l] = new]
  BY AssignCommit
<1>2. leads \in [Leads -> LeadRecord]
  BY DEF IInv, TypeOK, RowType
<1>3. new \in LeadRecord
  BY <1>1, <1>2 DEF LeadRecord
<1>4. leads'[l] = new /\ leads' \in [Leads -> LeadRecord] /\ \A x \in Leads \ {l} : leads'[x] = leads[x]
  <2> HIDE DEF new
  <2> QED BY <1>1, <1>2, <1>3
<1>5. leads'[l].version = leads[l].version + 1 /\ leads'[l].status \in Statuses
  BY <1>1, <1>4
<1> QED BY <1>4, <1>5, AssignCommit DEF LeadWrite, Account

\* So is a new lead,
LEMMA NewLeadWrites ==
    ASSUME IInv, NEW t \in Txns, CommitNewLead(t)
    PROVE  LeadWrite(t, request[t].lead, {<<<<"lead", request[t].lead>>, 1>>})
<1> DEFINE l == request[t].lead
           new == [version |-> 1, status |-> settings.default]
<1>1. l \in Leads /\ leads' = [leads EXCEPT ![l] = new] /\ leads[l].version = 0
  BY NewLeadCommit
<1>2. leads \in [Leads -> LeadRecord] /\ settings.default \in Statuses
  BY DEF IInv, TypeOK, RowType
<1>3. new \in LeadRecord
  BY <1>2 DEF LeadRecord
<1>4. leads'[l] = new /\ leads' \in [Leads -> LeadRecord] /\ \A x \in Leads \ {l} : leads'[x] = leads[x]
  <2> HIDE DEF new
  <2> QED BY <1>1, <1>2, <1>3
<1>5. leads'[l].version = leads[l].version + 1 /\ leads'[l].status \in Statuses
  BY <1>1, <1>2, <1>4
<1> QED BY <1>1, <1>4, <1>5, NewLeadCommit DEF LeadWrite, Account

\* and so are new contact data, with an audit row only when something changed.
LEMMA ContactWrites ==
    ASSUME IInv, NEW t \in Txns, CommitContact(t)
    PROVE  LeadWrite(t, request[t].lead,
                     IF request[t].changed
                     THEN {<<<<"lead", request[t].lead>>, leads[request[t].lead].version + 1>>}
                     ELSE {})
<1> DEFINE l == request[t].lead
           new == [leads[l] EXCEPT !.version = leads[l].version + 1]
<1>1. l \in Leads /\ Exists(leads[l])
  BY ContactCommit
<1>2. leads \in [Leads -> LeadRecord] /\ leads[l].status \in Statuses
  BY <1>1 DEF IInv, TypeOK, RowType, LeadsHaveStatus
<1>3. leads' = [leads EXCEPT ![l] = new]
  BY <1>1, <1>2, ContactCommit
<1>4. new \in LeadRecord /\ new.version = leads[l].version + 1 /\ new.status \in Statuses
  BY <1>1, <1>2 DEF LeadRecord
<1>5. leads'[l] = new /\ leads' \in [Leads -> LeadRecord] /\ \A x \in Leads \ {l} : leads'[x] = leads[x]
  <2> HIDE DEF new
  <2> QED BY <1>1, <1>2, <1>3, <1>4
<1>6. leads'[l].version = leads[l].version + 1 /\ leads'[l].status \in Statuses
  BY <1>4, <1>5
<1> QED BY <1>1, <1>5, <1>6, ContactCommit DEF LeadWrite, Account

\* A new status is a write of one status nobody else has named.
LEMMA CreateWrites ==
    ASSUME IInv, NEW t \in Txns, CommitCreate(t)
    PROVE  StatusWrite(t, {request[t].status})
<1> DEFINE s == request[t].status
           new(p) == [version |-> 1, archived |-> FALSE, position |-> p]
<1>1. s \in Statuses /\ ~Exists(statuses[s]) /\ request[t].kind = "create"
  BY CreateCommit
<1>2. /\ statuses \in [Statuses -> StatusRecord]
      /\ settings \in [default : Statuses, catalogVersion : Nat]
  BY DEF IInv, TypeOK, RowType
<1>3. PICK p \in Positions \cup {LastPosition(statuses) + 1} : statuses' = [statuses EXCEPT ![s] = new(p)]
  BY CreateCommit
<1>4. new(p) \in StatusRecord
  <2>1. p \in Nat
    BY <1>2, LastIsNat, CatalogAssumption
  <2> QED BY <2>1 DEF StatusRecord
<1>5. /\ statuses' \in [Statuses -> StatusRecord] /\ statuses'[s] = new(p)
      /\ \A x \in Statuses \ {s} : statuses'[x] = statuses[x]
  <2> HIDE DEF new
  <2> QED BY <1>1, <1>2, <1>3, <1>4
<1>6. statuses[s].version = 0
  BY <1>1, <1>2 DEF Exists, StatusRecord
<1>7. statuses'[s].version = statuses[s].version + 1
  BY <1>5, <1>6
<1>8. settings' = [catalogVersion |-> settings.catalogVersion + 1, default |-> settings.default]
  BY CreateCommit
<1>9. /\ settings' \in [default : Statuses, catalogVersion : Nat]
      /\ settings'.catalogVersion = settings.catalogVersion + 1
      /\ settings'.default = settings.default
  BY <1>2, <1>8
<1>10. DefaultIsActive'
  <2>1. settings.default \in Statuses /\ statuses[settings.default].version > 0
        /\ ~statuses[settings.default].archived
    BY DEF IInv, DefaultIsActive, Active
  <2>2. settings.default # s
    BY <1>6, <2>1
  <2> QED BY <1>5, <1>9, <2>1, <2>2 DEF DefaultIsActive, Active
<1>11. audits' = audits \cup {<<<<"status", x>>, statuses[x].version + 1>> : x \in {s}}
  BY <1>6, CreateCommit DEF Account
<1>12. Cardinality({s}) = 1
  BY FS_Singleton
<1> QED BY <1>1, <1>5, <1>7, <1>9, <1>10, <1>11, <1>12, CreateCommit DEF StatusWrite

\* A row at its next version and another position.
LEMMA NextRow ==
    ASSUME NEW row \in StatusRecord, NEW p \in Nat
    PROVE  /\ [row EXCEPT !.position = p, !.version = row.version + 1] =
                  [version |-> row.version + 1, archived |-> row.archived, position |-> p]
           /\ [version |-> row.version + 1, archived |-> row.archived, position |-> p]
                  \in StatusRecord
<1>1. row.version + 1 \in Nat /\ row.archived \in BOOLEAN
  BY DEF StatusRecord
<1>2. PICK new : new = [row EXCEPT !.position = p, !.version = row.version + 1]
  OBVIOUS
<1>3. new = [version |-> row.version + 1, archived |-> row.archived, position |-> p]
  BY <1>2 DEF StatusRecord
<1>4. [version |-> row.version + 1, archived |-> row.archived, position |-> p] \in StatusRecord
  BY <1>1 DEF StatusRecord
<1> QED BY <1>2, <1>3, <1>4

\* A row at its next version, archived.
LEMMA ArchivedRow ==
    ASSUME NEW row \in StatusRecord, NEW new,
           new = [row EXCEPT !.archived = TRUE, !.version = row.version + 1]
    PROVE  new \in StatusRecord /\ new.version = row.version + 1 /\ new.archived = TRUE
<1>1. row.version + 1 \in Nat /\ row.position \in Nat
  BY DEF StatusRecord
<1>2. new = [version |-> row.version + 1, archived |-> TRUE, position |-> row.position]
  BY DEF StatusRecord
<1> QED BY <1>1, <1>2 DEF StatusRecord

\* An edit of a status, seen as a write of one status.
LEMMA UpdateWrites ==
    ASSUME IInv, NEW t \in Txns, CommitUpdate(t)
    PROVE  StatusWrite(t, {request[t].status})
<1> DEFINE s == request[t].status
<1>1. s \in Statuses /\ s \in Active(statuses)
  BY UpdateCommit
<1>2. /\ statuses \in [Statuses -> StatusRecord]
      /\ settings \in [default : Statuses, catalogVersion : Nat]
  BY DEF IInv, TypeOK, RowType
<1>3. PICK p \in Positions \cup {statuses[s].position}, d \in {s, settings.default} :
          /\ statuses' = [statuses EXCEPT ![s].position = p,
                                          ![s].version = statuses[s].version + 1]
          /\ settings' = [catalogVersion |-> settings.catalogVersion + 1, default |-> d]
  BY UpdateCommit
<1> DEFINE new == [statuses[s] EXCEPT !.position = p, !.version = statuses[s].version + 1]
<1>4. /\ new \in StatusRecord /\ new.version = statuses[s].version + 1
      /\ new.archived = statuses[s].archived
  <2>1. p \in Nat
    BY <1>1, <1>2, CatalogAssumption DEF StatusRecord
  <2>2. statuses[s] \in StatusRecord
    BY <1>1, <1>2
  <2>3. /\ new = [version |-> statuses[s].version + 1, archived |-> statuses[s].archived,
                   position |-> p]
        /\ [version |-> statuses[s].version + 1, archived |-> statuses[s].archived,
                   position |-> p] \in StatusRecord
    BY <2>1, <2>2, NextRow
  <2> HIDE DEF new
  <2> QED BY <2>3
<1>5. statuses' = [statuses EXCEPT ![s] = new]
  BY <1>1, <1>2, <1>3
<1>6. /\ statuses' \in [Statuses -> StatusRecord] /\ statuses'[s] = new
      /\ \A x \in Statuses \ {s} : statuses'[x] = statuses[x]
  <2> HIDE DEF new
  <2> QED BY <1>1, <1>2, <1>4, <1>5
<1>7. /\ settings' \in [default : Statuses, catalogVersion : Nat]
      /\ settings'.catalogVersion = settings.catalogVersion + 1
      /\ settings'.default = d
  BY <1>1, <1>2, <1>3
<1>8. DefaultIsActive'
  <2>1. d \in Active(statuses)
    BY <1>1 DEF IInv, DefaultIsActive
  <2>2. d \in Statuses /\ statuses[d].version > 0 /\ ~statuses[d].archived
    BY <2>1 DEF Active
  <2>3. statuses[s].version \in Nat
    BY <1>1, <1>2 DEF StatusRecord
  <2>4. statuses'[d].version > 0 /\ ~statuses'[d].archived
    <3> HIDE DEF new
    <3>1. CASE d = s
      BY <1>4, <1>6, <2>2, <2>3, <3>1
    <3>2. CASE d # s
      BY <1>6, <2>2, <3>2
    <3> QED BY <3>1, <3>2
  <2> QED BY <1>7, <2>2, <2>4 DEF DefaultIsActive, Active
<1>9. audits' = audits \cup {<<<<"status", x>>, statuses[x].version + 1>> : x \in {s}}
  BY UpdateCommit DEF Account
<1>10. Cardinality({s}) = 1
  BY FS_Singleton
<1>11. statuses'[s].version = statuses[s].version + 1 /\ Exists(statuses[s])
  BY <1>1, <1>4, <1>6 DEF Active, Exists
<1> QED BY <1>1, <1>6, <1>7, <1>8, <1>9, <1>10, <1>11, UpdateCommit DEF StatusWrite

\* Archiving is a write of one status that leaves the default active.
LEMMA ArchiveWrites ==
    ASSUME IInv, NEW t \in Txns, CommitArchive(t)
    PROVE  StatusWrite(t, {request[t].status})
<1> DEFINE s == request[t].status
           new == [statuses[s] EXCEPT !.archived = TRUE, !.version = statuses[s].version + 1]
<1>1. s \in Statuses /\ s \in Active(statuses)
  BY ArchiveCommit
<1>2. /\ statuses \in [Statuses -> StatusRecord]
      /\ settings \in [default : Statuses, catalogVersion : Nat]
  BY DEF IInv, TypeOK, RowType
<1>3. new \in StatusRecord /\ new.version = statuses[s].version + 1
  <2>1. statuses[s] \in StatusRecord
    BY <1>1, <1>2
  <2>2. new = [statuses[s] EXCEPT !.archived = TRUE, !.version = statuses[s].version + 1]
    OBVIOUS
  <2> HIDE DEF new
  <2> QED BY <2>1, <2>2, ArchivedRow
<1>4. statuses' = [statuses EXCEPT ![s] = new]
  BY <1>1, <1>2, ArchiveCommit
<1>5. /\ statuses' \in [Statuses -> StatusRecord] /\ statuses'[s] = new
      /\ \A x \in Statuses \ {s} : statuses'[x] = statuses[x]
  <2> HIDE DEF new
  <2> QED BY <1>1, <1>2, <1>3, <1>4
<1>6. PICK d \in Active(statuses) \ {s} :
          settings' = [catalogVersion |-> settings.catalogVersion + 1, default |-> d]
  BY ArchiveCommit
<1>7. d \in Statuses /\ d # s /\ statuses[d].version > 0 /\ ~statuses[d].archived
  BY DEF Active
<1>8. /\ settings' \in [default : Statuses, catalogVersion : Nat]
      /\ settings'.catalogVersion = settings.catalogVersion + 1
      /\ settings'.default = d
  BY <1>2, <1>6, <1>7
<1>9. DefaultIsActive'
  BY <1>5, <1>7, <1>8 DEF DefaultIsActive, Active
<1>10. audits' = audits \cup {<<<<"status", x>>, statuses[x].version + 1>> : x \in {s}}
  <2>1. {<<<<"status", x>>, statuses[x].version + 1>> : x \in {s}} =
            {<<<<"status", s>>, statuses[s].version + 1>>}
    OBVIOUS
  <2>2. audits' = audits \cup {<<<<"status", s>>, statuses[s].version + 1>>}
    BY ArchiveCommit DEF Account
  <2> QED BY <2>1, <2>2
<1>11. Cardinality({s}) = 1
  BY FS_Singleton
<1>12. statuses'[s].version = statuses[s].version + 1 /\ Exists(statuses[s])
  BY <1>1, <1>3, <1>5 DEF Active, Exists
<1> QED BY <1>1, <1>5, <1>8, <1>9, <1>10, <1>11, <1>12, ArchiveCommit DEF StatusWrite

\* A reorder is a write of the statuses that move.
LEMMA ReorderWrites ==
    ASSUME IInv, NEW t \in Txns, CommitReorder(t)
    PROVE  StatusWrite(t, {request[t].items[i] : i \in
               {j \in DOMAIN request[t].items : statuses[request[t].items[j]].position # j - 1}})
<1> DEFINE items == request[t].items
           places == {i \in DOMAIN items : statuses[items[i]].position # i - 1}
           moved == {items[i] : i \in places}
<1>1. /\ items \in Seq(Statuses)
      /\ {items[i] : i \in DOMAIN items} = Active(statuses)
      /\ DOMAIN statuses' = Statuses /\ statuses' = [s \in Statuses |-> statuses'[s]]
      /\ \A i \in places :
             statuses'[items[i]] = [statuses[items[i]] EXCEPT
                 !.position = i - 1, !.version = statuses[items[i]].version + 1]
      /\ \A s \in Statuses \ moved : statuses'[s] = statuses[s]
      /\ settings' = [catalogVersion |-> settings.catalogVersion + Cardinality(moved),
                      default |-> settings.default]
      /\ audits' = audits \cup {<<<<"status", s>>, statuses'[s].version>> : s \in moved}
      /\ leads' = leads /\ Holds(t, SettingsUpdate) /\ Holds(t, WriteTo("activities"))
  BY ReorderCommit DEF Account
<1>2. /\ statuses \in [Statuses -> StatusRecord]
      /\ settings \in [default : Statuses, catalogVersion : Nat]
  BY DEF IInv, TypeOK, RowType
<1>3. moved \subseteq Active(statuses) /\ Active(statuses) \subseteq Statuses
  BY <1>1 DEF Active
<1>4. \A s \in moved : /\ statuses'[s] \in StatusRecord
                       /\ statuses'[s].version = statuses[s].version + 1
                       /\ statuses'[s].archived = statuses[s].archived
  <2> SUFFICES ASSUME NEW i \in places
               PROVE  /\ statuses'[items[i]] \in StatusRecord
                      /\ statuses'[items[i]].version = statuses[items[i]].version + 1
                      /\ statuses'[items[i]].archived = statuses[items[i]].archived
    OBVIOUS
  <2>1. i \in Nat /\ i - 1 \in Nat
    <3>1. items \in Seq(Statuses) /\ i \in DOMAIN items
      BY <1>1
    <3> HIDE DEF items
    <3> QED BY <3>1
  <2>2. items[i] \in moved
    OBVIOUS
  <2>3. statuses[items[i]] \in StatusRecord
    BY <1>2, <1>3, <2>2
  <2>4. statuses'[items[i]] = [statuses[items[i]] EXCEPT
                !.position = i - 1, !.version = statuses[items[i]].version + 1]
    BY <1>1
  <2>5. /\ statuses'[items[i]] = [version |-> statuses[items[i]].version + 1,
                archived |-> statuses[items[i]].archived, position |-> i - 1]
        /\ [version |-> statuses[items[i]].version + 1,
                archived |-> statuses[items[i]].archived, position |-> i - 1] \in StatusRecord
    BY <2>1, <2>3, <2>4, NextRow
  <2> QED BY <2>5
<1>5. IsFiniteSet(moved) /\ Cardinality(moved) \in Nat
  <2> HIDE DEF moved
  <2>1. moved \in SUBSET Statuses
    BY <1>3
  <2> QED BY <2>1, CatalogAssumption, FS_Subset, FS_CardinalityType
<1> HIDE DEF moved, places
<1>6. statuses' \in [Statuses -> StatusRecord]
  <2>1. \A s \in Statuses : statuses'[s] \in StatusRecord
    BY <1>1, <1>2, <1>4
  <2> QED BY <1>1, <2>1
<1>7. /\ settings' \in [default : Statuses, catalogVersion : Nat]
      /\ settings'.catalogVersion = settings.catalogVersion + Cardinality(moved)
      /\ settings'.default = settings.default
  <2>1. settings' = [catalogVersion |-> settings.catalogVersion + Cardinality(moved),
                     default |-> settings.default]
    BY <1>1
  <2>2. settings.default \in Statuses /\ settings.catalogVersion \in Nat
    BY <1>2
  <2> QED BY <1>5, <2>1, <2>2
<1>8. DefaultIsActive'
  <2> DEFINE d == settings.default
  <2>1. d \in Statuses /\ statuses[d].version > 0 /\ ~statuses[d].archived
    BY DEF IInv, DefaultIsActive, Active
  <2>2. statuses[d].version \in Nat
    BY <1>2, <2>1 DEF StatusRecord
  <2>3. statuses'[d].version > 0 /\ ~statuses'[d].archived
    <3>1. CASE d \in moved
      BY <1>4, <2>1, <2>2, <3>1
    <3>2. CASE d \notin moved
      BY <1>1, <2>1, <3>2
    <3> QED BY <3>1, <3>2
  <2> QED BY <1>7, <2>1, <2>3 DEF DefaultIsActive, Active
<1>9. audits' = audits \cup {<<<<"status", s>>, statuses[s].version + 1>> : s \in moved}
  <2>1. \A s \in moved : statuses'[s].version = statuses[s].version + 1
    BY <1>4
  <2>2. {<<<<"status", s>>, statuses'[s].version>> : s \in moved} =
            {<<<<"status", s>>, statuses[s].version + 1>> : s \in moved}
    BY <2>1
  <2>3. audits' = audits \cup {<<<<"status", s>>, statuses'[s].version>> : s \in moved}
    BY <1>1
  <2> QED BY <2>2, <2>3
<1>10. \A s \in moved : Exists(statuses[s])
  BY <1>3 DEF Active, Exists
<1>11. StatusWrite(t, moved)
  BY <1>1, <1>3, <1>4, <1>6, <1>7, <1>8, <1>9, <1>10 DEF StatusWrite
<1> QED BY <1>11 DEF moved, places

-----------------------------------------------------------------------------
(* Locks through a commit. *)

\* A commit gives back the transaction's locks; the others keep theirs, and what they
\* have read is still so when the rows they lock are not written.
LEMMA CommitKeepsLocks ==
    ASSUME IInv, NEW t \in Txns, seen' = [seen EXCEPT ![t] = <<>>],
           \A u \in Txns \ {t} : \A k \in DOMAIN seen[u] : Row(k)' = Row(k)
    PROVE  Exclusive' /\ Guarded' /\ Current'
<1>1. DOMAIN seen = Txns
  BY DEF IInv, TypeOK
<1>2. DOMAIN seen'[t] = {} /\ \A u \in Txns \ {t} : seen'[u] = seen[u]
  BY <1>1
<1>3. \A u \in Txns : \A k \in DOMAIN seen'[u] : u # t /\ k \in DOMAIN seen[u]
  BY <1>2
<1>4. Exclusive'
  BY <1>2, <1>3 DEF IInv, Exclusive, Excludes
<1>5. Guarded'
  <2>1. \A u \in Txns \ {t} : \A k : Holds(u, k) => Holds(u, k)'
    BY <1>2 DEF Holds
  <2>2. \A u \in Txns \ {t} : \A k : Under(u, k) => Under(u, k)'
    BY <2>1 DEF Under, SettingsShare, SettingsUpdate, Freeze
  <2> QED BY <1>3, <2>2 DEF IInv, Guarded
<1>6. Current'
  <2> SUFFICES ASSUME NEW u \in Txns, NEW k \in DOMAIN seen'[u]
               PROVE  seen'[u][k] = Row(k)'
    BY DEF Current
  <2>1. u # t /\ k \in DOMAIN seen[u] /\ seen'[u] = seen[u]
    BY <1>2, <1>3
  <2>2. seen[u][k] = Row(k)
    BY <2>1 DEF IInv, Current
  <2> QED BY <2>1, <2>2
<1> QED BY <1>4, <1>5, <1>6

\* Who writes leads or audits keeps every recount away.
LEMMA WriterKeepsRecountAway ==
    ASSUME IInv, NEW t \in Txns, NEW u \in Txns, t # u, NEW k \in DOMAIN seen[u],
           Holds(t, WriteTo("leads")) \/ Holds(t, WriteTo("activities"))
    PROVE  k[1] # "recount"
<1> SUFFICES ASSUME k[1] = "recount" PROVE FALSE
  OBVIOUS
<1>1. Holds(u, Freeze("leads")) /\ Holds(u, Freeze("activities"))
  BY DEF IInv, Guarded, Under
<1>2. Exclusive
  BY DEF IInv
<1> QED BY <1>1, <1>2, Conflicts DEF Exclusive, Excludes, Holds, Freeze, WriteTo

\* A write of a lead changes no row that another transaction has locked.
LEMMA LeadWriteKeepsRows ==
    ASSUME IInv, NEW t \in Txns, NEW l, NEW rows, LeadWrite(t, l, rows),
           NEW u \in Txns \ {t}, NEW k \in DOMAIN seen[u]
    PROVE  Row(k)' = Row(k)
<1>1. k[1] # "recount"
  BY WriterKeepsRecountAway DEF LeadWrite
<1>2. k[1] = "lead" => k[2] \in Leads /\ k[2] # l
  <2>1. Exclusive /\ (k[1] = "lead" => k[2] \in Leads)
    BY DEF IInv, Guarded, Under
  <2>2. Holds(t, LeadUpdate(l))
    BY DEF LeadWrite
  <2> QED BY <2>1, <2>2, Conflicts DEF Exclusive, Excludes, Holds, LeadUpdate
<1>3. k[1] = "lead" => leads'[k[2]] = leads[k[2]]
  BY <1>2 DEF LeadWrite
<1>4. settings' = settings /\ statuses' = statuses
  BY DEF LeadWrite
<1> QED BY <1>1, <1>3, <1>4 DEF Row

\* Nor does a write of statuses: who has read one holds the settings row.
LEMMA StatusWriteKeepsRows ==
    ASSUME IInv, NEW t \in Txns, NEW ids, StatusWrite(t, ids),
           NEW u \in Txns \ {t}, NEW k \in DOMAIN seen[u]
    PROVE  Row(k)' = Row(k)
<1>1. k[1] # "recount"
  BY WriterKeepsRecountAway DEF StatusWrite
<1>2. Exclusive /\ Holds(t, SettingsUpdate) /\ leads' = leads
  BY DEF IInv, StatusWrite
<1>3. \A h \in DOMAIN seen[u] : h[1] = "settings" => h[2] # None
  BY <1>2, Conflicts DEF Exclusive, Excludes, Holds, SettingsUpdate
<1>6. k[1] # "settings"
  BY <1>3 DEF IInv, Guarded, Under
<1>4. ~Holds(u, SettingsShare) /\ ~Holds(u, SettingsUpdate)
  BY <1>3 DEF Holds, SettingsShare, SettingsUpdate
<1>5. k[1] \notin {"status", "scan"}
  BY <1>4 DEF IInv, Guarded, Under
<1> QED BY <1>1, <1>2, <1>5, <1>6 DEF Row

-----------------------------------------------------------------------------
(* Requests through a commit. *)

\* A written row has a version of its own.
Later(row, next) == next = row \/ (next.version > row.version /\ next.version \in Nat)

\* Rows only go on to later versions, so what requests say of them stays true.
LEMMA CommitKeepsRequests ==
    ASSUME IInv, NEW t \in Txns, request' = [request EXCEPT ![t] = Idle],
           \A l \in Leads : Later(leads[l], leads'[l]),
           \A s \in Statuses : Later(statuses[s], statuses'[s]),
           \A s \in Statuses :
               /\ ~Exists(statuses[s])
               /\ ~(request[t].kind = "create" /\ request[t].status = s)
               => statuses'[s] = statuses[s]
    PROVE  RequestsHold'
<1>1. request \in [Txns -> RequestType] /\ RequestsHold
  BY DEF IInv, TypeOK
<1>2. request'[t] = Idle /\ \A u \in Txns \ {t} : request'[u] = request[u]
  BY <1>1
<1>3. /\ \A l \in Leads : leads[l].version \in Nat
      /\ \A s \in Statuses : statuses[s].version \in Nat
  BY DEF IInv, TypeOK, RowType, LeadRecord, StatusRecord
<1>4. /\ \A l \in Leads : Exists(leads[l]) => Exists(leads'[l])
      /\ \A s \in Statuses : Exists(statuses[s]) => Exists(statuses'[s])
  BY <1>3 DEF Later, Exists
<1>5. /\ \A l \in Leads, v \in LeadRecord : Follows(leads[l], v) => Follows(leads'[l], v)
      /\ \A s \in Statuses, v \in StatusRecord :
             Follows(statuses[s], v) => Follows(statuses'[s], v)
  <2>1. (\A v \in LeadRecord : v.version \in Nat) /\ (\A v \in StatusRecord : v.version \in Nat)
    BY DEF LeadRecord, StatusRecord
  <2> QED BY <1>3, <2>1 DEF Later, Follows
<1>6. \A u \in Txns : Named(request[u])'
  <2> SUFFICES ASSUME NEW u \in Txns PROVE Named(request[u])'
    OBVIOUS
  <2>1. CASE u = t
    BY <1>2, <2>1 DEF Named, Idle
  <2>2. CASE u # t
    <3>1. PICK r \in RequestType : r = request[u] /\ request'[u] = r /\ Named(r)
      BY <1>1, <1>2, <2>2 DEF RequestsHold
    <3>2. r.kind = "assign" => /\ Exists(leads'[r.lead]) /\ Exists(statuses'[r.status])
                               /\ Follows(leads'[r.lead], r.view)
      BY <1>4, <1>5, <3>1, RequestFields DEF Named
    <3>3. r.kind = "create" => ~Exists(statuses'[r.status])
      <4>1. r.kind = "create" /\ request[t].kind = "create" => r.status # request[t].status
        BY <1>1, <2>2, <3>1 DEF RequestsHold
      <4> QED BY <3>1, <4>1, RequestFields DEF Named
    <3>4. r.kind \in {"update", "archive"} => /\ Exists(statuses'[r.status])
                                              /\ Follows(statuses'[r.status], r.view)
      BY <1>4, <1>5, <3>1, RequestFields DEF Named
    <3>5. r.kind = "archive" => r.replacement = None \/ Exists(statuses'[r.replacement])
      BY <1>4, <3>1, RequestFields DEF Named
    <3>6. r.kind = "reorder" =>
           /\ \A i \in DOMAIN r.items : Exists(statuses'[r.items[i]])
           /\ \A i, j \in DOMAIN r.items : r.items[i] = r.items[j] => i = j
           /\ \A s \in Statuses : Follows(statuses'[s], r.view[s])
      <4> HAVE r.kind = "reorder"
      <4>1. r.items \in Seq(Statuses) /\ r.view \in [Statuses -> StatusRecord]
        BY <3>1, RequestFields
      <4>2. \A i \in DOMAIN r.items : r.items[i] \in Statuses
        BY <4>1
      <4>3. \A s \in Statuses : r.view[s] \in StatusRecord
        BY <4>1
      <4>4. /\ \A i \in DOMAIN r.items : Exists(statuses[r.items[i]])
            /\ \A i, j \in DOMAIN r.items : r.items[i] = r.items[j] => i = j
            /\ \A s \in Statuses : Follows(statuses[s], r.view[s])
        BY <3>1 DEF Named
      <4> QED BY <1>4, <1>5, <4>2, <4>3, <4>4
    <3>7. Named(r)'
      BY <3>2, <3>3, <3>4, <3>5, <3>6, <3>1 DEF Named, Exists, Follows
    <3> QED BY <3>1, <3>7 DEF Named
  <2> QED BY <2>1, <2>2
<1>7. \A u, v \in Txns :
          u # v /\ request'[u].kind = "create" /\ request'[v].kind = "create" =>
              request'[u].status # request'[v].status
  <2>1. Idle.kind # "create"
    BY DEF Idle
  <2> QED BY <1>1, <1>2, <2>1 DEF RequestsHold
<1> QED BY <1>6, <1>7 DEF RequestsHold

-----------------------------------------------------------------------------
(* Audit rows through a commit. *)

\* The audit row of a lead is new and records the version that is reached.
LEMMA LeadWriteAudits ==
    ASSUME IInv, NEW t \in Txns, NEW l, NEW rows, LeadWrite(t, l, rows)
    PROVE  /\ AuditsPast' /\ LeadsHaveStatus'
           /\ IsFiniteSet(rows) /\ rows \cap audits = {}
           /\ rows \subseteq Entities \X Nat
<1> DEFINE row == <<<<"lead", l>>, leads[l].version + 1>>
<1>1. /\ l \in Leads /\ rows \subseteq {row} /\ audits' = audits \cup rows
      /\ statuses' = statuses /\ settings' = settings
      /\ leads'[l].version = leads[l].version + 1 /\ leads'[l].status \in Statuses
      /\ \A x \in Leads \ {l} : leads'[x] = leads[x]
  BY DEF LeadWrite
<1>2. AuditsPast /\ leads \in [Leads -> LeadRecord] /\ leads[l].version \in Nat
  BY <1>1 DEF IInv, TypeOK, RowType, LeadRecord
<1>3. IsFiniteSet(rows)
  <2>1. IsFiniteSet({row}) /\ rows \in SUBSET {row}
    BY <1>1, FS_Singleton
  <2> QED BY <2>1, FS_Subset
<1>4. row \notin audits
  <2>1. row \in audits => leads[l].version + 1 \in 1 .. leads[l].version
    BY <1>1, <1>2 DEF AuditsPast
  <2> QED BY <1>2, <2>1
<1>5. rows \cap audits = {}
  BY <1>1, <1>4
<1>6. IsFiniteSet(audits')
  BY <1>1, <1>2, <1>3, FS_Union DEF AuditsPast
<1>7. \A s \in Statuses, v \in Nat :
          <<<<"status", s>>, v>> \in audits' <=> v \in FirstAudited(s) .. statuses'[s].version
  <2> SUFFICES ASSUME NEW s \in Statuses, NEW v \in Nat
               PROVE  <<<<"status", s>>, v>> \in audits' <=> v \in FirstAudited(s) .. statuses'[s].version
    OBVIOUS
  <2>1. <<<<"status", s>>, v>> # row
    OBVIOUS
  <2>2. <<<<"status", s>>, v>> \in audits' <=> <<<<"status", s>>, v>> \in audits
    BY <1>1, <2>1
  <2> QED BY <1>1, <1>2, <2>2 DEF AuditsPast
<1>8. ASSUME NEW x \in Leads, NEW v \in Nat, <<<<"lead", x>>, v>> \in audits'
      PROVE  v \in 1 .. leads'[x].version
  <2>1. CASE <<<<"lead", x>>, v>> \in audits
    <3>1. v \in 1 .. leads[x].version
      BY <1>2, <2>1 DEF AuditsPast
    <3> QED BY <1>1, <1>2, <3>1
  <2>2. CASE <<<<"lead", x>>, v>> = row
    BY <1>1, <1>2, <2>2
  <2> QED BY <1>1, <1>8, <2>1, <2>2
<1>9. StatusAudits' = StatusAudits
  BY <1>1 DEF StatusAudits
<1>10. AuditsPast'
  BY <1>1, <1>2, <1>6, <1>7, <1>8, <1>9 DEF AuditsPast
<1>11. LeadsHaveStatus'
  BY <1>1 DEF IInv, LeadsHaveStatus, Exists
<1>12. rows \subseteq Entities \X Nat
  BY <1>1, <1>2 DEF Entities
<1> QED BY <1>3, <1>5, <1>10, <1>11, <1>12

\* So are those of statuses; the catalogue version counts them.
LEMMA StatusWriteAudits ==
    ASSUME IInv, NEW t \in Txns, NEW ids, StatusWrite(t, ids)
    PROVE  LET rows == {<<<<"status", s>>, statuses[s].version + 1>> : s \in ids}
           IN  /\ AuditsPast' /\ LeadsHaveStatus'
               /\ IsFiniteSet(rows) /\ rows \cap audits = {}
               /\ rows \subseteq Entities \X Nat
<1> DEFINE row(s) == <<<<"status", s>>, statuses[s].version + 1>>
           rows == {row(s) : s \in ids}
           f == [s \in ids |-> row(s)]
<1>1. /\ ids \subseteq Statuses /\ audits' = audits \cup rows /\ leads' = leads
      /\ \A s \in ids : statuses'[s].version = statuses[s].version + 1
      /\ \A s \in Statuses \ ids : statuses'[s] = statuses[s]
      /\ settings'.catalogVersion = settings.catalogVersion + Cardinality(ids)
  BY DEF StatusWrite
<1>2. /\ AuditsPast /\ \A s \in Statuses : statuses[s].version \in Nat
      /\ settings.catalogVersion \in Nat
  BY DEF IInv, TypeOK, RowType, StatusRecord
<1>3. IsFiniteSet(ids)
  <2>1. ids \in SUBSET Statuses
    BY <1>1
  <2> QED BY <2>1, CatalogAssumption, FS_Subset
<1>4. ExistsBijection(ids, rows)
  <2>1. f \in [ids -> rows]
    OBVIOUS
  <2>2. \A s, x \in ids : f[s] = f[x] => s = x
    OBVIOUS
  <2>3. \A a \in rows : \E s \in ids : f[s] = a
    OBVIOUS
  <2> HIDE DEF f, rows
  <2>4. f \in Bijection(ids, rows)
    BY <2>1, <2>2, <2>3 DEF Bijection, Injection, Surjection, IsInjective
  <2> QED BY <2>4 DEF ExistsBijection
<1>5. IsFiniteSet(rows) /\ Cardinality(rows) = Cardinality(ids)
  <2> HIDE DEF rows
  <2> QED BY <1>3, <1>4, FS_Bijection
<1>6. \A s \in ids : row(s) \notin audits
  <2> SUFFICES ASSUME NEW s \in ids, row(s) \in audits PROVE FALSE
    OBVIOUS
  <2>1. s \in Statuses /\ statuses[s].version \in Nat /\ statuses[s].version + 1 \in Nat
    BY <1>1, <1>2
  <2>2. statuses[s].version + 1 \in FirstAudited(s) .. statuses[s].version
    BY <1>2, <2>1 DEF AuditsPast
  <2> QED BY <2>1, <2>2
<1>7. rows \cap audits = {}
  BY <1>6
<1>8. IsFiniteSet(audits')
  <2> HIDE DEF rows
  <2> QED BY <1>1, <1>2, <1>5, FS_Union DEF AuditsPast
<1>9. ASSUME NEW s \in Statuses, NEW v \in Nat
      PROVE  <<<<"status", s>>, v>> \in audits' <=> v \in FirstAudited(s) .. statuses'[s].version
  <2>1. /\ <<<<"status", s>>, v>> \in audits <=> v \in FirstAudited(s) .. statuses[s].version
        /\ statuses[s].version \in Nat /\ FirstAudited(s) \in {1, 2}
    BY <1>2 DEF AuditsPast, FirstAudited
  <2>2. CASE s \in ids
    <3>1. <<<<"status", s>>, v>> \in rows <=> v = statuses[s].version + 1
      BY <2>2
    <3>2. statuses'[s].version = statuses[s].version + 1
      BY <1>1, <2>2
    <3>3. FirstAudited(s) <= statuses[s].version + 1
      BY <1>2 DEF AuditsPast
    <3> HIDE DEF rows
    <3>4. <<<<"status", s>>, v>> \in audits' <=> (<<<<"status", s>>, v>> \in audits \/ v = statuses[s].version + 1)
      BY <1>1, <3>1
    <3> QED BY <2>1, <3>2, <3>3, <3>4
  <2>3. CASE s \notin ids
    <3>1. <<<<"status", s>>, v>> \notin rows
      BY <2>3
    <3>2. statuses'[s] = statuses[s]
      BY <1>1, <2>3
    <3> HIDE DEF rows
    <3> QED BY <1>1, <2>1, <3>1, <3>2
  <2> QED BY <2>2, <2>3
<1>10. \A x \in Leads, v \in Nat :
          <<<<"lead", x>>, v>> \in audits' => v \in 1 .. leads'[x].version
  BY <1>1, <1>2 DEF AuditsPast
<1>11. settings'.catalogVersion = 1 + Cardinality(StatusAudits)'
  <2>1. StatusAudits' = StatusAudits \cup rows
    BY <1>1 DEF StatusAudits
  <2>2. StatusAudits \cap rows = {}
    BY <1>7 DEF StatusAudits
  <2>3. StatusAudits \in SUBSET audits
    BY DEF StatusAudits
  <2>4. IsFiniteSet(StatusAudits) /\ Cardinality(StatusAudits) \in Nat
    BY <1>2, <2>3, FS_Subset, FS_CardinalityType DEF AuditsPast
  <2>5. Cardinality(ids) \in Nat
    BY <1>3, FS_CardinalityType
  <2> HIDE DEF rows
  <2>6. Cardinality(StatusAudits') = Cardinality(StatusAudits) + Cardinality(rows)
                                         - Cardinality({})
    BY <1>5, <2>1, <2>2, <2>4, FS_Union
  <2>7. Cardinality(StatusAudits') = Cardinality(StatusAudits) + Cardinality(ids)
    BY <1>5, <2>4, <2>5, <2>6, FS_EmptySet
  <2>8. settings.catalogVersion = 1 + Cardinality(StatusAudits)
    BY <1>2 DEF AuditsPast
  <2> QED BY <1>1, <2>4, <2>5, <2>7, <2>8
<1>12. AuditsPast'
  <2>1. ASSUME NEW s \in Statuses PROVE FirstAudited(s) <= statuses'[s].version + 1
    <3>1. /\ FirstAudited(s) <= statuses[s].version + 1 /\ FirstAudited(s) \in {1, 2}
          /\ statuses[s].version \in Nat
      BY <1>2 DEF AuditsPast, FirstAudited
    <3>2. statuses'[s].version \in {statuses[s].version, statuses[s].version + 1}
      BY <1>1
    <3> QED BY <3>1, <3>2
  <2> QED BY <1>8, <1>9, <1>10, <1>11, <2>1 DEF AuditsPast
<1>13. LeadsHaveStatus'
  BY <1>1 DEF IInv, LeadsHaveStatus, Exists
<1>14. rows \subseteq Entities \X Nat
  BY <1>1, <1>2 DEF Entities
<1> QED BY <1>5, <1>7, <1>12, <1>13, <1>14

-----------------------------------------------------------------------------
(* Counters through a commit. *)

\* Two sets that agree on everything but x.
LEMMA OneApart ==
    ASSUME NEW S, IsFiniteSet(S), NEW T, NEW x, T \ {x} = S \ {x}
    PROVE  /\ Cardinality(S) \in Nat /\ Cardinality(T) \in Nat
           /\ Cardinality(T) = Cardinality(S) + (IF x \in T THEN 1 ELSE 0)
                                              - (IF x \in S THEN 1 ELSE 0)
<1> DEFINE R == S \ {x}
<1>1. /\ IsFiniteSet(R) /\ Cardinality(S) \in Nat /\ Cardinality(R) \in Nat
      /\ Cardinality(R) = IF x \in S THEN Cardinality(S) - 1 ELSE Cardinality(S)
  BY FS_RemoveElement, FS_CardinalityType
<1>2. T = IF x \in T THEN R \cup {x} ELSE R
  <2>1. CASE x \in T
    BY <2>1
  <2>2. CASE x \notin T
    BY <2>2
  <2> QED BY <2>1, <2>2
<1>3. x \notin R
  OBVIOUS
<1> HIDE DEF R
<1>4. Cardinality(R \cup {x}) = Cardinality(R) + 1
  BY <1>1, <1>3, FS_AddElement
<1>5. CASE x \in T
  BY <1>1, <1>2, <1>4, <1>5
<1>6. CASE x \notin T
  BY <1>1, <1>2, <1>6
<1> QED BY <1>5, <1>6

\* No two counters share a key.
LEMMA KeysDiffer ==
    /\ ActivityKey # TotalKey
    /\ \A s : StatusKey(s) # ActivityKey /\ StatusKey(s) # TotalKey /\ StatusKey(s)[2] = s
    /\ \A s, x : StatusKey(s) = StatusKey(x) => s = x
<1>1. ActivityKey[1] = "activity" /\ TotalKey[1] = "total"
  BY DEF ActivityKey, TotalKey
<1>2. \A s : StatusKey(s)[1] = "status" /\ StatusKey(s)[2] = s
  BY DEF StatusKey
<1>3. "activity" # "total" /\ "activity" # "status" /\ "total" # "status"
  OBVIOUS
<1> QED BY <1>1, <1>2, <1>3

\* The counts, key by key.
LEMMA CountValues ==
    ASSUME NEW h
    PROVE  /\ Count(ActivityKey, h) = Cardinality({a \in audits : ShardOf[a[1]] = h})
           /\ Count(TotalKey, h) = Cardinality(LeadsIn(h))
           /\ \A s : Count(StatusKey(s), h) = Cardinality({l \in LeadsIn(h) : leads[l].status = s})
BY KeysDiffer DEF Count

\* A write of a lead moves it between statuses, and a new one adds to the total.
LEMMA LeadCounts ==
    ASSUME IInv, NEW t \in Txns, NEW l, NEW rows, LeadWrite(t, l, rows), NEW h
    PROVE  LET here == ShardOf[<<"lead", l>>] = h IN
           /\ Count(TotalKey, h)' = Count(TotalKey, h) +
                  (IF here /\ ~Exists(leads[l]) THEN 1 ELSE 0)
           /\ \A s : Count(StatusKey(s), h)' = Count(StatusKey(s), h)
                  + (IF here /\ leads'[l].status = s THEN 1 ELSE 0)
                  - (IF here /\ Exists(leads[l]) /\ leads[l].status = s THEN 1 ELSE 0)
<1> DEFINE here == ShardOf[<<"lead", l>>] = h
           A == LeadsIn(h)
           B == {x \in Leads : leads'[x].version > 0 /\ ShardOf[<<"lead", x>>] = h}
           in(s) == {x \in A : leads[x].status = s}
           out(s) == {x \in B : leads'[x].status = s}
<1>1. /\ l \in Leads /\ leads'[l].version = leads[l].version + 1
      /\ \A x \in Leads \ {l} : leads'[x] = leads[x]
      /\ leads[l].version \in Nat
  BY DEF LeadWrite, IInv, TypeOK, RowType, LeadRecord
<1>2. LeadsIn(h)' = B
  BY DEF LeadsIn
<1>3. /\ Count(TotalKey, h) = Cardinality(A) /\ Count(TotalKey, h)' = Cardinality(B)
      /\ \A s : Count(StatusKey(s), h) = Cardinality(in(s))
      /\ \A s : Count(StatusKey(s), h)' = Cardinality(out(s))
  BY <1>2, KeysDiffer DEF Count
<1>4. /\ l \in A <=> here /\ Exists(leads[l])
      /\ l \in B <=> here
  BY <1>1 DEF LeadsIn, Exists
<1>5. B \ {l} = A \ {l}
  BY <1>1 DEF LeadsIn
<1>6. IsFiniteSet(A) /\ \A s : IsFiniteSet(in(s))
  <2>1. A \in SUBSET Leads /\ \A s : in(s) \in SUBSET Leads
    BY DEF LeadsIn
  <2> HIDE DEF A, in
  <2> QED BY <2>1, CatalogAssumption, FS_Subset
<1>7. Count(TotalKey, h)' = Count(TotalKey, h) + (IF here /\ ~Exists(leads[l]) THEN 1 ELSE 0)
  <2> HIDE DEF A, B, here
  <2>1. /\ Cardinality(A) \in Nat
        /\ Cardinality(B) = Cardinality(A) + (IF l \in B THEN 1 ELSE 0) - (IF l \in A THEN 1 ELSE 0)
    BY <1>5, <1>6, OneApart
  <2> QED BY <1>3, <1>4, <2>1
<1>8. ASSUME NEW s
      PROVE  Count(StatusKey(s), h)' = Count(StatusKey(s), h)
                  + (IF here /\ leads'[l].status = s THEN 1 ELSE 0)
                  - (IF here /\ Exists(leads[l]) /\ leads[l].status = s THEN 1 ELSE 0)
  <2>1. out(s) \ {l} = in(s) \ {l}
    BY <1>1 DEF LeadsIn
  <2>2. /\ l \in in(s) <=> here /\ Exists(leads[l]) /\ leads[l].status = s
        /\ l \in out(s) <=> here /\ leads'[l].status = s
    BY <1>4
  <2> HIDE DEF A, B, here, in, out
  <2>3. /\ Cardinality(in(s)) \in Nat
        /\ Cardinality(out(s)) = Cardinality(in(s)) + (IF l \in out(s) THEN 1 ELSE 0)
                                                    - (IF l \in in(s) THEN 1 ELSE 0)
    BY <1>6, <2>1, OneApart
  <2> QED BY <1>3, <2>2, <2>3
<1> QED BY <1>7, <1>8

\* New audit rows add to the activity count of their shard.
LEMMA ActivityCounts ==
    ASSUME IsFiniteSet(audits), NEW rows, IsFiniteSet(rows), rows \cap audits = {},
           audits' = audits \cup rows, NEW h
    PROVE  /\ Cardinality({a \in rows : ShardOf[a[1]] = h}) \in Nat
           /\ Count(ActivityKey, h)' = Count(ActivityKey, h)
                  + Cardinality({a \in rows : ShardOf[a[1]] = h})
<1> DEFINE S == {a \in audits : ShardOf[a[1]] = h}
           T == {a \in rows : ShardOf[a[1]] = h}
           U == {a \in audits' : ShardOf[a[1]] = h}
<1>1. Count(ActivityKey, h) = Cardinality(S) /\ Count(ActivityKey, h)' = Cardinality(U)
  <2> DEFINE k == ActivityKey
  <2>1. Count(k, h) = Cardinality(S)
    BY KeysDiffer DEF Count
  <2>2. Count(k, h)' = Cardinality(U)
    BY KeysDiffer DEF Count
  <2> QED BY <2>1, <2>2
<1>2. U = S \cup T /\ S \cap T = {} /\ S \in SUBSET audits /\ T \in SUBSET rows
  OBVIOUS
<1> HIDE DEF S, T, U
<1>3. IsFiniteSet(S) /\ IsFiniteSet(T)
  BY <1>2, FS_Subset
<1>4. Cardinality(S) \in Nat /\ Cardinality(T) \in Nat
  BY <1>3, FS_CardinalityType
<1>5. Cardinality(U) = Cardinality(S) + Cardinality(T) - Cardinality({})
  BY <1>2, <1>3, FS_Union
<1>6. Count(ActivityKey, h)' = Count(ActivityKey, h) + Cardinality(T)
  BY <1>1, <1>4, <1>5, FS_EmptySet
<1>7. QED
  BY <1>4, <1>6 DEF T

\* Counters that follow the counts, key by key, stay exact.
LEMMA AccountIsExact ==
    ASSUME IInv, NEW rows, NEW up, NEW down, Account(rows, up, down),
           IsFiniteSet(rows), rows \cap audits = {},
           \A h : <<ActivityKey, h>> \notin up \cup down,
           \A k \in Keys \ {ActivityKey}, h \in Shards :
               Count(k, h)' = Count(k, h) + (IF <<k, h>> \in up THEN 1 ELSE 0)
                                          - (IF <<k, h>> \in down THEN 1 ELSE 0)
    PROVE  CountersAreExact' /\ counters' \in [Keys \X Shards -> Int]
<1> DEFINE recorded(c) == {a \in rows : c = <<ActivityKey, ShardOf[a[1]]>>}
<1>1. /\ audits' = audits \cup rows
      /\ counters' = [c \in Keys \X Shards |->
             counters[c] + Cardinality(recorded(c)) + (IF c \in up THEN 1 ELSE 0)
                         - (IF c \in down THEN 1 ELSE 0)]
  BY DEF Account
<1>2. IsFiniteSet(audits) /\ counters = Tally /\ counters \in [Keys \X Shards -> Int]
  BY DEF IInv, AuditsPast, CountersAreExact, TypeOK, RowType
<1>3. ASSUME NEW k \in Keys, NEW h \in Shards
      PROVE  counters'[<<k, h>>] = Count(k, h)' /\ counters'[<<k, h>>] \in Int
  <2>1. /\ counters[<<k, h>>] = Count(k, h) /\ counters[<<k, h>>] \in Int
    BY <1>2 DEF Tally
  <2>2. counters'[<<k, h>>] = Count(k, h) + Cardinality(recorded(<<k, h>>))
            + (IF <<k, h>> \in up THEN 1 ELSE 0) - (IF <<k, h>> \in down THEN 1 ELSE 0)
    <3> HIDE DEF recorded
    <3> QED BY <1>1, <2>1
  <2>3. CASE k = ActivityKey
    <3>1. recorded(<<k, h>>) = {a \in rows : ShardOf[a[1]] = h}
      BY <2>3
    <3> HIDE DEF recorded
    <3>2. /\ Cardinality(recorded(<<k, h>>)) \in Nat
          /\ Count(k, h)' = Count(k, h) + Cardinality(recorded(<<k, h>>))
      BY <1>1, <1>2, <2>3, <3>1, ActivityCounts
    <3> QED BY <2>1, <2>2, <2>3, <3>2
  <2>4. CASE k # ActivityKey
    <3>1. recorded(<<k, h>>) = {}
      BY <2>4
    <3>2. Cardinality(recorded(<<k, h>>)) = 0
      BY <3>1, FS_EmptySet
    <3> HIDE DEF recorded
    <3>3. Count(k, h)' = Count(k, h) + (IF <<k, h>> \in up THEN 1 ELSE 0)
                                     - (IF <<k, h>> \in down THEN 1 ELSE 0)
      BY <2>4
    <3> QED BY <2>1, <2>2, <3>2, <3>3
  <2> QED BY <2>3, <2>4
<1> HIDE DEF recorded
<1>4. \A c \in Keys \X Shards : c = <<c[1], c[2]>> /\ c[1] \in Keys /\ c[2] \in Shards
  OBVIOUS
<1>5. \A c \in Keys \X Shards : counters'[c] = Count(c[1], c[2])' /\ counters'[c] \in Int
  BY <1>3, <1>4
<1>6. counters' = [c \in Keys \X Shards |-> counters'[c]]
  BY <1>1
<1>7. Tally' = [c \in Keys \X Shards |-> Count(c[1], c[2])']
  BY DEF Tally
<1> QED BY <1>5, <1>6, <1>7 DEF CountersAreExact

\* Counts are numbers.
LEMMA CountIsNat ==
    ASSUME IInv, NEW k, NEW h
    PROVE  Count(k, h) \in Nat
<1>1. IsFiniteSet(audits) /\ IsFiniteSet(Leads)
  BY CatalogAssumption DEF IInv, AuditsPast
<1>2. /\ {a \in audits : ShardOf[a[1]] = h} \in SUBSET audits /\ LeadsIn(h) \in SUBSET Leads
      /\ {l \in LeadsIn(h) : leads[l].status = k[2]} \in SUBSET Leads
  BY DEF LeadsIn
<1>3. /\ Cardinality({a \in audits : ShardOf[a[1]] = h}) \in Nat
      /\ Cardinality(LeadsIn(h)) \in Nat
      /\ Cardinality({l \in LeadsIn(h) : leads[l].status = k[2]}) \in Nat
  BY <1>1, <1>2, FS_Subset, FS_CardinalityType
<1> QED BY <1>3 DEF Count

-----------------------------------------------------------------------------
(* The invariant through every action. *)

\* What every commit has in common: its locks go, and rows it has not locked stay.
LEMMA CommitStep ==
    ASSUME IInv, NEW t \in Txns, NEW kind, Commit(t, kind), kind # "idle",
           RowType', AuditsPast', LeadsHaveStatus', DefaultIsActive', CountersAreExact',
           \A u \in Txns \ {t} : \A k \in DOMAIN seen[u] : Row(k)' = Row(k),
           \A l \in Leads : Later(leads[l], leads'[l]),
           \A s \in Statuses : Later(statuses[s], statuses'[s]),
           \A s \in Statuses :
               /\ ~Exists(statuses[s])
               /\ ~(request[t].kind = "create" /\ request[t].status = s)
               => statuses'[s] = statuses[s]
    PROVE  IInv'
<1>1. /\ request' = [request EXCEPT ![t] = Idle] /\ seen' = [seen EXCEPT ![t] = <<>>]
      /\ requests' = requests
  BY CommitFacts
<1>2. Exclusive' /\ Guarded' /\ Current'
  BY <1>1, CommitKeepsLocks
<1>3. RequestsHold'
  BY <1>1, CommitKeepsRequests
<1>4. TypeOK'
  <2>1. TypeOK
    BY DEF IInv
  <2>2. Idle \in RequestType
    BY DEF Idle, RequestType
  <2>3. request' \in [Txns -> RequestType] /\ DOMAIN seen' = Txns
    BY <1>1, <2>1, <2>2 DEF TypeOK
  <2>4. \A u \in Txns : ~Busy(u)' => DOMAIN seen'[u] = {}
    BY <1>1, <2>1 DEF TypeOK, Busy
  <2> QED BY <1>1, <2>1, <2>3, <2>4 DEF TypeOK
<1> QED BY <1>2, <1>3, <1>4 DEF IInv

\* Commits that write a lead.
LEMMA LeadCommitStep ==
    ASSUME IInv, NEW t \in Txns, NEW kind, Commit(t, kind), kind # "idle",
           NEW l, NEW rows, LeadWrite(t, l, rows),
           CountersAreExact', counters' \in [Keys \X Shards -> Int]
    PROVE  IInv'
<1>1. /\ settings' = settings /\ statuses' = statuses /\ leads' \in [Leads -> LeadRecord]
      /\ l \in Leads /\ leads'[l].version = leads[l].version + 1
      /\ \A x \in Leads \ {l} : leads'[x] = leads[x]
      /\ audits' = audits \cup rows
  BY DEF LeadWrite
<1>2. /\ RowType /\ DefaultIsActive /\ leads[l].version \in Nat
  BY <1>1 DEF IInv, TypeOK, RowType, LeadRecord
<1>3. AuditsPast' /\ LeadsHaveStatus' /\ rows \subseteq Entities \X Nat
  BY LeadWriteAudits
<1>4. RowType'
  BY <1>1, <1>2, <1>3 DEF RowType
<1>5. DefaultIsActive'
  BY <1>1, <1>2 DEF DefaultIsActive, Active
<1>6. \A x \in Leads : Later(leads[x], leads'[x])
  BY <1>1, <1>2 DEF Later
<1>7. \A s \in Statuses : Later(statuses[s], statuses'[s])
  BY <1>1 DEF Later
<1>8. \A u \in Txns \ {t} : \A k \in DOMAIN seen[u] : Row(k)' = Row(k)
  BY LeadWriteKeepsRows
<1> QED BY <1>1, <1>3, <1>4, <1>5, <1>6, <1>7, <1>8, CommitStep

\* A status change moves the lead from one status count to another.
LEMMA AssignStep ==
    ASSUME IInv, NEW t \in Txns, CommitAssign(t)
    PROVE  IInv'
<1> DEFINE l == request[t].lead
           s0 == leads[l].status
           s1 == request[t].status
           h0 == ShardOf[<<"lead", l>>]
           rows == {<<<<"lead", l>>, leads[l].version + 1>>}
           up == {<<StatusKey(s1), h0>>}
           down == {<<StatusKey(s0), h0>>}
<1>1. LeadWrite(t, l, rows)
  BY AssignWrites
<1>2. /\ Account(rows, up, down) /\ Exists(leads[l]) /\ l \in Leads
      /\ leads' = [leads EXCEPT ![l] = [version |-> leads[l].version + 1, status |-> s1]]
  BY AssignCommit
<1>3. leads'[l].status = s1
  BY <1>2 DEF IInv, TypeOK, RowType
<1>4. IsFiniteSet(rows) /\ rows \cap audits = {}
  <2> HIDE DEF rows
  <2> QED BY <1>1, LeadWriteAudits
<1>5. \A h : <<ActivityKey, h>> \notin up \cup down
  BY KeysDiffer
<1>6. ASSUME NEW k \in Keys \ {ActivityKey}, NEW h \in Shards
      PROVE  Count(k, h)' = Count(k, h) + (IF <<k, h>> \in up THEN 1 ELSE 0)
                                        - (IF <<k, h>> \in down THEN 1 ELSE 0)
  <2> DEFINE here == ShardOf[<<"lead", l>>] = h
  <2> HIDE DEF rows
  <2>1. /\ Count(TotalKey, h)' = Count(TotalKey, h) +
               (IF here /\ ~Exists(leads[l]) THEN 1 ELSE 0)
        /\ \A s : Count(StatusKey(s), h)' = Count(StatusKey(s), h)
               + (IF here /\ leads'[l].status = s THEN 1 ELSE 0)
               - (IF here /\ Exists(leads[l]) /\ leads[l].status = s THEN 1 ELSE 0)
    <3> HIDE DEF l
    <3> QED BY <1>1, LeadCounts
  <2>2. CASE k = TotalKey
    <3>1. <<k, h>> \notin up /\ <<k, h>> \notin down
      BY <2>2, KeysDiffer
    <3>2. Count(k, h)' = Count(k, h) + 0
      BY <1>2, <2>1, <2>2
    <3> HIDE DEF up, down
    <3>3. Count(k, h) \in Int
      BY CountIsNat
    <3> QED BY <3>1, <3>2, <3>3
  <2>3. ASSUME NEW s \in Statuses, k = StatusKey(s)
        PROVE  Count(k, h)' = Count(k, h) + (IF <<k, h>> \in up THEN 1 ELSE 0)
                                          - (IF <<k, h>> \in down THEN 1 ELSE 0)
    <3>1. <<k, h>> \in up <=> here /\ s1 = s
      BY <2>3, KeysDiffer
    <3>2. <<k, h>> \in down <=> here /\ s0 = s
      BY <2>3, KeysDiffer
    <3> HIDE DEF up, down
    <3> QED BY <1>2, <1>3, <2>1, <2>3, <3>1, <3>2
  <2> QED BY <2>2, <2>3 DEF Keys
<1> HIDE DEF rows, up, down
<1>7. CountersAreExact' /\ counters' \in [Keys \X Shards -> Int]
  BY <1>2, <1>4, <1>5, <1>6, AccountIsExact
<1>8. Commit(t, "assign")
  BY DEF CommitAssign
<1> QED BY <1>1, <1>7, <1>8, LeadCommitStep

\* A new lead is counted in its status and in the total.
LEMMA NewLeadStep ==
    ASSUME IInv, NEW t \in Txns, CommitNewLead(t)
    PROVE  IInv'
<1> DEFINE l == request[t].lead
           s1 == settings.default
           h0 == ShardOf[<<"lead", l>>]
           rows == {<<<<"lead", l>>, 1>>}
           up == {<<StatusKey(s1), h0>>, <<TotalKey, h0>>}
<1>1. LeadWrite(t, l, rows)
  BY NewLeadWrites
<1>2. /\ Account(rows, up, {}) /\ l \in Leads /\ leads[l].version = 0
      /\ leads' = [leads EXCEPT ![l] = [version |-> 1, status |-> s1]]
  BY NewLeadCommit
<1>3. leads'[l].status = s1 /\ ~Exists(leads[l])
  BY <1>2 DEF IInv, TypeOK, RowType, Exists
<1>4. IsFiniteSet(rows) /\ rows \cap audits = {}
  <2> HIDE DEF rows
  <2> QED BY <1>1, LeadWriteAudits
<1>5. \A h : <<ActivityKey, h>> \notin up \cup {}
  BY KeysDiffer
<1>6. ASSUME NEW k \in Keys \ {ActivityKey}, NEW h \in Shards
      PROVE  Count(k, h)' = Count(k, h) + (IF <<k, h>> \in up THEN 1 ELSE 0)
                                        - (IF <<k, h>> \in {} THEN 1 ELSE 0)
  <2> DEFINE here == ShardOf[<<"lead", l>>] = h
  <2> HIDE DEF rows
  <2>1. /\ Count(TotalKey, h)' = Count(TotalKey, h) +
               (IF here /\ ~Exists(leads[l]) THEN 1 ELSE 0)
        /\ \A s : Count(StatusKey(s), h)' = Count(StatusKey(s), h)
               + (IF here /\ leads'[l].status = s THEN 1 ELSE 0)
               - (IF here /\ Exists(leads[l]) /\ leads[l].status = s THEN 1 ELSE 0)
    <3> HIDE DEF l
    <3> QED BY <1>1, LeadCounts
  <2>2. Count(k, h) \in Nat
    BY CountIsNat
  <2>3. CASE k = TotalKey
    <3>1. <<k, h>> \in up <=> here
      BY <2>3, KeysDiffer
    <3> HIDE DEF up
    <3> QED BY <1>3, <2>1, <2>2, <2>3, <3>1
  <2>4. ASSUME NEW s \in Statuses, k = StatusKey(s)
        PROVE  Count(k, h)' = Count(k, h) + (IF <<k, h>> \in up THEN 1 ELSE 0)
                                          - (IF <<k, h>> \in {} THEN 1 ELSE 0)
    <3>1. <<k, h>> \in up <=> here /\ s1 = s
      BY <2>4, KeysDiffer
    <3> HIDE DEF up
    <3> QED BY <1>3, <2>1, <2>2, <2>4, <3>1
  <2> QED BY <2>3, <2>4 DEF Keys
<1> HIDE DEF rows, up
<1>7. CountersAreExact' /\ counters' \in [Keys \X Shards -> Int]
  BY <1>2, <1>4, <1>5, <1>6, AccountIsExact
<1>8. Commit(t, "arrive")
  BY DEF CommitNewLead
<1> QED BY <1>1, <1>7, <1>8, LeadCommitStep

\* New contact data leave the counts of leads alone.
LEMMA ContactStep ==
    ASSUME IInv, NEW t \in Txns, CommitContact(t)
    PROVE  IInv'
<1> DEFINE l == request[t].lead
           rows == IF request[t].changed
                   THEN {<<<<"lead", l>>, leads[l].version + 1>>} ELSE {}
<1>1. LeadWrite(t, l, rows)
  BY ContactWrites
<1>2. /\ Account(rows, {}, {}) /\ l \in Leads /\ Exists(leads[l])
      /\ leads' = [leads EXCEPT ![l].version = leads[l].version + 1]
  BY ContactCommit
<1>3. leads'[l].status = leads[l].status
  BY <1>2 DEF IInv, TypeOK, RowType, LeadRecord
<1> HIDE DEF rows
<1>4. IsFiniteSet(rows) /\ rows \cap audits = {}
  BY <1>1, LeadWriteAudits
<1>5. ASSUME NEW k \in Keys \ {ActivityKey}, NEW h \in Shards
      PROVE  Count(k, h)' = Count(k, h) + (IF <<k, h>> \in {} THEN 1 ELSE 0)
                                        - (IF <<k, h>> \in {} THEN 1 ELSE 0)
  <2> DEFINE here == ShardOf[<<"lead", l>>] = h
  <2>1. /\ Count(TotalKey, h)' = Count(TotalKey, h) +
               (IF here /\ ~Exists(leads[l]) THEN 1 ELSE 0)
        /\ \A s : Count(StatusKey(s), h)' = Count(StatusKey(s), h)
               + (IF here /\ leads'[l].status = s THEN 1 ELSE 0)
               - (IF here /\ Exists(leads[l]) /\ leads[l].status = s THEN 1 ELSE 0)
    BY <1>1, LeadCounts
  <2>2. Count(k, h) \in Nat
    BY CountIsNat
  <2>3. CASE k = TotalKey
    BY <1>2, <2>1, <2>2, <2>3
  <2>4. ASSUME NEW s \in Statuses, k = StatusKey(s) PROVE Count(k, h)' = Count(k, h)
    BY <1>2, <1>3, <2>1, <2>2, <2>4
  <2> QED BY <2>2, <2>3, <2>4 DEF Keys
<1>6. CountersAreExact' /\ counters' \in [Keys \X Shards -> Int]
  BY <1>2, <1>4, <1>5, AccountIsExact
<1>7. Commit(t, "arrive")
  BY DEF CommitContact
<1> QED BY <1>1, <1>6, <1>7, LeadCommitStep

\* All four status commits: the counts of the leads stay.
LEMMA StatusCommitStep ==
    ASSUME IInv, NEW t \in Txns, NEW kind, Commit(t, kind), kind # "idle", NEW ids,
           StatusWrite(t, ids),
           Account({<<<<"status", s>>, statuses[s].version + 1>> : s \in ids}, {}, {})
    PROVE  IInv'
<1> DEFINE rows == {<<<<"status", s>>, statuses[s].version + 1>> : s \in ids}
<1>1. /\ AuditsPast' /\ LeadsHaveStatus' /\ IsFiniteSet(rows) /\ rows \cap audits = {}
      /\ rows \subseteq Entities \X Nat
  BY StatusWriteAudits
<1> HIDE DEF rows
<1>2. Account(rows, {}, {})
  BY DEF rows
<1>3. /\ ids \subseteq Statuses /\ leads' = leads /\ audits' = audits \cup rows
      /\ statuses' \in [Statuses -> StatusRecord] /\ DefaultIsActive'
      /\ settings' \in [default : Statuses, catalogVersion : Nat]
      /\ \A s \in ids : /\ statuses'[s].version = statuses[s].version + 1
                        /\ ~Exists(statuses[s]) => /\ request[t].kind = "create"
                                                   /\ request[t].status = s
      /\ \A s \in Statuses \ ids : statuses'[s] = statuses[s]
  BY DEF StatusWrite, rows
<1>4. RowType /\ \A s \in Statuses : statuses[s].version \in Nat
  BY DEF IInv, TypeOK, RowType, StatusRecord
<1>5. ASSUME NEW k \in Keys \ {ActivityKey}, NEW h \in Shards
      PROVE  Count(k, h)' = Count(k, h) + (IF <<k, h>> \in {} THEN 1 ELSE 0)
                                        - (IF <<k, h>> \in {} THEN 1 ELSE 0)
  <2>1. LeadsIn(h)' = LeadsIn(h)
    BY <1>3 DEF LeadsIn
  <2>2. Count(k, h)' = Count(k, h)
    BY <1>3, <2>1 DEF Count
  <2>3. Count(k, h) \in Nat
    BY CountIsNat
  <2> QED BY <2>2, <2>3
<1>6. CountersAreExact' /\ counters' \in [Keys \X Shards -> Int]
  BY <1>1, <1>2, <1>5, AccountIsExact
<1>7. RowType'
  BY <1>1, <1>3, <1>4, <1>6 DEF RowType
<1>8. \A l \in Leads : Later(leads[l], leads'[l])
  BY <1>3 DEF Later
<1>9. \A s \in Statuses : Later(statuses[s], statuses'[s])
  BY <1>3, <1>4 DEF Later
<1>10. \A u \in Txns \ {t} : \A k \in DOMAIN seen[u] : Row(k)' = Row(k)
  BY StatusWriteKeepsRows
<1> QED BY <1>1, <1>3, <1>6, <1>7, <1>8, <1>9, <1>10, CommitStep

\* The commits of the status catalogue, one by one.
LEMMA CreateStep ==
    ASSUME IInv, NEW t \in Txns, CommitCreate(t)
    PROVE  IInv'
<1> DEFINE s == request[t].status
<1>1. StatusWrite(t, {s})
  BY CreateWrites
<1>2. Account({<<<<"status", s>>, 1>>}, {}, {}) /\ statuses[s].version = 0
  <2>1. s \in Statuses /\ ~Exists(statuses[s]) /\ Account({<<<<"status", s>>, 1>>}, {}, {})
    BY CreateCommit
  <2> QED BY <2>1 DEF IInv, TypeOK, RowType, StatusRecord, Exists
<1>3. {<<<<"status", x>>, statuses[x].version + 1>> : x \in {s}} = {<<<<"status", s>>, 1>>}
  BY <1>2
<1>4. Commit(t, "create")
  BY DEF CommitCreate
<1> QED BY <1>1, <1>2, <1>3, <1>4, StatusCommitStep

\* An edit keeps the invariant.
LEMMA UpdateStep ==
    ASSUME IInv, NEW t \in Txns, CommitUpdate(t)
    PROVE  IInv'
<1> DEFINE s == request[t].status
<1>1. StatusWrite(t, {s})
  BY UpdateWrites
<1>2. Account({<<<<"status", s>>, statuses[s].version + 1>>}, {}, {})
  BY UpdateCommit
<1>3. {<<<<"status", x>>, statuses[x].version + 1>> : x \in {s}} =
          {<<<<"status", s>>, statuses[s].version + 1>>}
  OBVIOUS
<1>4. Commit(t, "update")
  BY DEF CommitUpdate
<1> QED BY <1>1, <1>2, <1>3, <1>4, StatusCommitStep

\* Archiving keeps the invariant.
LEMMA ArchiveStep ==
    ASSUME IInv, NEW t \in Txns, CommitArchive(t)
    PROVE  IInv'
<1> DEFINE s == request[t].status
<1>1. StatusWrite(t, {s})
  BY ArchiveWrites
<1>2. Account({<<<<"status", s>>, statuses[s].version + 1>>}, {}, {})
  BY ArchiveCommit
<1>3. {<<<<"status", x>>, statuses[x].version + 1>> : x \in {s}} =
          {<<<<"status", s>>, statuses[s].version + 1>>}
  OBVIOUS
<1>4. Commit(t, "archive")
  BY DEF CommitArchive
<1> QED BY <1>1, <1>2, <1>3, <1>4, StatusCommitStep

\* A reorder keeps the invariant.
LEMMA ReorderStep ==
    ASSUME IInv, NEW t \in Txns, CommitReorder(t)
    PROVE  IInv'
<1> DEFINE items == request[t].items
           moved == {items[i] : i \in {j \in DOMAIN items : statuses[items[j]].position # j - 1}}
<1>1. StatusWrite(t, moved)
  BY ReorderWrites
<1>2. Account({<<<<"status", s>>, statuses'[s].version>> : s \in moved}, {}, {})
  BY ReorderCommit
<1> HIDE DEF moved
<1>3. \A s \in moved : statuses'[s].version = statuses[s].version + 1
  BY <1>1 DEF StatusWrite
<1>4. {<<<<"status", s>>, statuses'[s].version>> : s \in moved} =
          {<<<<"status", s>>, statuses[s].version + 1>> : s \in moved}
  BY <1>3
<1>5. Account({<<<<"status", s>>, statuses[s].version + 1>> : s \in moved}, {}, {})
  BY <1>2, <1>4
<1>6. Commit(t, "reorder")
  BY DEF CommitReorder
<1> QED BY <1>1, <1>5, <1>6, StatusCommitStep

\* A rebuild finds the counters exact and leaves them so: nobody writes meanwhile.
LEMMA RebuildStep ==
    ASSUME IInv, NEW t \in Txns, CommitRebuild(t)
    PROVE  IInv'
<1>1. /\ counters' = Tally /\ settings' = settings /\ statuses' = statuses
      /\ leads' = leads /\ audits' = audits
  BY RebuildCommit
<1>2. /\ RowType /\ AuditsPast /\ LeadsHaveStatus /\ DefaultIsActive /\ CountersAreExact
  BY DEF IInv, TypeOK
<1>3. Tally' = Tally
  BY <1>1 DEF Tally, Count, LeadsIn
<1>4. counters' = counters
  BY <1>1, <1>2 DEF CountersAreExact
<1>5. RowType' /\ AuditsPast' /\ LeadsHaveStatus' /\ DefaultIsActive' /\ CountersAreExact'
  BY <1>1, <1>2, <1>3, <1>4
     DEF RowType, AuditsPast, StatusAudits, LeadsHaveStatus, DefaultIsActive, Active,
         CountersAreExact
<1>6. /\ \A l \in Leads : Later(leads[l], leads'[l])
      /\ \A s \in Statuses : Later(statuses[s], statuses'[s])
      /\ \A k : Row(k)' = Row(k)
  BY <1>1, <1>3 DEF Later, Row
<1>7. Commit(t, "rebuild")
  BY DEF CommitRebuild
<1> QED BY <1>1, <1>5, <1>6, <1>7, CommitStep

\* A transaction that gives up changes no row.
LEMMA RollbackStep ==
    ASSUME IInv, NEW t \in Txns, Rollback(t)
    PROVE  IInv'
<1>1. /\ request' = [request EXCEPT ![t] = Idle] /\ seen' = [seen EXCEPT ![t] = <<>>]
      /\ requests' = requests /\ settings' = settings /\ statuses' = statuses
      /\ leads' = leads /\ audits' = audits /\ counters' = counters
  BY DEF Rollback, Release
<1>2. Tally' = Tally
  BY <1>1 DEF Tally, Count, LeadsIn
<1>3. /\ \A l \in Leads : Later(leads[l], leads'[l])
      /\ \A s \in Statuses : Later(statuses[s], statuses'[s])
      /\ \A k : Row(k)' = Row(k)
  BY <1>1, <1>2 DEF Later, Row
<1>4. Exclusive' /\ Guarded' /\ Current'
  BY <1>1, <1>3, CommitKeepsLocks
<1>5. RequestsHold'
  BY <1>1, <1>3, CommitKeepsRequests
<1>6. TypeOK
  BY DEF IInv
<1>7. TypeOK'
  <2>1. Idle \in RequestType
    BY DEF Idle, RequestType
  <2>2. request' \in [Txns -> RequestType] /\ DOMAIN seen' = Txns
    BY <1>1, <1>6, <2>1 DEF TypeOK
  <2>3. \A u \in Txns : ~Busy(u)' => DOMAIN seen'[u] = {}
    BY <1>1, <1>6 DEF TypeOK, Busy
  <2> QED BY <1>1, <1>6, <2>2, <2>3 DEF TypeOK, RowType
<1>8. LeadsHaveStatus' /\ DefaultIsActive' /\ AuditsPast' /\ CountersAreExact'
  BY <1>1, <1>2 DEF IInv, LeadsHaveStatus, DefaultIsActive, Active, AuditsPast, StatusAudits,
                    CountersAreExact
<1> QED BY <1>4, <1>5, <1>7, <1>8 DEF IInv

\* Nor does one that is granted a lock.
LEMMA AcquireStep ==
    ASSUME IInv, NEW t \in Txns, Acquire(t)
    PROVE  IInv'
<1>1. Exclusive' /\ Guarded' /\ Current'
  BY AcquireKeeps, GuardedStep
<1>2. UNCHANGED <<settings, statuses, leads, audits, counters, request, requests>>
  BY DEF Acquire
<1>3. TypeOK'
  <2>1. TypeOK
    BY DEF IInv
  <2>2. DOMAIN seen' = Txns /\ \A u \in Txns \ {t} : seen'[u] = seen[u]
    BY <2>1 DEF Acquire, TypeOK
  <2>3. Busy(t)
    BY DEF Acquire, Wanted, Working
  <2>4. \A u \in Txns : ~Busy(u)' => DOMAIN seen'[u] = {}
    BY <1>2, <2>1, <2>2, <2>3 DEF TypeOK, Busy
  <2> QED BY <1>2, <2>1, <2>2, <2>4 DEF TypeOK, RowType
<1>4. RequestsHold'
  BY <1>2 DEF IInv, RequestsHold, Named
<1>5. LeadsHaveStatus' /\ DefaultIsActive' /\ AuditsPast' /\ CountersAreExact'
  BY <1>2 DEF IInv, LeadsHaveStatus, DefaultIsActive, Active, AuditsPast, StatusAudits,
              CountersAreExact, Tally, Count, LeadsIn
<1> QED BY <1>1, <1>3, <1>4, <1>5 DEF IInv

\* What a sender writes down is true when it is written.
LEMMA NewRequest ==
    ASSUME IInv,
           NEW r \in AssignRequests \cup ArriveRequests \cup CreateRequests \cup UpdateRequests
                         \cup ArchiveRequests \cup ReorderRequests \cup RebuildRequests
    PROVE  /\ r \in RequestType /\ Named(r)
           /\ r.kind = "create" => \A u \in Txns : request[u].kind = "create" =>
                                                       request[u].status # r.status
<1>1. /\ statuses \in [Statuses -> StatusRecord] /\ leads \in [Leads -> LeadRecord]
      /\ \A l \in Leads : leads[l].version \in Nat
      /\ \A s \in Statuses : statuses[s].version \in Nat
  BY DEF IInv, TypeOK, RowType, LeadRecord, StatusRecord
<1>2. /\ \A l \in Leads : Follows(leads[l], leads[l])
      /\ \A s \in Statuses : Follows(statuses[s], statuses[s])
  BY <1>1 DEF Follows
<1>3. \A s \in Active(statuses) : s \in Statuses /\ Exists(statuses[s])
  BY DEF Active, Exists
<1>4. CASE r \in AssignRequests
  <2>1. PICK l \in Leads, s \in Active(statuses) :
            /\ leads[l].version > 0
            /\ r = [kind |-> "assign", lead |-> l, status |-> s, view |-> leads[l]]
    BY <1>4 DEF AssignRequests
  <2>2. r \in [kind : {"assign"}, lead : Leads, status : Statuses, view : LeadRecord]
    BY <1>1, <1>3, <2>1
  <2>3. Named(r)
    BY <1>2, <1>3, <2>1 DEF Named, Exists
  <2> QED BY <2>1, <2>2, <2>3 DEF RequestType
<1>5. CASE r \in ArriveRequests
  <2>1. r.kind = "arrive"
    BY <1>5 DEF ArriveRequests
  <2> QED BY <1>5, <2>1 DEF RequestType, Named
<1>6. CASE r \in CreateRequests
  <2>1. PICK s \in Statuses, p \in Positions \cup {None} :
            /\ statuses[s].version = 0
            /\ \A u \in Txns : request[u].kind = "create" => request[u].status # s
            /\ r = [kind |-> "create", status |-> s, position |-> p]
    BY <1>6 DEF CreateRequests
  <2>2. r \in [kind : {"create"}, status : Statuses, position : Positions \cup {None}]
    BY <2>1
  <2>3. Named(r)
    BY <2>1 DEF Named, Exists
  <2> QED BY <2>1, <2>2, <2>3 DEF RequestType
<1>7. CASE r \in UpdateRequests
  <2> DEFINE C == ((Positions \cup {None}) \X BOOLEAN) \ {<<None, FALSE>>}
             new(s, c) == [kind |-> "update", status |-> s, view |-> statuses[s],
                           position |-> c[1], isDefault |-> c[2]]
  <2>0. UpdateRequests = {new(s, c) : s \in Active(statuses), c \in C}
    BY DEF UpdateRequests
  <2> HIDE DEF C, new
  <2>1. PICK s \in Active(statuses), c \in C : r = new(s, c)
    BY <1>7, <2>0
  <2> USE DEF C, new
  <2>2. r \in [kind : {"update"}, status : Statuses, view : StatusRecord,
               position : Positions \cup {None}, isDefault : BOOLEAN]
    <3>1. c[1] \in Positions \cup {None} /\ c[2] \in BOOLEAN
      OBVIOUS
    <3>2. PICK p, b : p = c[1] /\ b = c[2]
      OBVIOUS
    <3> QED BY <1>1, <1>3, <2>1, <3>1, <3>2
  <2>3. Named(r)
    BY <1>2, <1>3, <2>1 DEF Named
  <2> QED BY <2>1, <2>2, <2>3 DEF RequestType
<1>8. CASE r \in ArchiveRequests
  <2>1. PICK s \in Active(statuses), d \in Active(statuses) \cup {None} :
            r = [kind |-> "archive", status |-> s, view |-> statuses[s], replacement |-> d]
    BY <1>8 DEF ArchiveRequests
  <2>2. r \in [kind : {"archive"}, status : Statuses, view : StatusRecord,
               replacement : Statuses \cup {None}]
    BY <1>1, <1>3, <2>1
  <2>3. Named(r)
    BY <1>2, <1>3, <2>1 DEF Named
  <2> QED BY <2>1, <2>2, <2>3 DEF RequestType
<1>9. CASE r \in ReorderRequests
  <2> DEFINE n == Cardinality(Active(statuses))
  <2>1. PICK f \in [1 .. n -> Active(statuses)] :
            /\ \A i, j \in 1 .. n : f[i] = f[j] => i = j
            /\ r = [kind |-> "reorder", items |-> f, view |-> statuses]
    BY <1>9 DEF ReorderRequests
  <2>2. n \in Nat
    BY FiniteActive DEF IInv
  <2> HIDE DEF n
  <2>3. f \in Seq(Statuses)
    BY <1>3, <2>1, <2>2
  <2>4. r \in [kind : {"reorder"}, items : Seq(Statuses), view : [Statuses -> StatusRecord]]
    BY <1>1, <2>1, <2>3
  <2>5. Named(r)
    BY <1>2, <1>3, <2>1 DEF Named
  <2> QED BY <2>1, <2>4, <2>5 DEF RequestType
<1>10. CASE r \in RebuildRequests
  <2>1. r = [kind |-> "rebuild"]
    BY <1>10 DEF RebuildRequests
  <2> QED BY <2>1 DEF RequestType, Named
<1> QED BY <1>4, <1>5, <1>6, <1>7, <1>8, <1>9, <1>10

\* A new request says what is true when it is sent.
LEMMA ReceiveStep ==
    ASSUME IInv, NEW t \in Txns, Receive(t)
    PROVE  IInv'
<1> PICK r \in AssignRequests \cup ArriveRequests \cup CreateRequests \cup UpdateRequests
                   \cup ArchiveRequests \cup ReorderRequests \cup RebuildRequests :
        request' = [request EXCEPT ![t] = r]
  BY DEF Receive
<1>1. /\ r \in RequestType /\ Named(r)
      /\ r.kind = "create" => \A u \in Txns : request[u].kind = "create" =>
                                                  request[u].status # r.status
  BY NewRequest
<1>2. /\ UNCHANGED <<settings, statuses, leads, audits, counters, seen>>
      /\ requests' = requests + 1 /\ requests < MaxRequests /\ ~Busy(t)
  BY DEF Receive
<1>3. TypeOK /\ RequestsHold
  BY DEF IInv
<1>4. request'[t] = r /\ \A u \in Txns \ {t} : request'[u] = request[u]
  BY <1>3 DEF TypeOK
<1>5. TypeOK'
  <2>1. request' \in [Txns -> RequestType]
    BY <1>1, <1>3 DEF TypeOK
  <2>2. requests' \in 0 .. MaxRequests
    BY <1>2, <1>3, CatalogAssumption DEF TypeOK
  <2>3. \A u \in Txns : ~Busy(u)' => DOMAIN seen'[u] = {}
    BY <1>2, <1>3, <1>4 DEF TypeOK, Busy
  <2> QED BY <1>2, <1>3, <2>1, <2>2, <2>3 DEF TypeOK, RowType
<1>6. RequestsHold'
  <2>1. Named(r)'
    BY <1>1, <1>2 DEF Named
  <2>2. \A u \in Txns : Named(request[u])'
    <3> SUFFICES ASSUME NEW u \in Txns PROVE Named(request[u])'
      OBVIOUS
    <3>1. PICK q : q = request'[u] /\ Named(q)
      BY <1>1, <1>3, <1>4 DEF RequestsHold
    <3>2. Named(q)'
      BY <1>2, <3>1 DEF Named
    <3> QED BY <3>1, <3>2 DEF Named
  <2> QED BY <1>1, <1>3, <1>4, <2>2 DEF RequestsHold
<1>7. Tally' = Tally
  BY <1>2 DEF Tally, Count, LeadsIn
<1>8. Exclusive' /\ Guarded' /\ Current'
  <2>1. \A k : Row(k)' = Row(k)
    BY <1>2, <1>7 DEF Row
  <2>2. Exclusive'
    BY <1>2 DEF IInv, Exclusive, Excludes
  <2>3. Guarded'
    BY <1>2 DEF IInv, Guarded, Under, Holds, SettingsShare, SettingsUpdate, Freeze
  <2>4. Current'
    BY <1>2, <2>1 DEF IInv, Current
  <2> QED BY <2>2, <2>3, <2>4
<1>9. LeadsHaveStatus' /\ DefaultIsActive' /\ AuditsPast' /\ CountersAreExact'
  BY <1>2, <1>7 DEF IInv, LeadsHaveStatus, DefaultIsActive, Active, AuditsPast, StatusAudits,
                    CountersAreExact
<1> QED BY <1>5, <1>6, <1>8, <1>9 DEF IInv

\* The seeded catalogue satisfies the invariant.
LEMMA InitStep == Init => IInv
<1> SUFFICES ASSUME Init PROVE IInv
  OBVIOUS
<1> DEFINE first(s) == CHOOSE i \in 1 .. Len(Seeded) : Seeded[i] = s
<1>1. /\ Len(Seeded) \in Nat /\ 1 \in 1 .. Len(Seeded)
      /\ \A i \in 1 .. Len(Seeded) : Seeded[i] \in Statuses
  BY CatalogAssumption
<1>2. \A s \in Statuses : (\E i \in 1 .. Len(Seeded) : Seeded[i] = s) =>
          first(s) \in 1 .. Len(Seeded) /\ Seeded[first(s)] = s /\ first(s) - 1 \in Nat
  <2> SUFFICES ASSUME NEW s \in Statuses, NEW i \in 1 .. Len(Seeded), Seeded[i] = s
               PROVE  first(s) \in 1 .. Len(Seeded) /\ Seeded[first(s)] = s /\ first(s) - 1 \in Nat
    OBVIOUS
  <2>1. first(s) \in 1 .. Len(Seeded) /\ Seeded[first(s)] = s
    OBVIOUS
  <2> HIDE DEF first
  <2> QED BY <1>1, <2>1
<1>3. /\ settings = [default |-> Seeded[1], catalogVersion |-> 1]
      /\ statuses = [s \in Statuses |->
             IF \E i \in 1 .. Len(Seeded) : Seeded[i] = s
             THEN [version |-> 1, archived |-> FALSE, position |-> first(s) - 1] ELSE NoStatus]
      /\ leads = [l \in Leads |-> NoLead] /\ audits = {}
      /\ counters = [k \in Keys \X Shards |-> 0]
      /\ request = [t \in Txns |-> Idle] /\ seen = [t \in Txns |-> <<>>] /\ requests = 0
  BY DEF Init
<1> HIDE DEF first
<1>4. settings \in [default : Statuses, catalogVersion : Nat] /\ settings.default = Seeded[1]
      /\ settings.catalogVersion = 1
  BY <1>1, <1>3
<1>5. statuses \in [Statuses -> StatusRecord]
  BY <1>2, <1>3 DEF StatusRecord, NoStatus
<1>6. leads \in [Leads -> LeadRecord]
  BY <1>3 DEF LeadRecord, NoLead
<1>7. \A l \in Leads : leads[l].version = 0
  BY <1>3 DEF NoLead
<1>8. RowType
  BY <1>3, <1>4, <1>5, <1>6 DEF RowType
<1>9. \A t \in Txns : request[t] = Idle /\ DOMAIN seen[t] = {}
  BY <1>3
<1>10. TypeOK
  <2>1. Idle \in RequestType
    BY DEF Idle, RequestType
  <2>2. request \in [Txns -> RequestType] /\ DOMAIN seen = Txns
    BY <1>3, <2>1
  <2> QED BY <1>3, <1>8, <1>9, <2>2, CatalogAssumption DEF TypeOK
<1>11. Exclusive /\ Guarded /\ Current
  BY <1>9 DEF Exclusive, Guarded, Current
<1>12. RequestsHold
  BY <1>9 DEF RequestsHold, Named, Idle
<1>13. LeadsHaveStatus
  BY <1>7 DEF LeadsHaveStatus, Exists
<1>14. DefaultIsActive
  <2>1. Seeded[1] \in Statuses /\ statuses[Seeded[1]].version = 1
        /\ ~statuses[Seeded[1]].archived
    BY <1>1, <1>3
  <2> QED BY <1>4, <2>1 DEF DefaultIsActive, Active
<1>15. AuditsPast
  <2>1. StatusAudits = {} /\ IsFiniteSet(audits)
    BY <1>3, FS_EmptySet DEF StatusAudits
  <2>2. Cardinality(StatusAudits) = 0
    BY <2>1, FS_EmptySet
  <2>3. \A s \in Statuses : FirstAudited(s) = statuses[s].version + 1
    BY <1>3 DEF FirstAudited, NoStatus
  <2>4. \A s \in Statuses, v \in Nat :
            <<<<"status", s>>, v>> \in audits <=> v \in FirstAudited(s) .. statuses[s].version
    BY <1>3, <1>5, <2>3 DEF StatusRecord
  <2>5. \A l \in Leads, v \in Nat :
            <<<<"lead", l>>, v>> \in audits => v \in 1 .. leads[l].version
    BY <1>3
  <2>6. \A s \in Statuses : FirstAudited(s) <= statuses[s].version + 1
    BY <1>5, <2>3 DEF StatusRecord
  <2> QED BY <1>4, <2>1, <2>2, <2>4, <2>5, <2>6 DEF AuditsPast
<1>16. CountersAreExact
  <2>1. \A h : LeadsIn(h) = {}
    BY <1>7 DEF LeadsIn
  <2>2. \A k, h : Count(k, h) = 0
    <3> SUFFICES ASSUME NEW k, NEW h PROVE Count(k, h) = 0
      OBVIOUS
    <3>1. /\ {a \in audits : ShardOf[a[1]] = h} = {} /\ LeadsIn(h) = {}
          /\ {l \in LeadsIn(h) : leads[l].status = k[2]} = {}
      BY <1>3, <2>1
    <3> QED BY <3>1, FS_EmptySet DEF Count
  <2> QED BY <1>3, <2>2 DEF CountersAreExact, Tally
<1> QED BY <1>10, <1>11, <1>12, <1>13, <1>14, <1>15, <1>16 DEF IInv

\* Every step keeps the invariant.
LEMMA InvariantStep == IInv /\ [Next]_vars => IInv'
<1> SUFFICES ASSUME IInv, [Next]_vars PROVE IInv'
  OBVIOUS
<1>1. CASE Next
  BY <1>1, ReceiveStep, AcquireStep, RollbackStep, AssignStep, NewLeadStep, ContactStep,
     CreateStep, UpdateStep, ArchiveStep, ReorderStep, RebuildStep DEF Next
<1>2. CASE UNCHANGED vars
  <2>1. UNCHANGED <<settings, statuses, leads, audits, counters, request, seen, requests>>
    BY <1>2 DEF vars
  <2>2. Tally' = Tally
    BY <2>1 DEF Tally, Count, LeadsIn
  <2>3. \A k : Row(k)' = Row(k)
    BY <2>1, <2>2 DEF Row
  <2>4. TypeOK'
    BY <2>1 DEF IInv, TypeOK, RowType, Busy
  <2>5. Exclusive' /\ Current'
    BY <2>1, <2>3 DEF IInv, Exclusive, Excludes, Current
  <2>6. Guarded'
    BY <2>1 DEF IInv, Guarded, Under, Holds, SettingsShare, SettingsUpdate, Freeze
  <2>7. RequestsHold'
    BY <2>1 DEF IInv, RequestsHold, Named
  <2>8. LeadsHaveStatus' /\ DefaultIsActive' /\ AuditsPast' /\ CountersAreExact'
    BY <2>1, <2>2 DEF IInv, LeadsHaveStatus, DefaultIsActive, Active, AuditsPast, StatusAudits,
                      CountersAreExact
  <2> QED BY <2>4, <2>5, <2>6, <2>7, <2>8 DEF IInv
<1> QED BY <1>1, <1>2

\* Every reachable state satisfies the inductive invariant: what transactions have read
\* under the locks they hold is still so.
LEMMA Invariance == Spec => []IInv
BY InitStep, InvariantStep, PTL DEF Spec

\* Rows, counters and requests have their types, and a transaction that has answered
\* holds no lock.
THEOREM TypeCorrect == Spec => []TypeOK
<1>1. IInv => TypeOK
  BY DEF IInv
<1> QED BY <1>1, Invariance, PTL

\* The default status is there and active, however archiving, replacing and choosing a
\* default interleave.
THEOREM DefaultStaysActive == Spec => []DefaultIsActive
<1>1. IInv => DefaultIsActive
  BY DEF IInv
<1> QED BY <1>1, Invariance, PTL

\* The dashboard counters are the exact counts of the committed rows, shard by shard.
THEOREM CountersStayExact == Spec => []CountersAreExact
<1>1. IInv => CountersAreExact
  BY DEF IInv
<1> QED BY <1>1, Invariance, PTL

\* Every version a status row has had but a seeded one has its audit row, and the
\* catalogue version counts them.
THEOREM CatalogStaysAudited == Spec => []CatalogIsAudited
<1>1. ASSUME IInv PROVE CatalogIsAudited
  <2>1. audits \subseteq Entities \X Nat /\ AuditsPast
    BY <1>1 DEF IInv, TypeOK, RowType
  <2>2. ASSUME NEW s \in Statuses
        PROVE  {a \in audits : a[1] = <<"status", s>>} =
                   {<<"status", s>>} \X (FirstAudited(s) .. statuses[s].version)
    <3>1. ASSUME NEW a \in audits, a[1] = <<"status", s>>
          PROVE  a \in {<<"status", s>>} \X (FirstAudited(s) .. statuses[s].version)
      <4>1. a = <<a[1], a[2]>> /\ a[2] \in Nat
        BY <2>1
      <4>2. a[2] \in FirstAudited(s) .. statuses[s].version
        BY <2>1, <3>1, <4>1 DEF AuditsPast
      <4> QED BY <3>1, <4>1, <4>2
    <3>2. ASSUME NEW v \in FirstAudited(s) .. statuses[s].version
          PROVE  <<<<"status", s>>, v>> \in audits
      <4>1. FirstAudited(s) \in {1, 2} /\ v \in Nat
        BY DEF FirstAudited
      <4> QED BY <2>1, <4>1 DEF AuditsPast
    <3> QED BY <3>1, <3>2
  <2> QED BY <2>1, <2>2 DEF CatalogIsAudited, AuditsPast, StatusAudits
<1> QED BY <1>1, Invariance, PTL

\* An edit is applied only to the row its user saw.
THEOREM EditsAreSeen == Spec => EditsWhatWasSeen
<1> DEFINE Seen(t) ==
        LET r == request[t] IN
        /\ r.kind = "assign" => leads[r.lead] = r.view
        /\ r.kind \in {"update", "archive"} => statuses[r.status] = r.view
        /\ r.kind = "reorder" =>
               \A i \in DOMAIN r.items : statuses[r.items[i]] = r.view[r.items[i]]
<1>1. ASSUME IInv, [Next]_vars, NEW t \in Txns, Commits(t) PROVE Seen(t)
  <2>1. Next
    BY <1>1 DEF Commits, vars
  <2>2. PICK u \in Txns :
            \/ Receive(u) \/ Acquire(u) \/ Rollback(u)
            \/ CommitAssign(u) \/ CommitNewLead(u) \/ CommitContact(u)
            \/ CommitCreate(u) \/ CommitUpdate(u) \/ CommitArchive(u)
            \/ CommitReorder(u) \/ CommitRebuild(u)
    BY <2>1 DEF Next
  <2>3. ~Receive(u) /\ ~Acquire(u) /\ ~Rollback(u) /\ ~CommitRebuild(u)
    BY <1>1 DEF Commits, Receive, Acquire, Rollback, CommitRebuild
  <2>4. ASSUME NEW kind, Commit(u, kind) PROVE u = t
    <3>1. request' = [request EXCEPT ![u] = Idle] /\ request \in [Txns -> RequestType]
      BY <1>1, <2>4 DEF Commit, Release, IInv, TypeOK
    <3> QED BY <1>1, <3>1 DEF Commits, Busy
  <2>5. CASE CommitAssign(u)
    <3>1. u = t
      BY <2>4, <2>5 DEF CommitAssign
    <3> QED BY <1>1, <2>5, <3>1, AssignCommit
  <2>6. CASE CommitNewLead(u)
    <3>1. u = t
      BY <2>4, <2>6 DEF CommitNewLead
    <3> QED BY <1>1, <2>6, <3>1, NewLeadCommit
  <2>7. CASE CommitContact(u)
    <3>1. u = t
      BY <2>4, <2>7 DEF CommitContact
    <3> QED BY <1>1, <2>7, <3>1, ContactCommit
  <2>8. CASE CommitCreate(u)
    <3>1. u = t
      BY <2>4, <2>8 DEF CommitCreate
    <3> QED BY <1>1, <2>8, <3>1, CreateCommit
  <2>9. CASE CommitUpdate(u)
    <3>1. u = t
      BY <2>4, <2>9 DEF CommitUpdate
    <3> QED BY <1>1, <2>9, <3>1, UpdateCommit
  <2>10. CASE CommitArchive(u)
    <3>1. u = t
      BY <2>4, <2>10 DEF CommitArchive
    <3> QED BY <1>1, <2>10, <3>1, ArchiveCommit
  <2>11. CASE CommitReorder(u)
    <3>1. u = t
      BY <2>4, <2>11 DEF CommitReorder
    <3> QED BY <1>1, <2>11, <3>1, ReorderCommit
  <2> QED BY <2>2, <2>3, <2>5, <2>6, <2>7, <2>8, <2>9, <2>10, <2>11
<1>2. IInv /\ [Next]_vars => [\A t \in Txns : Commits(t) => Seen(t)]_vars
  BY <1>1
<1> QED BY <1>2, Invariance, PTL DEF Spec, EditsWhatWasSeen

-----------------------------------------------------------------------------
(* Each commit is one operation of the Board. *)

\* The seeded catalogue is an initial Board.
LEMMA BoardInit == Init => Alone!Init
<1> SUFFICES ASSUME Init PROVE Alone!Init
  OBVIOUS
<1> DEFINE first(s) == CHOOSE i \in 1 .. Len(Seeded) : Seeded[i] = s
<1>1. /\ DOMAIN Seeded = 1 .. Len(Seeded)
      /\ \A i \in 1 .. Len(Seeded) : Seeded[i] \in Statuses
      /\ \A i, j \in 1 .. Len(Seeded) : Seeded[i] = Seeded[j] => i = j
  BY CatalogAssumption
<1>2. statuses = [s \in Statuses |->
             IF \E i \in 1 .. Len(Seeded) : Seeded[i] = s
             THEN [version |-> 1, archived |-> FALSE, position |-> first(s) - 1] ELSE NoStatus]
  BY DEF Init
<1>3. \A i \in 1 .. Len(Seeded) : first(Seeded[i]) = i
  BY <1>1
<1> HIDE DEF first
<1>4. \A i \in DOMAIN Seeded :
          statuses[Seeded[i]] = [version |-> 1, archived |-> FALSE, position |-> i - 1]
  BY <1>1, <1>2, <1>3
<1>5. \A s \in Statuses \ {Seeded[i] : i \in DOMAIN Seeded} :
          statuses[s] = [version |-> 0, archived |-> FALSE, position |-> 0]
  BY <1>1, <1>2 DEF NoStatus
<1> QED BY <1>4, <1>5 DEF Init, Alone!Init, NoLead

\* The Board counts the same statuses.
LEMMA BoardActive ==
    /\ Alone!Active = Active(statuses) /\ Alone!LastPosition = LastPosition(statuses)
    /\ \A S : Alone!Cardinality(S) = Cardinality(S)
<1>1. Alone!Active = Active(statuses) /\ Alone!LastPosition = LastPosition(statuses)
  BY DEF Alone!Active, Active, Alone!LastPosition, LastPosition
<1>2. \A S : Alone!Cardinality(S) = Cardinality(S)
  BY DEF Alone!Cardinality, Cardinality
<1> QED BY <1>1, <1>2

\* Commits that write a lead are operations of the Board on the current rows.
LEMMA LeadOperations ==
    ASSUME IInv, NEW t \in Txns, CommitAssign(t) \/ CommitNewLead(t) \/ CommitContact(t)
    PROVE  Alone!Next
<1> DEFINE l == request[t].lead
<1>1. CASE CommitAssign(t)
  <2>1. /\ l \in Leads /\ request[t].status \in Statuses
        /\ Alone!Assign(l, request[t].status)
    BY <1>1, AssignCommit, BoardActive DEF Alone!Assign, Exists
  <2> QED BY <2>1 DEF Alone!Next
<1>2. CASE CommitNewLead(t)
  <2>1. l \in Leads /\ Alone!Enter(l)
    BY <1>2, NewLeadCommit, BoardActive DEF Alone!Enter, IInv, DefaultIsActive
  <2> QED BY <2>1 DEF Alone!Next
<1>3. CASE CommitContact(t)
  <2>1. l \in Leads /\ Alone!Contact(l)
    BY <1>3, ContactCommit DEF Alone!Contact, Exists
  <2> QED BY <2>1 DEF Alone!Next
<1> QED BY <1>1, <1>2, <1>3

\* So are those that write one status.
LEMMA StatusOperations ==
    ASSUME IInv, NEW t \in Txns, CommitCreate(t) \/ CommitUpdate(t) \/ CommitArchive(t)
    PROVE  Alone!Next
<1> DEFINE s == request[t].status
<1>0. statuses \in [Statuses -> StatusRecord]
  BY DEF IInv, TypeOK, RowType
<1>1. CASE CommitCreate(t)
  <2>1. s \in Statuses /\ statuses[s].version = 0
    <3>1. s \in Statuses /\ ~Exists(statuses[s])
      BY <1>1, CreateCommit
    <3> QED BY <1>0, <3>1 DEF Exists, StatusRecord
  <2>2. Alone!Create(s)
    BY <1>1, <2>1, CreateCommit, BoardActive DEF Alone!Create, Alone!Changed
  <2> QED BY <2>1, <2>2 DEF Alone!Next
<1>2. CASE CommitUpdate(t)
  <2>1. PICK p \in Positions \cup {statuses[s].position}, d \in {s, settings.default} :
            /\ <<p, d>> # <<statuses[s].position, settings.default>>
            /\ statuses' = [statuses EXCEPT
                   ![s].position = p, ![s].version = statuses[s].version + 1]
            /\ settings' = [catalogVersion |-> settings.catalogVersion + 1, default |-> d]
    BY <1>2, UpdateCommit
  <2>2. s \in Statuses /\ s \in Alone!Active /\ leads' = leads
    BY <1>2, UpdateCommit, BoardActive
  <2>3. Alone!Changed(1, d)
    BY <2>1, <2>2 DEF Alone!Changed
  <2>4. Alone!Update(s)
    BY <2>1, <2>2, <2>3 DEF Alone!Update
  <2> QED BY <2>2, <2>4 DEF Alone!Next
<1>3. CASE CommitArchive(t)
  <2>1. s \in Statuses /\ Alone!Archive(s)
    BY <1>3, ArchiveCommit, BoardActive DEF Alone!Archive, Alone!Changed
  <2> QED BY <2>1 DEF Alone!Next
<1> QED BY <1>1, <1>2, <1>3

\* The order a reorder is sent with lists the active statuses once each, and as many
\* rows change as there are places with another status.
LEMMA ReorderOperation ==
    ASSUME IInv, NEW t \in Txns, CommitReorder(t)
    PROVE  Alone!Next
<1> DEFINE items == request[t].items
           places == {i \in DOMAIN items : statuses[items[i]].position # i - 1}
           moved == {items[i] : i \in places}
           A == Active(statuses)
<1>1. /\ items \in Seq(Statuses)
      /\ {items[i] : i \in DOMAIN items} = A
      /\ \A i, j \in DOMAIN items : items[i] = items[j] => i = j
      /\ places # {} /\ DOMAIN statuses' = Statuses
      /\ \A i \in places :
             statuses'[items[i]] = [statuses[items[i]] EXCEPT
                 !.position = i - 1, !.version = statuses[items[i]].version + 1]
      /\ \A s \in Statuses \ moved : statuses'[s] = statuses[s]
      /\ settings' = [catalogVersion |-> settings.catalogVersion + Cardinality(moved),
                      default |-> settings.default]
      /\ leads' = leads
  BY ReorderCommit
<1>2. Len(items) \in Nat /\ DOMAIN items = 1 .. Len(items)
  <2>1. items \in Seq(Statuses)
    BY <1>1
  <2> HIDE DEF items
  <2> QED BY <2>1
<1>3. items \in [1 .. Cardinality(A) -> A]
  <2> HIDE DEF items, A
  <2>0. \A i \in DOMAIN items : items[i] \in A
    BY <1>1
  <2>1. items \in [1 .. Len(items) -> A]
    <3>1. items = [i \in DOMAIN items |-> items[i]]
      <4>1. items \in Seq(Statuses)
        BY <1>1
      <4> QED BY <4>1
    <3> QED BY <1>2, <2>0, <3>1
  <2>2. items \in Bijection(1 .. Len(items), A)
    <3>1. \A a \in A : \E i \in 1 .. Len(items) : items[i] = a
      BY <1>1, <1>2
    <3> QED BY <1>1, <1>2, <2>1, <3>1 DEF Bijection, Injection, Surjection, IsInjective
  <2>3. Cardinality(A) = Len(items)
    BY <1>2, <2>2, FS_CountingElements DEF ExistsBijection
  <2> QED BY <2>1, <2>3
<1>4. Cardinality(moved) = Cardinality(places)
  <2> DEFINE f == [i \in places |-> items[i]]
  <2>1. f \in [places -> moved]
    OBVIOUS
  <2>2. \A i, j \in places : f[i] = f[j] => i = j
    BY <1>1
  <2>3. \A s \in moved : \E i \in places : f[i] = s
    OBVIOUS
  <2>4. IsFiniteSet(places)
    <3>1. places \in SUBSET (1 .. Len(items))
      BY <1>2
    <3>2. IsFiniteSet(1 .. Len(items))
      BY <1>2, FS_Interval
    <3> HIDE DEF places, items
    <3> QED BY <3>1, <3>2, FS_Subset
  <2> HIDE DEF f, moved, places, items
  <2>5. f \in Bijection(places, moved)
    BY <2>1, <2>2, <2>3 DEF Bijection, Injection, Surjection, IsInjective
  <2> QED BY <2>4, <2>5, FS_Bijection DEF ExistsBijection
<1>5. \A i \in DOMAIN items \ places : statuses'[items[i]] = statuses[items[i]]
  <2> SUFFICES ASSUME NEW i \in DOMAIN items \ places
               PROVE  statuses'[items[i]] = statuses[items[i]]
    OBVIOUS
  <2>1. items[i] \notin moved
    BY <1>1
  <2>2. items[i] \in Statuses
    <3>1. items[i] \in A
      BY <1>1
    <3> QED BY <3>1 DEF Active
  <2> HIDE DEF moved, places, items
  <2> QED BY <1>1, <2>1, <2>2
<1>6. \A s \in Statuses \ A : statuses'[s] = statuses[s]
  <2>1. moved \subseteq A
    BY <1>1
  <2> HIDE DEF moved, places, A
  <2> QED BY <1>1, <2>1
<1>7. Alone!Reorder(items)
  <2>1. \A i \in DOMAIN items :
           statuses'[items[i]] = IF i \in places
                                 THEN [statuses[items[i]] EXCEPT !.position = i - 1,
                                                                 !.version = @ + 1]
                                 ELSE statuses[items[i]]
    <3> HIDE DEF items, places
    <3> QED BY <1>1, <1>5
  <2>2. Alone!Changed(Cardinality(places), settings.default)
    <3> HIDE DEF moved, places
    <3> QED BY <1>1, <1>4 DEF Alone!Changed
  <2> QED BY <1>1, <1>6, <2>1, <2>2, BoardActive DEF Alone!Reorder
<1> QED BY <1>3, <1>7, BoardActive DEF Alone!Next

\* Transactions are serializable: every commit is one indivisible operation on the
\* current settings, statuses and leads, and nothing else changes them.
THEOREM CatalogImplementsBoard == Spec => ImplementsBoard
<1>1. Init => Alone!Init
  BY BoardInit
<1>2. IInv /\ [Next]_vars => [Alone!Next]_(Alone!board)
  <2> SUFFICES ASSUME IInv, [Next]_vars PROVE Alone!Next \/ UNCHANGED Alone!board
    OBVIOUS
  <2>1. CASE UNCHANGED vars
    BY <2>1 DEF vars, Alone!board
  <2>2. ASSUME NEW t \in Txns, Receive(t) \/ Acquire(t) \/ Rollback(t) \/ CommitRebuild(t)
        PROVE  UNCHANGED Alone!board
    BY <2>2 DEF Receive, Acquire, Rollback, CommitRebuild, Alone!board
  <2>3. CASE Next
    BY <2>2, <2>3, LeadOperations, StatusOperations, ReorderOperation DEF Next
  <2> QED BY <2>1, <2>3
<1> QED BY <1>1, <1>2, Invariance, PTL DEF Spec, ImplementsBoard, Alone!Spec

-----------------------------------------------------------------------------
(* Deadlock: a transaction has taken what comes before the locks it holds   *)
(* (InOrder), so what it asks for lies above what it holds (HeldBelow), and *)
(* along a chain of waiting transactions the rank of what is wanted grows.  *)

\* A step of its path that a transaction has reached: it holds all that comes before.
Reached(t, a) == a \in Path(t) /\ \A c \in Path(t) : Before(c, a) => Holds(t, c[3])

\* A transaction at work has taken what comes before the locks it holds.
InOrder ==
    \A t \in Txns : Working(t) =>
        \A lock \in DOMAIN seen[t] : \E a : Reached(t, a) /\ a[3] = lock

\* What a transaction is about to do depends on its own request and reads.
LEMMA OwnCourse ==
    ASSUME NEW t, request'[t] = request[t], seen'[t] = seen[t]
    PROVE  Path(t)' = Path(t) /\ Working(t)' = Working(t)
<1>1. \A lock : Holds(t, lock)' = Holds(t, lock) /\ Read(t, lock)' = Read(t, lock)
  BY DEF Holds, Read
<1>2. \A lock, path : After(t, lock, path)' = After(t, lock, path)
  BY <1>1 DEF After
<1>3. AssignPath(t)' = AssignPath(t)
  BY <1>1 DEF AssignPath, AssignHead, After
<1>4. ArrivePath(t)' = ArrivePath(t)
  BY <1>1 DEF ArrivePath, After
<1>5. CreatePath(t)' = CreatePath(t) /\ UpdatePath(t)' = UpdatePath(t)
  BY DEF CreatePath, UpdatePath
<1>6. ArchivePath(t)' = ArchivePath(t)
  BY <1>1 DEF ArchivePath, After
<1>7. Moved(t)' = Moved(t)
  BY <1>1 DEF Moved
<1>8. Active(Read(t, ReadStatuses(t)))' = Active(Read(t, ReadStatuses(t)))
  BY <1>1 DEF Active
<1>9. ReorderPath(t)' = ReorderPath(t)
  BY <1>1, <1>7, <1>8 DEF ReorderPath, After
<1>10. Path(t)' = Path(t)
  BY <1>3, <1>4, <1>5, <1>6, <1>9 DEF Path
<1>11. Settled(t)' = Settled(t)
  <2>1. Unassignable(t)' = Unassignable(t) /\ AssignSettled(t)' = AssignSettled(t)
    BY <1>1 DEF Unassignable, AssignSettled
  <2>2. CreateSettled(t)' = CreateSettled(t)
    BY <1>1, <1>8 DEF CreateSettled
  <2>3. UpdateSettled(t)' = UpdateSettled(t)
    BY <1>1 DEF UpdateSettled
  <2>4. ArchiveSettled(t)' = ArchiveSettled(t)
    BY <1>1 DEF ArchiveSettled, Irreplaceable
  <2>5. ReorderSettled(t)' = ReorderSettled(t)
    BY <1>1, <1>7, <1>8 DEF ReorderSettled
  <2> QED BY <2>1, <2>2, <2>3, <2>4, <2>5 DEF Settled
<1> QED BY <1>10, <1>11 DEF Working, Busy

\* What reading tells adds steps behind those reached, never before.
LEMMA PathGrows ==
    ASSUME IInv, InOrder, NEW t \in Txns, NEW lock \in Wanted(t), lock \notin DOMAIN seen[t],
           request' = request, DOMAIN seen'[t] = DOMAIN seen[t] \cup {lock},
           \A k \in DOMAIN seen[t] : seen'[t][k] = seen[t][k],
           NEW a, Reached(t, a), Holds(t, a[3]) \/ a[3] = lock
    PROVE  Reached(t, a)'
<1> DEFINE r == request[t]
<1>0. Working(t) /\ r \in RequestType /\ r # Idle
  BY WantedStep DEF IInv, TypeOK, Working, Busy
<1>1. \A k : Holds(t, k)' <=> Holds(t, k) \/ k = lock
  BY DEF Holds
<1>2. \A k : Holds(t, k) => Read(t, k)' = Read(t, k)
  BY DEF Holds, Read
<1>3. \A k : Holds(t, k) => \E b \in Path(t) : Reached(t, b) /\ b[3] = k
  BY <1>0 DEF InOrder, Holds, Reached
<1>4. SUFFICES a \in Path(t)' /\ \A c \in Path(t)' : Before(c, a) => c \in Path(t) \/ Holds(t, c[3])'
  BY <1>1 DEF Reached, Before
<1>5. CASE r.kind \in {"create", "update", "rebuild"}
  <2>1. Path(t)' = Path(t)
    BY <1>5 DEF Path, CreatePath, UpdatePath, RebuildPath
  <2> QED BY <2>1 DEF Reached
<1>6. CASE r.kind = "assign"
  <2>1. Path(t) = AssignPath(t) /\ Path(t)' = AssignPath(t)'
    BY <1>6 DEF Path
  <2>2. CASE Holds(t, LeadUpdate(r.lead))
    <3>1. AssignPath(t)' = AssignPath(t)
      BY <1>1, <1>2, <2>2 DEF AssignPath, AssignHead, After
    <3> QED BY <2>1, <3>1 DEF Reached
  <2>3. CASE ~Holds(t, LeadUpdate(r.lead))
    <3>1. AssignPath(t) = AssignHead(t) /\ AssignHead(t)' = AssignHead(t)
      BY <2>3 DEF AssignPath, AssignHead, After
    <3>2. \A c \in AssignPath(t)' : c \in AssignHead(t) \/ c[1] \in 4 .. 7
      BY <3>1 DEF AssignPath, After, AuditPath, Step
    <3>3. AssignHead(t) \subseteq AssignPath(t)'
      BY <3>1 DEF AssignPath
    <3>4. a[1] \in 1 .. 3
      BY <2>1, <3>1 DEF Reached, AssignHead, Step
    <3> QED BY <2>1, <3>1, <3>2, <3>3, <3>4 DEF Reached, Before
  <2> QED BY <2>2, <2>3
<1>7. CASE r.kind = "arrive"
  <2>0. Path(t) = ArrivePath(t) /\ Path(t)' = ArrivePath(t)'
    BY <1>7 DEF Path
  <2> DEFINE l == r.lead
             start == {Step(0, LeadKey(l)), Step(1, LeadUpdate(l))}
  <2>1. \A b \in ArrivePath(t) : b[3] = SettingsShare => /\ b = Step(2, SettingsShare)
                                                         /\ Holds(t, LeadUpdate(l))
    BY DEF ArrivePath, After, AuditPath, Step, LeadKey, LeadUpdate, SettingsShare, StatusShare,
           WriteTo, CounterUpdate
  <2>2. Holds(t, SettingsShare) => Holds(t, LeadUpdate(l))
    BY <1>3, <2>0, <2>1
  <2>3. lock = SettingsShare => Step(2, SettingsShare) \in Path(t) /\ Holds(t, LeadUpdate(l))
    BY <2>0, <2>1, WantedStep
  <2>4. CASE lock # LeadUpdate(l) /\ lock # SettingsShare
    <3>1. ArrivePath(t)' = ArrivePath(t)
      BY <1>1, <1>2, <2>4 DEF ArrivePath, After
    <3> QED BY <2>0, <3>1 DEF Reached
  <2>5. CASE lock = LeadUpdate(l)
    <3>1. ~Holds(t, LeadUpdate(l)) /\ ~Holds(t, SettingsShare) /\ ~Holds(t, SettingsShare)'
      BY <1>1, <2>2, <2>5 DEF Holds, LeadUpdate, SettingsShare
    <3>2. ArrivePath(t) = start
      BY <3>1 DEF ArrivePath, After
    <3>3. start \subseteq ArrivePath(t)'
      BY DEF ArrivePath
    <3>4. \A c \in ArrivePath(t)' : c \in start \/ c[1] \in 2 .. 6
      BY <3>1 DEF ArrivePath, After, AuditPath, Step
    <3>5. a[1] \in 0 .. 1
      BY <2>0, <3>2 DEF Reached, Step
    <3> QED BY <2>0, <3>2, <3>3, <3>4, <3>5 DEF Reached, Before
  <2>6. CASE lock = SettingsShare
    <3>1. Holds(t, LeadUpdate(l)) /\ Holds(t, LeadUpdate(l))' /\ ~Holds(t, SettingsShare)
      BY <1>1, <2>3, <2>6 DEF Holds
    <3>2. Read(t, LeadUpdate(l))' = Read(t, LeadUpdate(l))
      BY <1>2, <3>1
    <3>3. ArrivePath(t) \subseteq ArrivePath(t)'
      BY <3>1, <3>2 DEF ArrivePath, After
    <3>4. \A c \in ArrivePath(t)' : c \in ArrivePath(t) \/ c[1] \in {3, 7, 8}
      BY <3>1, <3>2 DEF ArrivePath, After, Step
    <3>5. \A c \in ArrivePath(t) : c[1] \in 0 .. 8
      BY DEF ArrivePath, After, AuditPath, Step
    <3>6. a[1] <= 2
      BY <2>0, <2>3, <2>6, <3>1, <3>5 DEF Reached, Before, Step
    <3> QED BY <2>0, <3>3, <3>4, <3>5, <3>6 DEF Reached, Before
  <2> QED BY <2>4, <2>5, <2>6
<1>8. CASE r.kind = "archive"
  <2>0. Path(t) = ArchivePath(t) /\ Path(t)' = ArchivePath(t)'
    BY <1>8 DEF Path
  <2>1. CASE lock # SettingsUpdate
    <3>1. ArchivePath(t)' = ArchivePath(t)
      BY <1>1, <1>2, <2>1 DEF ArchivePath, After
    <3> QED BY <2>0, <3>1 DEF Reached
  <2>2. CASE lock = SettingsUpdate
    <3>1. ~Holds(t, SettingsUpdate)
      BY <2>2 DEF Holds
    <3>2. ArchivePath(t) \subseteq ArchivePath(t)'
      BY <3>1 DEF ArchivePath, After
    <3>3. \A c \in ArchivePath(t)' : c \in ArchivePath(t) \/ c[1] = 3
      BY <3>1 DEF ArchivePath, After, Step
    <3>4. \A c \in ArchivePath(t) : c[1] \in {1, 2, 5, 6}
      BY <3>1 DEF ArchivePath, After, AuditPath, Step
    <3>5. Step(1, SettingsUpdate) \in ArchivePath(t)
      BY DEF ArchivePath
    <3>6. a[1] <= 1
      BY <2>0, <3>1, <3>4, <3>5 DEF Reached, Before, Step
    <3> QED BY <2>0, <3>2, <3>3, <3>4, <3>6 DEF Reached, Before
  <2> QED BY <2>1, <2>2
<1> DEFINE scan == ReadStatuses(t)
<1>9. CASE r.kind = "reorder"
  <2>0. Path(t) = ReorderPath(t) /\ Path(t)' = ReorderPath(t)'
    BY <1>9 DEF Path
  <2> DEFINE rows == Active(Read(t, scan))
             All == \A s \in rows : Holds(t, StatusUpdate(s))
             head == {Step(1, SettingsUpdate), Step(2, scan)}
             locks == {<<3, s, StatusUpdate(s)>> : s \in rows}
             write(i) == <<6, i, CounterUpdate(ActivityKey, ShardOf[<<"status", r.items[i]>>])>>
             writes == {Step(5, WriteTo("activities"))} \cup {write(i) : i \in Moved(t)}
  <2>1. /\ ~Holds(t, scan) => ReorderPath(t) = head
        /\ Holds(t, scan) /\ ~All => ReorderPath(t) = head \cup locks
        /\ Holds(t, scan) /\ All => ReorderPath(t) = head \cup locks \cup writes
    BY DEF ReorderPath, After
  <2>2. scan' = scan /\ head' = head
    BY DEF ReadStatuses, Step, SettingsUpdate
  <2>3. /\ ~Holds(t, scan)' => ReorderPath(t)' = head'
        /\ Holds(t, scan)' /\ ~All' => ReorderPath(t)' = (head \cup locks)'
        /\ Holds(t, scan)' /\ All' => ReorderPath(t)' = (head \cup locks \cup writes)'
    BY DEF ReorderPath, After
  <2>4. /\ \A c \in head : c[1] \in 1 .. 2
        /\ \A c \in locks : c[1] = 3
        /\ \A c \in locks' : c[1] = 3
        /\ \A c \in writes' : c[1] \in 5 .. 6
    <3>1. (\A c \in head : c[1] \in 1 .. 2) /\ (\A c \in locks : c[1] = 3)
      BY DEF Step
    <3>2. \A c \in locks' : c[1] = 3
      OBVIOUS
    <3>3. \A c \in writes' : c[1] = 5 \/ c[1] = 6
      <4>1. \A i : write(i)'[1] = 6
        OBVIOUS
      <4>2. Step(5, WriteTo("activities"))[1] = 5
        BY DEF Step
      <4> HIDE DEF write
      <4> QED BY <4>1, <4>2 DEF Step, WriteTo
    <3> QED BY <3>1, <3>2, <3>3
  <2> HIDE DEF head, locks, writes
  <2>5. head \subseteq ReorderPath(t)' /\ \A c \in ReorderPath(t)' : c \in head \/ c[1] \in 3 .. 6
    BY <2>2, <2>3, <2>4
  <2>6. CASE ~Holds(t, scan)
    <3>1. a \in head /\ a[1] \in 1 .. 2
      BY <2>0, <2>1, <2>4, <2>6 DEF Reached
    <3> QED BY <2>0, <2>1, <2>5, <2>6, <3>1 DEF Before
  <2>7. CASE Holds(t, scan)
    <3>1. Holds(t, scan)' /\ rows' = rows /\ locks' = locks
      BY <1>1, <1>2, <2>2, <2>7 DEF Active, locks
    <3>2. CASE ~All
      <4>1. a \in head \cup locks /\ a[1] \in 1 .. 3
        BY <2>0, <2>1, <2>4, <2>7, <3>2 DEF Reached
      <4>2. head \cup locks \subseteq ReorderPath(t)'
        BY <2>2, <2>3, <3>1
      <4>3. \A c \in ReorderPath(t)' : c \in head \cup locks \/ c[1] \in 5 .. 6
        BY <2>2, <2>3, <2>4, <3>1
      <4> QED BY <2>0, <2>1, <2>7, <3>2, <4>1, <4>2, <4>3 DEF Before
    <3>3. CASE All
      <4>1. All'
        BY <1>1, <3>1, <3>3
      <4>2. rows = {r.items[i] : i \in DOMAIN r.items}
        BY <1>0, <1>9, <2>7, <3>3 DEF Working, Settled, ReorderSettled
      <4>3. \A i \in DOMAIN r.items :
                Read(t, StatusUpdate(r.items[i]))' = Read(t, StatusUpdate(r.items[i]))
        BY <1>2, <3>3, <4>2 DEF StatusUpdate
      <4>4. Moved(t)' = Moved(t)
        BY <4>3 DEF Moved
      <4>5. writes' = writes
        BY <4>4 DEF writes, Step, WriteTo, CounterUpdate, ActivityKey
      <4> QED BY <2>0, <2>1, <2>2, <2>3, <2>7, <3>1, <3>3, <4>1, <4>5 DEF Reached
    <3> QED BY <3>2, <3>3
  <2> QED BY <2>6, <2>7
<1> QED BY <1>0, <1>5, <1>6, <1>7, <1>8, <1>9, RequestFields

\* The course of one transaction in order.
Orderly(t) ==
    Working(t) => \A lock \in DOMAIN seen[t] : \E a : Reached(t, a) /\ a[3] = lock

\* Whoever does not move stays in order.
LEMMA OthersOrderly ==
    ASSUME InOrder, NEW t \in Txns, request'[t] = request[t], seen'[t] = seen[t]
    PROVE  Orderly(t)'
<1>1. Path(t)' = Path(t) /\ Working(t)' = Working(t)
  BY OwnCourse
<1>2. \A a : Reached(t, a)' <=> Reached(t, a)
  BY <1>1 DEF Reached, Holds, Before
<1> QED BY <1>1, <1>2 DEF InOrder, Orderly

\* Every step keeps the transactions in the order of their paths.
LEMMA InOrderStep == IInv /\ InOrder /\ [Next]_vars => InOrder'
<1> SUFFICES ASSUME IInv, InOrder, [Next]_vars PROVE \A t \in Txns : Orderly(t)'
  BY DEF InOrder, Orderly
<1>0. request \in [Txns -> RequestType] /\ DOMAIN seen = Txns
  BY DEF IInv, TypeOK
<1>1. CASE UNCHANGED vars
  BY <1>1, OthersOrderly DEF vars
<1>2. ASSUME NEW t \in Txns, Receive(t) PROVE \A u \in Txns : Orderly(u)'
  <2>1. seen' = seen /\ DOMAIN seen[t] = {} /\ \A u \in Txns \ {t} : request'[u] = request[u]
    BY <1>0, <1>2 DEF Receive, IInv, TypeOK
  <2>2. Orderly(t)'
    BY <2>1 DEF Orderly
  <2> QED BY <2>1, <2>2, OthersOrderly
<1>3. ASSUME NEW t \in Txns, Acquire(t) PROVE \A u \in Txns : Orderly(u)'
  <2>1. PICK lock \in Wanted(t) : seen' = [seen EXCEPT ![t] =
               [k \in DOMAIN seen[t] \cup {lock} |->
                   IF k = lock THEN Row(lock) ELSE seen[t][k]]]
    BY <1>3 DEF Acquire
  <2>2. request' = request /\ \A u \in Txns \ {t} : seen'[u] = seen[u]
    BY <1>0, <1>3, <2>1 DEF Acquire
  <2>3. lock \notin DOMAIN seen[t]
    BY DEF Wanted, Ahead, Holds
  <2>4. DOMAIN seen'[t] = DOMAIN seen[t] \cup {lock} /\ \A k \in DOMAIN seen[t] : seen'[t][k] = seen[t][k]
    BY <1>0, <2>1, <2>3
  <2>5. \A a : Reached(t, a) /\ a[3] \in DOMAIN seen'[t] => Reached(t, a)'
    BY <2>2, <2>3, <2>4, PathGrows DEF Holds
  <2>6. \A k \in DOMAIN seen'[t] : \E a : Reached(t, a) /\ a[3] = k
    <3>1. \E a : Reached(t, a) /\ a[3] = lock
      BY WantedStep DEF Reached
    <3>2. Working(t)
      BY WantedStep
    <3> QED BY <2>4, <3>1, <3>2 DEF InOrder
  <2>7. Orderly(t)'
    BY <2>5, <2>6 DEF Orderly
  <2> QED BY <2>2, <2>7, OthersOrderly
<1>4. ASSUME NEW t \in Txns, Release(t) PROVE \A u \in Txns : Orderly(u)'
  <2>1. DOMAIN seen'[t] = {} /\ \A u \in Txns \ {t} : request'[u] = request[u] /\ seen'[u] = seen[u]
    BY <1>0, <1>4 DEF Release
  <2>2. Orderly(t)'
    BY <2>1 DEF Orderly
  <2> QED BY <2>1, <2>2, OthersOrderly
<1> QED BY <1>1, <1>2, <1>3, <1>4 DEF Next, Rollback, Commit, CommitAssign, CommitNewLead,
          CommitContact, CommitCreate, CommitUpdate, CommitArchive, CommitReorder, CommitRebuild

\* The place of a lock in the order in which transactions take them; the arrival of a
\* new lead, which has the lead before the settings, and a reorder, which takes audit
\* counters in the order of its items, are the exceptions.
Most == CHOOSE m \in Statuses : \A s \in Statuses : s <= m

Level(lock) ==
    CASE lock[1] = "advisory" -> 0
      [] lock[1] = "settings" -> 1
      [] lock[1] = "status" -> 2
      [] lock[1] = "scan" -> 2
      [] lock[1] = "lead" -> 3
      [] lock[1] = "table" -> IF lock[2] = "leads" THEN 4 ELSE 5
      [] lock[1] = "counter" -> IF lock[2][1] = ActivityKey THEN 6
                                ELSE IF lock[2][1] = TotalKey THEN 9 + Most
                                ELSE 8 + lock[2][1][2]
      [] OTHER -> 10 + Most

\* There is a greatest status.
LEMMA MostIs == Most \in Nat /\ \A s \in Statuses : s \in Nat /\ s <= Most
<1>1. Statuses \in SUBSET Nat /\ IsFiniteSet(Statuses) /\ Seeded \in Seq(Statuses) /\ Seeded # <<>>
  BY CatalogAssumption
<1>2. Statuses # {}
  BY <1>1
<1>3. \E m \in Statuses : \A s \in Statuses : s <= m
  BY <1>1, <1>2, MaxExists
<1> QED BY <1>1, <1>3 DEF Most

\* The levels, lock by lock.
LEMMA Levels ==
    /\ \A l : Level(LeadKey(l)) = 0 /\ Level(LeadUpdate(l)) = 3
    /\ Level(SettingsShare) = 1 /\ Level(SettingsUpdate) = 1
    /\ \A s : Level(StatusShare(s)) = 2 /\ Level(StatusUpdate(s)) = 2
    /\ \A t : Level(ReadStatuses(t)) = 2
    /\ Level(WriteTo("leads")) = 4 /\ Level(WriteTo("activities")) = 5
    /\ Level(Freeze("leads")) = 4 /\ Level(Freeze("activities")) = 5
    /\ \A h : Level(CounterUpdate(ActivityKey, h)) = 6 /\ Level(CounterUpdate(TotalKey, h)) = 9 + Most
    /\ \A s, h : Level(CounterUpdate(StatusKey(s), h)) = 8 + s
    /\ Level(Recount) = 10 + Most
<1>1. \A l : Level(LeadKey(l)) = 0 /\ Level(LeadUpdate(l)) = 3
  BY DEF Level, LeadKey, LeadUpdate
<1>2. Level(SettingsShare) = 1 /\ Level(SettingsUpdate) = 1
  BY DEF Level, SettingsShare, SettingsUpdate
<1>3. \A s : Level(StatusShare(s)) = 2 /\ Level(StatusUpdate(s)) = 2
  BY DEF Level, StatusShare, StatusUpdate
<1>4. \A t : Level(ReadStatuses(t)) = 2
  BY DEF Level, ReadStatuses
<1>5. Level(WriteTo("leads")) = 4 /\ Level(WriteTo("activities")) = 5
  BY DEF Level, WriteTo
<1>6. Level(Freeze("leads")) = 4 /\ Level(Freeze("activities")) = 5
  BY DEF Level, Freeze
<1>7. \A k, h : Level(CounterUpdate(k, h)) = IF k = ActivityKey THEN 6
                                             ELSE IF k = TotalKey THEN 9 + Most ELSE 8 + k[2]
  BY DEF Level, CounterUpdate
<1>8. Level(Recount) = 10 + Most
  BY DEF Level, Recount
<1> HIDE DEF Level
<1> QED BY <1>1, <1>2, <1>3, <1>4, <1>5, <1>6, <1>7, <1>8, KeysDiffer

\* What a transaction asks for lies above what it holds, but for the exceptions.
LEMMA HeldBelow ==
    ASSUME IInv, InOrder, NEW t \in Txns, NEW h \in DOMAIN seen[t], NEW w \in Wanted(t)
    PROVE  LET l == request[t].lead IN
           \/ Level(h) < Level(w)
           \/ /\ request[t].kind = "arrive" /\ h = LeadUpdate(l)
              /\ leads[l].version = 0 /\ Holds(t, LeadKey(l))
           \/ h[1] \in {"status", "scan"}
           \/ /\ Level(h) = 6 /\ Level(w) = 6
              /\ request[t].kind = "reorder" /\ Holds(t, SettingsUpdate)
<1> DEFINE r == request[t]
           l == r.lead
<1>0. Working(t) /\ r \in RequestType /\ r # Idle /\ Named(r)
  BY WantedStep DEF IInv, TypeOK, Working, Busy, RequestsHold
<1> PICK a : Reached(t, a) /\ a[3] = h
  BY <1>0 DEF InOrder
<1> PICK b : Reached(t, b) /\ b[3] = w
  BY WantedStep DEF Reached
<1>1. Holds(t, h) /\ ~Holds(t, w) /\ ~Before(b, a) /\ h # w
  BY DEF Wanted, Ahead, Holds, Reached
<1>2. a \in Path(t) /\ b \in Path(t)
  BY DEF Reached
<1>3. Most \in Nat /\ \A s \in Statuses : s \in Nat /\ s <= Most
  BY MostIs
<1>4. CASE r.kind = "create"
  <2>1. \A c \in Path(t) : \/ c = Step(1, SettingsUpdate) \/ c = Step(2, ReadStatuses(t))
                           \/ c = Step(5, WriteTo("activities"))
                           \/ c = Step(6, CounterUpdate(ActivityKey, ShardOf[<<"status", r.status>>]))
    BY <1>4 DEF Path, CreatePath, AuditPath
  <2>2. \A c \in Path(t) : c[1] \in {1, 2, 5, 6} /\ Level(c[3]) = c[1] /\ c[2] = 0
    BY <2>1, Levels DEF Step
  <2>3. a[1] = b[1] => a[3] = b[3]
    BY <1>2, <2>1 DEF Step
  <2> QED BY <1>1, <1>2, <2>2, <2>3 DEF Before
<1>5. CASE r.kind = "update"
  <2>1. \A c \in Path(t) : \/ c = Step(1, SettingsUpdate) \/ c = Step(2, StatusUpdate(r.status))
                           \/ c = Step(5, WriteTo("activities"))
                           \/ c = Step(6, CounterUpdate(ActivityKey, ShardOf[<<"status", r.status>>]))
    BY <1>5 DEF Path, UpdatePath, AuditPath
  <2>2. \A c \in Path(t) : c[1] \in {1, 2, 5, 6} /\ Level(c[3]) = c[1] /\ c[2] = 0
    BY <2>1, Levels DEF Step
  <2>3. a[1] = b[1] => a[3] = b[3]
    BY <1>2, <2>1 DEF Step
  <2> QED BY <1>1, <1>2, <2>2, <2>3 DEF Before
<1>6. CASE r.kind = "archive"
  <2>1. \A c \in Path(t) : \/ c = Step(1, SettingsUpdate) \/ c = Step(2, StatusUpdate(r.status))
                           \/ c = Step(3, StatusUpdate(r.replacement))
                           \/ c = Step(5, WriteTo("activities"))
                           \/ c = Step(6, CounterUpdate(ActivityKey, ShardOf[<<"status", r.status>>]))
    BY <1>6 DEF Path, ArchivePath, AuditPath, After
  <2>2. \A c \in Path(t) : /\ c[1] \in {1, 2, 3, 5, 6} /\ c[2] = 0
                           /\ c[1] \in {2, 3} => c[3][1] = "status"
                           /\ Level(c[3]) = IF c[1] = 3 THEN 2 ELSE c[1]
    BY <2>1, Levels DEF Step, StatusUpdate
  <2>3. a[1] = b[1] => a[3] = b[3]
    BY <1>2, <2>1 DEF Step
  <2> QED BY <1>1, <1>2, <2>2, <2>3 DEF Before
<1>7. CASE r.kind = "rebuild"
  <2>1. \A c \in Path(t) : \/ c = Step(1, Freeze("leads")) \/ c = Step(2, Freeze("activities"))
                           \/ c = Step(3, Recount)
    BY <1>7 DEF Path, RebuildPath
  <2>2. \A c \in Path(t) : /\ c[1] \in {1, 2, 3} /\ c[2] = 0
                           /\ Level(c[3]) = IF c[1] = 3 THEN 10 + Most ELSE c[1] + 3
    BY <2>1, Levels DEF Step
  <2>3. a[1] = b[1] => a[3] = b[3]
    BY <1>2, <2>1 DEF Step
  <2> QED BY <1>1, <1>2, <1>3, <2>2, <2>3 DEF Before
<1>8. CASE r.kind = "assign"
  <2> DEFINE x == ShardOf[<<"lead", l>>]
             touched == {Read(t, LeadUpdate(l)).status, r.status}
  <2>1. \A c \in Path(t) :
            \/ c = Step(1, SettingsShare) \/ c = Step(2, StatusShare(r.status))
            \/ c = Step(3, LeadUpdate(l)) \/ c = Step(4, WriteTo("leads"))
            \/ c = Step(5, WriteTo("activities")) \/ c = Step(6, CounterUpdate(ActivityKey, x))
            \/ Holds(t, LeadUpdate(l)) /\ \E s \in touched : c = <<7, s, CounterUpdate(StatusKey(s), x)>>
    BY <1>8 DEF Path, AssignPath, AssignHead, AuditPath, After
  <2>2. Holds(t, LeadUpdate(l)) => touched \subseteq Statuses
    BY <1>0, <1>8, ReadIsCurrent, RequestFields DEF IInv, LeadsHaveStatus, Named
  <2>3. \A c \in Path(t) :
            \/ c[1] \in 1 .. 6 /\ c[2] = 0 /\ Level(c[3]) = c[1]
            \/ c[1] = 7 /\ c[2] \in Statuses /\ Level(c[3]) = 8 + c[2]
    BY <2>1, <2>2, Levels DEF Step
  <2>4. a[1] = b[1] /\ a[2] = b[2] => a[3] = b[3]
    BY <1>2, <2>1 DEF Step
  <2> QED BY <1>1, <1>2, <1>3, <2>3, <2>4 DEF Before
<1>9. CASE r.kind = "arrive"
  <2> DEFINE x == ShardOf[<<"lead", l>>]
             default == Read(t, SettingsShare).default
  <2>1. \A c \in Path(t) :
            \/ c = Step(0, LeadKey(l)) \/ c = Step(1, LeadUpdate(l))
            \/ /\ c = Step(2, SettingsShare)
               /\ Holds(t, LeadUpdate(l)) /\ Read(t, LeadUpdate(l)).version = 0
            \/ c = Step(3, StatusShare(default)) /\ Holds(t, SettingsShare)
            \/ c = Step(4, WriteTo("leads"))
            \/ c = Step(5, WriteTo("activities")) \/ c = Step(6, CounterUpdate(ActivityKey, x))
            \/ c = Step(7, CounterUpdate(StatusKey(default), x)) /\ Holds(t, SettingsShare)
            \/ c = Step(8, CounterUpdate(TotalKey, x))
    BY <1>9 DEF Path, ArrivePath, AuditPath, After
  <2>2. Holds(t, SettingsShare) => default \in Statuses
    BY ReadIsCurrent DEF IInv, TypeOK, RowType
  <2>3. \A c \in Path(t) :
            /\ c[1] \in 0 .. 8 /\ c[2] = 0
            /\ c[1] \in {0, 4, 5, 6} => Level(c[3]) = c[1]
            /\ c[1] = 1 => Level(c[3]) = 3 /\ c[3] = LeadUpdate(l)
            /\ c[1] = 2 => Level(c[3]) = 1 /\ Holds(t, LeadUpdate(l)) /\ Read(t, LeadUpdate(l)).version = 0
            /\ c[1] = 3 => Level(c[3]) = 2 /\ Holds(t, SettingsShare)
            /\ c[1] = 7 => Level(c[3]) = 8 + default /\ default \in Statuses
            /\ c[1] = 8 => Level(c[3]) = 9 + Most
    BY <2>1, <2>2, Levels DEF Step
  <2>4. a[1] = b[1] => a[3] = b[3]
    BY <1>2, <2>1 DEF Step
  <2>5. a[1] < b[1]
    BY <1>1, <1>2, <2>3, <2>4 DEF Before
  <2>6. CASE a[1] # 1 \/ b[1] \notin {2, 3}
    BY <1>2, <1>3, <2>3, <2>5, <2>6
  <2>7. CASE a[1] = 1 /\ b[1] \in {2, 3}
    <3>1. Step(0, LeadKey(l)) \in Path(t)
      BY <1>9 DEF Path, ArrivePath
    <3>2. Holds(t, LeadKey(l))
      BY <2>7, <3>1 DEF Reached, Before, Step
    <3>3. Holds(t, SettingsShare) => \E c \in Path(t) : c[3] = SettingsShare
      BY <1>0 DEF InOrder, Reached, Holds
    <3>4. \A c \in Path(t) : c[3] = SettingsShare => c[1] = 2
      BY <2>3, Levels, <1>3
    <3>5. Read(t, LeadUpdate(l)).version = 0 /\ Holds(t, LeadUpdate(l))
      BY <1>2, <2>3, <2>7, <3>3, <3>4
    <3> QED BY <1>2, <1>9, <2>3, <2>7, <3>2, <3>5, ReadIsCurrent
  <2> QED BY <2>6, <2>7
<1>10. CASE r.kind = "reorder"
  <2>1. \A c \in Path(t) :
            \/ c = Step(1, SettingsUpdate) \/ c = Step(2, ReadStatuses(t))
            \/ \E s : c = <<3, s, StatusUpdate(s)>>
            \/ c = Step(5, WriteTo("activities"))
            \/ \E i, e : c = <<6, i, CounterUpdate(ActivityKey, e)>>
    BY <1>10 DEF Path, ReorderPath, After
  <2>2. \A c \in Path(t) : /\ c[1] \in {1, 2, 3, 5, 6}
                           /\ c[1] \in {2, 3} => c[3][1] \in {"status", "scan"}
                           /\ Level(c[3]) = IF c[1] = 3 THEN 2 ELSE c[1]
                           /\ c[1] \in {1, 2, 5} => c[2] = 0
    BY <2>1, Levels DEF Step, StatusUpdate, ReadStatuses
  <2>3. a[1] = b[1] /\ a[1] \in {1, 2, 5} => a[3] = b[3]
    BY <1>2, <2>1 DEF Step
  <2>4. a[1] <= b[1]
    BY <1>1, <1>2, <2>2 DEF Before
  <2>5. a[1] = 6 => Holds(t, SettingsUpdate)
    <3>1. Step(1, SettingsUpdate) \in Path(t)
      BY <1>10 DEF Path, ReorderPath
    <3> QED BY <3>1 DEF Reached, Before, Step
  <2> QED BY <1>1, <1>2, <1>10, <2>2, <2>3, <2>4, <2>5
<1> QED BY <1>0, <1>4, <1>5, <1>6, <1>7, <1>8, <1>9, <1>10, RequestFields

\* What a reached step says of the transaction that reached it.
LEMMA ReachedLocks ==
    ASSUME IInv, NEW t \in Txns, Working(t), NEW a, Reached(t, a)
    PROVE  LET r == request[t] IN
           /\ Level(a[3]) \in 0 .. 10 + Most
           /\ a[3][1] = "scan" => a[3][2] = t
           /\ a[3][1] = "status" => \/ a[3][3] = "share" /\ Holds(t, SettingsShare)
                                    \/ a[3][3] = "update" /\ Holds(t, SettingsUpdate)
           /\ a[3][1] = "lead" =>
                  \/ r.kind = "assign" /\ a[3][2] = r.lead
                  \/ r.kind = "arrive" /\ a[3][2] = r.lead /\ Holds(t, LeadKey(r.lead))
           /\ r.kind = "reorder" => a[3] = SettingsUpdate \/ Holds(t, SettingsUpdate)
<1> DEFINE r == request[t]
           l == r.lead
           Said ==
               /\ Level(a[3]) \in 0 .. 10 + Most
               /\ a[3][1] = "scan" => a[3][2] = t
               /\ a[3][1] = "status" => \/ a[3][3] = "share" /\ Holds(t, SettingsShare)
                                        \/ a[3][3] = "update" /\ Holds(t, SettingsUpdate)
               /\ a[3][1] = "lead" =>
                      \/ r.kind = "assign" /\ a[3][2] = r.lead
                      \/ r.kind = "arrive" /\ a[3][2] = r.lead /\ Holds(t, LeadKey(r.lead))
               /\ r.kind = "reorder" => a[3] = SettingsUpdate \/ Holds(t, SettingsUpdate)
<1>0. r \in RequestType /\ r # Idle /\ Named(r)
  BY DEF IInv, TypeOK, Working, Busy, RequestsHold
<1>1. a \in Path(t) /\ \A c \in Path(t) : c[1] < a[1] => Holds(t, c[3])
  BY DEF Reached, Before
<1>2. Most \in Nat /\ \A s \in Statuses : s \in Nat /\ s <= Most
  BY MostIs
<1> USE DEF Step
<1>3. CASE r.kind \in {"create", "update", "archive", "reorder"}
  <2>1. Step(1, SettingsUpdate) \in Path(t)
    BY <1>3 DEF Path, CreatePath, UpdatePath, ArchivePath, ReorderPath
  <2>2. \/ a = Step(1, SettingsUpdate) \/ a = Step(2, ReadStatuses(t))
        \/ \E n \in {2, 3} : \E k, s : a = <<n, k, StatusUpdate(s)>>
        \/ a = Step(5, WriteTo("activities"))
        \/ \E i, e : a = <<6, i, CounterUpdate(ActivityKey, e)>>
    <3>1. CASE r.kind = "reorder"
      BY <1>1, <3>1 DEF Path, ReorderPath, After
    <3>2. CASE r.kind \in {"create", "update", "archive"}
      BY <1>1, <3>2 DEF Path, CreatePath, UpdatePath, ArchivePath, AuditPath, After
    <3> QED BY <1>3, <3>1, <3>2
  <2>3. a[3] = SettingsUpdate \/ Holds(t, SettingsUpdate)
    BY <1>1, <2>1, <2>2
  <2>4. CASE a = Step(1, SettingsUpdate)
    BY <1>2, <2>3, <2>4, Levels DEF SettingsUpdate
  <2>5. CASE a = Step(2, ReadStatuses(t))
    BY <1>2, <2>3, <2>5, Levels DEF ReadStatuses
  <2>6. CASE \E n \in {2, 3} : \E k, s : a = <<n, k, StatusUpdate(s)>>
    <3>1. Level(a[3]) = 2 /\ a[3][1] = "status" /\ a[3][3] = "update"
      BY <2>6, Levels DEF StatusUpdate
    <3>2. a[3] # SettingsUpdate
      BY <3>1, Levels
    <3> QED BY <1>2, <2>3, <3>1, <3>2
  <2>7. CASE a = Step(5, WriteTo("activities"))
    BY <1>2, <2>3, <2>7, Levels DEF WriteTo
  <2>8. CASE \E i, e : a = <<6, i, CounterUpdate(ActivityKey, e)>>
    BY <1>2, <2>3, <2>8, Levels DEF CounterUpdate
  <2> QED BY <2>2, <2>4, <2>5, <2>6, <2>7, <2>8
<1>4. CASE r.kind = "rebuild"
  <2>1. a[3] = Freeze("leads") \/ a[3] = Freeze("activities") \/ a[3] = Recount
    BY <1>1, <1>4 DEF Path, RebuildPath
  <2> QED BY <1>2, <1>4, <2>1, Levels DEF Freeze, Recount
<1>5. CASE r.kind = "assign"
  <2> DEFINE x == ShardOf[<<"lead", l>>]
             touched == {Read(t, LeadUpdate(l)).status, r.status}
  <2>1. \/ a = Step(1, SettingsShare) \/ a = Step(2, StatusShare(r.status))
        \/ a = Step(3, LeadUpdate(l)) \/ a = Step(4, WriteTo("leads"))
        \/ a = Step(5, WriteTo("activities")) \/ a = Step(6, CounterUpdate(ActivityKey, x))
        \/ Holds(t, LeadUpdate(l)) /\ \E s \in touched : a = <<7, s, CounterUpdate(StatusKey(s), x)>>
    BY <1>1, <1>5 DEF Path, AssignPath, AssignHead, AuditPath, After
  <2>2. Holds(t, LeadUpdate(l)) => touched \subseteq Statuses
    BY <1>0, <1>5, ReadIsCurrent, RequestFields DEF IInv, LeadsHaveStatus, Named
  <2>3. Step(1, SettingsShare) \in Path(t)
    BY <1>5 DEF Path, AssignPath, AssignHead
  <2>4. Level(a[3]) \in 0 .. 10 + Most
    BY <1>2, <2>1, <2>2, Levels
  <2>5. a[1] = 2 => Holds(t, SettingsShare)
    BY <1>1, <2>3
  <2>6. /\ a[3][1] # "scan"
        /\ a[3][1] = "status" => a[1] = 2 /\ a[3][3] = "share"
        /\ a[3][1] = "lead" => a[3][2] = l
    BY <2>1 DEF SettingsShare, StatusShare, LeadUpdate, WriteTo, CounterUpdate
  <2> QED BY <1>5, <2>4, <2>5, <2>6
<1>6. CASE r.kind = "arrive"
  <2> DEFINE x == ShardOf[<<"lead", l>>]
             default == Read(t, SettingsShare).default
  <2>1. \/ a = Step(0, LeadKey(l)) \/ a = Step(1, LeadUpdate(l)) \/ a = Step(2, SettingsShare)
        \/ a = Step(3, StatusShare(default)) /\ Holds(t, SettingsShare)
        \/ a = Step(4, WriteTo("leads"))
        \/ a = Step(5, WriteTo("activities")) \/ a = Step(6, CounterUpdate(ActivityKey, x))
        \/ a = Step(7, CounterUpdate(StatusKey(default), x)) /\ Holds(t, SettingsShare)
        \/ a = Step(8, CounterUpdate(TotalKey, x))
    BY <1>1, <1>6 DEF Path, ArrivePath, AuditPath, After
  <2>2. Holds(t, SettingsShare) => default \in Statuses
    BY ReadIsCurrent DEF IInv, TypeOK, RowType
  <2>3. Step(0, LeadKey(l)) \in Path(t)
    BY <1>6 DEF Path, ArrivePath
  <2>4. Level(a[3]) \in 0 .. 10 + Most
    BY <1>2, <2>1, <2>2, Levels
  <2>5. a[1] = 1 => Holds(t, LeadKey(l))
    BY <1>1, <2>3
  <2>6. /\ a[3][1] # "scan"
        /\ a[3][1] = "status" => a[3][3] = "share" /\ Holds(t, SettingsShare)
        /\ a[3][1] = "lead" => a[1] = 1 /\ a[3][2] = l
    BY <2>1 DEF SettingsShare, StatusShare, LeadUpdate, LeadKey, WriteTo, CounterUpdate
  <2> QED BY <1>6, <2>4, <2>5, <2>6
<1> QED BY <1>0, <1>3, <1>4, <1>5, <1>6, RequestFields

\* A reorder that waits for an audit counter stands above those who may hold it and below
\* those who wait for another counter.
Rank(t, lock) ==
    2 * Level(lock) + (IF request[t].kind = "reorder" /\ Level(lock) = 6 THEN 1 ELSE 0)

\* Who waits for a transaction that waits itself is lower.
LEMMA WaitersClimb ==
    ASSUME IInv, InOrder, NEW t \in Txns, NEW u \in Txns, t # u,
           NEW lock \in Wanted(t), Excludes(u, lock), NEW w \in Wanted(u)
    PROVE  Rank(t, lock) < Rank(u, w)
<1> PICK h \in DOMAIN seen[u] : /\ h[1] = lock[1] /\ h[2] = lock[2]
                                /\ <<h[3], lock[3]>> \notin Compatible
  BY DEF Excludes
<1>1. Working(t) /\ Working(u)
  BY WantedStep
<1>2. PICK a : Reached(t, a) /\ a[3] = lock
  BY WantedStep DEF Reached
<1>3. PICK b : Reached(u, b) /\ b[3] = w
  BY WantedStep DEF Reached
<1>4. PICK c : Reached(u, c) /\ c[3] = h
  BY <1>1 DEF InOrder
<1>5. Level(h) = Level(lock)
  BY DEF Level
<1>6. Level(h) \in Nat /\ Level(w) \in Nat
  BY <1>1, <1>3, <1>4, MostIs, ReachedLocks
<1>7. CASE Level(h) < Level(w)
  BY <1>5, <1>6, <1>7 DEF Rank
<1>8. CASE /\ request[u].kind = "arrive" /\ h = LeadUpdate(request[u].lead)
           /\ leads[request[u].lead].version = 0 /\ Holds(u, LeadKey(request[u].lead))
  <2> DEFINE l == request[u].lead
  <2>1. lock[1] = "lead" /\ lock[2] = l
    BY <1>8 DEF LeadUpdate
  <2>2. CASE request[t].kind = "assign" /\ request[t].lead = l
    BY <1>8, <2>2 DEF IInv, RequestsHold, Named, Exists
  <2>3. CASE Holds(t, LeadKey(l))
    BY <1>8, <2>3, RowIsExclusive DEF IInv, Holds, LeadKey
  <2> QED BY <1>1, <1>2, <2>1, <2>2, <2>3, ReachedLocks
<1>9. CASE h[1] \in {"status", "scan"}
  <2>1. h[1] = "status"
    BY <1>1, <1>2, <1>4, <1>9, ReachedLocks
  <2>2. \/ h[3] = "update" /\ Holds(u, SettingsUpdate)
        \/ h[3] = "share" /\ Holds(u, SettingsShare)
    BY <1>1, <1>4, <2>1, ReachedLocks
  <2>3. \/ lock[3] = "update" /\ Holds(t, SettingsUpdate)
        \/ lock[3] = "share" /\ Holds(t, SettingsShare)
    <3>1. a[3][1] = "status"
      BY <1>2, <2>1
    <3>2. \/ a[3][3] = "share" /\ Holds(t, SettingsShare)
          \/ a[3][3] = "update" /\ Holds(t, SettingsUpdate)
      BY <1>1, <1>2, <3>1, ReachedLocks
    <3> QED BY <1>2, <3>2
  <2>4. h[3] = "update" \/ lock[3] = "update"
    BY <2>2, <2>3 DEF Compatible
  <2> QED BY <2>2, <2>3, <2>4, RowIsExclusive DEF IInv, Holds, SettingsUpdate, SettingsShare
<1>10. CASE /\ Level(h) = 6 /\ Level(w) = 6
            /\ request[u].kind = "reorder" /\ Holds(u, SettingsUpdate)
  <2>1. CASE request[t].kind = "reorder"
    <3>1. a[3] # SettingsUpdate
      <4>1. Level(SettingsUpdate) = 1
        BY Levels
      <4>2. Level(lock) = 6
        BY <1>5, <1>10
      <4>3. Level(a[3]) = 6
        BY <1>2, <4>2
      <4> HIDE DEF Level
      <4> QED BY <4>1, <4>3
    <3>2. Holds(t, SettingsUpdate)
      BY <1>1, <1>2, <2>1, <3>1, ReachedLocks
    <3> QED BY <1>10, <3>2, RowIsExclusive DEF IInv, Holds, SettingsUpdate
  <2>2. CASE request[t].kind # "reorder"
    BY <1>5, <1>10, <2>2 DEF Rank
  <2> QED BY <2>1, <2>2
<1> QED BY <1>7, <1>8, <1>9, <1>10, HeldBelow

\* Of transactions that wait for each other, the one that stands highest does not wait.
LEMMA NobodyDeadlocks == IInv /\ InOrder => NoDeadlock
<1> SUFFICES ASSUME IInv, InOrder, NEW T \in SUBSET {t \in Txns : Busy(t)}, T # {},
                    \A t \in T : \E u \in T \ {t} : WaitsFor(t, u)
             PROVE  FALSE
  BY DEF NoDeadlock
<1> DEFINE Blocked(t, lock) == lock \in Wanted(t) /\ \E u \in T \ {t} : Excludes(u, lock)
           R == {n \in 0 .. 21 + 2 * Most : \E t \in T : \E lock \in Wanted(t) : Blocked(t, lock) /\ n = Rank(t, lock)}
<1>1. \A t \in T : \A lock \in Wanted(t) : Rank(t, lock) \in 0 .. 21 + 2 * Most
  <2> SUFFICES ASSUME NEW t \in T, NEW lock \in Wanted(t)
               PROVE  Rank(t, lock) \in 0 .. 21 + 2 * Most
    OBVIOUS
  <2>1. Working(t) /\ \E a : Reached(t, a) /\ a[3] = lock
    BY WantedStep DEF Reached
  <2>2. Level(lock) \in 0 .. 10 + Most
    BY <2>1, ReachedLocks
  <2>3. Most \in Nat
    BY MostIs
  <2> QED BY <2>2, <2>3 DEF Rank
<1>2. \A t \in T : \E lock \in Wanted(t) : Blocked(t, lock)
  BY DEF WaitsFor
<1>3. \A t \in T : \A lock \in Wanted(t) : Blocked(t, lock) => Rank(t, lock) \in R
  BY <1>1
<1>4. R # {}
  BY <1>2, <1>3
<1>5. R \in SUBSET Nat /\ IsFiniteSet(R)
  <2>1. 21 + 2 * Most \in Nat
    BY MostIs
  <2>2. IsFiniteSet(0 .. 21 + 2 * Most)
    BY <2>1, FS_Interval
  <2> QED BY <2>1, <2>2, FS_Subset
<1>6. PICK m \in R : \A n \in R : n <= m
  BY <1>4, <1>5, MaxExists
<1>7. PICK t \in T : \E lock \in Wanted(t) : Blocked(t, lock) /\ m = Rank(t, lock)
  OBVIOUS
<1> PICK lock \in Wanted(t) : Blocked(t, lock) /\ m = Rank(t, lock)
  BY <1>7
<1>8. PICK u \in T \ {t} : Excludes(u, lock)
  OBVIOUS
<1>9. PICK w \in Wanted(u) : Blocked(u, w)
  BY <1>2
<1>10. Rank(t, lock) < Rank(u, w)
  BY <1>8, WaitersClimb
<1>11. Rank(u, w) \in R
  BY <1>3, <1>9
<1>12. m \in Nat /\ Rank(u, w) \in Nat /\ m = Rank(t, lock)
  BY <1>5, <1>11
<1>13. Rank(u, w) <= m
  BY <1>6, <1>11
<1> QED BY <1>10, <1>12, <1>13

\* No set of transactions waits for each other: settings, statuses, leads, tables, audit
\* counters and status counters are taken in one order, and the exceptions exclude each
\* other by the settings row or the lead's advisory lock.
THEOREM NeverDeadlocked == Spec => []NoDeadlock
<1>1. Init => InOrder
  BY DEF Init, InOrder, Working, Busy
<1>2. IInv /\ InOrder /\ [Next]_vars => InOrder'
  BY InOrderStep
<1>3. Spec => [](IInv /\ InOrder)
  BY <1>1, <1>2, Invariance, PTL DEF Spec
<1> QED BY <1>3, NobodyDeadlocks, PTL
=============================================================================
