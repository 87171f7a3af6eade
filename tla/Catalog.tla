------------------------------ MODULE Catalog ------------------------------
(***************************************************************************)
(* The status catalogue, the leads' statuses, the audit trail and the      *)
(* dashboard counters: every transaction that touches them, with the locks *)
(* PostgreSQL takes for it one by one and what it reads when it gets each. *)
(* A transaction's writes become visible in the action that commits it,    *)
(* computed from what it read, as the code computes them.                  *)
(*                                                                         *)
(* A request carries what its sender saw when it was written (the row      *)
(* version and, for the properties, the row); any number of other          *)
(* transactions may commit before it gets its first lock.                  *)
(*                                                                         *)
(* Names and colours behave like positions (a field an edit replaces) and  *)
(* are left out; so is the day counter, which behaves like the total.      *)
(***************************************************************************)
EXTENDS Integers, FiniteSets, Sequences

CONSTANTS
    Statuses,     \* status ids, numbered in the order of their counter keys
    Leads,        \* lead ids
    Txns,         \* concurrent transactions
    Shards,       \* 64 in the code
    ShardOf,      \* shard of an entity, <<"lead", l>> or <<"status", s>>
    Seeded,       \* the statuses of the reference seed, in order
    Positions,    \* positions an edit may ask for
    MaxActive,    \* 100 in the code
    MaxRequests,  \* bound: requests in a behaviour
    None

Entities == ({"lead"} \X Leads) \cup ({"status"} \X Statuses)

ASSUME CatalogAssumption ==
    /\ Statuses \subseteq Nat
    /\ IsFiniteSet(Statuses) /\ IsFiniteSet(Leads)
    /\ ShardOf \in [Entities -> Shards]
    /\ Seeded \in Seq(Statuses) /\ Seeded # <<>>
    /\ \A i, j \in 1 .. Len(Seeded) : Seeded[i] = Seeded[j] => i = j
    /\ Positions \subseteq Nat
    /\ MaxActive \in Nat /\ Len(Seeded) <= MaxActive
    /\ MaxRequests \in Nat
    /\ None \notin Statuses \cup Positions

VARIABLES
    settings,   \* app_settings: default status, catalogVersion
    statuses,   \* status rows; version 0 when there is none
    leads,      \* lead rows: status and version; version 0 when there is none
    audits,     \* audit rows: the entity and the row version each records
    counters,   \* dashboard_counters: value per key and shard
    request,    \* transaction: the request it serves, or Idle
    seen,       \* transaction: the locks it holds, with what it read under each
    requests    \* requests so far

vars == <<settings, statuses, leads, audits, counters, request, seen, requests>>

Idle == [kind |-> "idle"]
Busy(t) == request[t] # Idle

StatusRecord == [version : Nat, archived : BOOLEAN, position : Nat]
NoStatus == [version |-> 0, archived |-> FALSE, position |-> 0]
LeadRecord == [version : Nat, status : Statuses \cup {None}]
NoLead == [version |-> 0, status |-> None]

Active(rows) == {s \in Statuses : rows[s].version > 0 /\ ~rows[s].archived}

ActivityKey == <<"activity">>
TotalKey == <<"total">>
StatusKey(s) == <<"status", s>>
Keys == {ActivityKey, TotalKey} \cup {StatusKey(s) : s \in Statuses}

Init ==
    /\ settings = [default |-> Seeded[1], catalogVersion |-> 1]
    /\ statuses = [s \in Statuses |->
           IF \E i \in 1 .. Len(Seeded) : Seeded[i] = s
           THEN [version |-> 1, archived |-> FALSE,
                 position |-> (CHOOSE i \in 1 .. Len(Seeded) : Seeded[i] = s) - 1]
           ELSE NoStatus]
    /\ leads = [l \in Leads |-> NoLead]
    /\ audits = {}
    /\ counters = [k \in Keys \X Shards |-> 0]
    /\ request = [t \in Txns |-> Idle]
    /\ seen = [t \in Txns |-> <<>>]
    /\ requests = 0

-----------------------------------------------------------------------------
(* Deliberately wrong variants, one step away from the code: a run in which  *)
(* one of them takes the place of its original must fail.                    *)

SharedSettings == <<"settings", None, "share">>       \* for SettingsUpdate
NeverStale(row, view) == FALSE                        \* for Stale
WeakTableLock(table) ==                               \* for Freeze
    <<"table", table, "rowExclusive">>
LeakLocks(t) ==                                       \* for Release
    request' = [request EXCEPT ![t] = Idle] /\ UNCHANGED <<seen, requests>>
AnyReplacement(t) ==                                  \* for Irreplaceable
    request[t].replacement \in {None, request[t].status}
StatusFirst(t) ==                                     \* for AssignHead
    {<<1, 0, <<"status", request[t].status, "share">>>>,
     <<2, 0, <<"settings", None, "share">>>>,
     <<3, 0, <<"lead", request[t].lead, "update">>>>}

-----------------------------------------------------------------------------
(* Locks: a table, a row of it and the mode it is locked in. *)

SettingsShare == <<"settings", None, "share">>
SettingsUpdate == <<"settings", None, "update">>         \* lockSettings
StatusShare(s) == <<"status", s, "share">>
StatusUpdate(s) == <<"status", s, "update">>             \* repository.lock
LeadUpdate(l) == <<"lead", l, "update">>
LeadKey(l) == <<"advisory", l, "update">>                \* pg_advisory_xact_lock
CounterUpdate(k, h) == <<"counter", <<k, h>>, "update">>
WriteTo(table) == <<"table", table, "rowExclusive">>    \* INSERT, UPDATE
Freeze(table) == <<"table", table, "tableShare">>       \* LOCK TABLE ... IN SHARE MODE
ReadStatuses(t) == <<"scan", t, "none">>                 \* a plain SELECT
Recount == <<"recount", None, "update">>                 \* DELETE, INSERT ... SELECT

Compatible == {<<m, m>> : m \in {"share", "rowExclusive", "tableShare", "none"}}

Holds(t, lock) == lock \in DOMAIN seen[t]

Excludes(u, lock) ==
    \E held \in DOMAIN seen[u] :
        /\ held[1] = lock[1] /\ held[2] = lock[2]
        /\ <<held[3], lock[3]>> \notin Compatible

-----------------------------------------------------------------------------
(* Exact counts of the rows, as the rebuild's INSERT ... SELECT computes them. *)

LeadsIn(h) == {l \in Leads : leads[l].version > 0 /\ ShardOf[<<"lead", l>>] = h}

Count(k, h) ==
    CASE k = ActivityKey -> Cardinality({a \in audits : ShardOf[a[1]] = h})
      [] k = TotalKey -> Cardinality(LeadsIn(h))
      [] OTHER -> Cardinality({l \in LeadsIn(h) : leads[l].status = k[2]})

Tally == [c \in Keys \X Shards |-> Count(c[1], c[2])]

\* What a transaction reads with a lock: the committed row.
Row(lock) ==
    CASE lock[1] = "settings" -> settings
      [] lock[1] = "status" -> statuses[lock[2]]
      [] lock[1] = "scan" -> statuses
      [] lock[1] = "lead" -> leads[lock[2]]
      [] lock[1] = "recount" -> Tally
      [] OTHER -> None

-----------------------------------------------------------------------------
(* The requests, as their senders write them from what they see. *)

\* PATCH /leads/:id/status
AssignRequests ==
    {[kind |-> "assign", lead |-> l, status |-> s, view |-> leads[l]] :
        l \in {x \in Leads : leads[x].version > 0}, s \in Active(statuses)}

\* A job that creates the lead, or updates an existing one's contact data.
ArriveRequests == [kind : {"arrive"}, lead : Leads, changed : BOOLEAN]

\* POST /statuses: the id is new.
CreateRequests ==
    {[kind |-> "create", status |-> s, position |-> p] :
        s \in {x \in Statuses : /\ statuses[x].version = 0
                                /\ \A t \in Txns : request[t].kind = "create" =>
                                                       request[t].status # x},
        p \in Positions \cup {None}}

\* PATCH /statuses/:id
UpdateRequests ==
    {[kind |-> "update", status |-> s, view |-> statuses[s], position |-> c[1],
      isDefault |-> c[2]] :
        s \in Active(statuses),
        c \in ((Positions \cup {None}) \X BOOLEAN) \ {<<None, FALSE>>}}

\* DELETE /statuses/:id
ArchiveRequests ==
    {[kind |-> "archive", status |-> s, view |-> statuses[s], replacement |-> r] :
        s \in Active(statuses), r \in Active(statuses) \cup {None}}

\* PATCH /statuses/order: every active status once.
ReorderRequests ==
    LET n == Cardinality(Active(statuses)) IN
    {[kind |-> "reorder", items |-> f, view |-> statuses] :
        f \in {g \in [1 .. n -> Active(statuses)] :
                  \A i, j \in 1 .. n : g[i] = g[j] => i = j}}

\* cli.js rebuild-counters
RebuildRequests == {[kind |-> "rebuild"]}

Receive(t) ==
    /\ ~Busy(t)
    /\ requests < MaxRequests
    /\ \E r \in AssignRequests \cup ArriveRequests \cup CreateRequests
               \cup UpdateRequests \cup ArchiveRequests \cup ReorderRequests
               \cup RebuildRequests :
           request' = [request EXCEPT ![t] = r]
    /\ requests' = requests + 1
    /\ UNCHANGED <<settings, statuses, leads, audits, counters, seen>>

-----------------------------------------------------------------------------
(* The locks each request takes, as far as what it has read tells: steps in  *)
(* the order of their stage, those of a stage in the order of a key.         *)

Step(stage, lock) == <<stage, 0, lock>>

Read(t, lock) == seen[t][lock]

After(t, lock, path) == IF Holds(t, lock) THEN path ELSE {}

\* audit.record: the activity row, then its counter.
AuditPath(e) ==
    {Step(5, WriteTo("activities")), Step(6, CounterUpdate(ActivityKey, ShardOf[e]))}

AssignHead(t) ==
    {Step(1, SettingsShare), Step(2, StatusShare(request[t].status)),
     Step(3, LeadUpdate(request[t].lead))}

\* LeadStatusService.change; counters.apply sorts its keys.
AssignPath(t) ==
    LET r == request[t]
        h == ShardOf[<<"lead", r.lead>>]
        touched == {Read(t, LeadUpdate(r.lead)).status, r.status}
    IN  AssignHead(t) \cup
        After(t, LeadUpdate(r.lead),
              {Step(4, WriteTo("leads"))} \cup AuditPath(<<"lead", r.lead>>) \cup
              {<<7, s, CounterUpdate(StatusKey(s), h)>> : s \in touched})

\* LeadProcessor.process, from the lead's advisory lock on.
ArrivePath(t) ==
    LET r == request[t]
        h == ShardOf[<<"lead", r.lead>>]
        isNew == Read(t, LeadUpdate(r.lead)).version = 0
        default == Read(t, SettingsShare).default
    IN  {Step(0, LeadKey(r.lead)), Step(1, LeadUpdate(r.lead))} \cup
        After(t, LeadUpdate(r.lead),
            (IF isNew THEN {Step(2, SettingsShare)} ELSE {}) \cup
            {Step(4, WriteTo("leads"))} \cup
            (IF isNew \/ r.changed THEN AuditPath(<<"lead", r.lead>>) ELSE {})) \cup
        After(t, SettingsShare,
              {Step(3, StatusShare(default)), Step(7, CounterUpdate(StatusKey(default), h)),
               Step(8, CounterUpdate(TotalKey, h))})

CreatePath(t) ==
    {Step(1, SettingsUpdate), Step(2, ReadStatuses(t))} \cup
    AuditPath(<<"status", request[t].status>>)

UpdatePath(t) ==
    {Step(1, SettingsUpdate), Step(2, StatusUpdate(request[t].status))} \cup
    AuditPath(<<"status", request[t].status>>)

\* The replacement is locked only when the default is archived.
ArchivePath(t) ==
    LET r == request[t]
        isDefault == Read(t, SettingsUpdate).default = r.status
    IN  {Step(1, SettingsUpdate), Step(2, StatusUpdate(r.status))} \cup
        After(t, SettingsUpdate,
              IF isDefault THEN {Step(3, StatusUpdate(r.replacement))} ELSE {}) \cup
        AuditPath(<<"status", r.status>>)

\* Rows a reorder gives another position, by their place in the new order.
Moved(t) ==
    {i \in DOMAIN request[t].items :
        Read(t, StatusUpdate(request[t].items[i])).position # i - 1}

\* The active statuses are read and locked in the order of their ids, then written one
\* by one in their new order.
ReorderPath(t) ==
    LET items == request[t].items
        rows == Active(Read(t, ReadStatuses(t)))
    IN  {Step(1, SettingsUpdate), Step(2, ReadStatuses(t))} \cup
        After(t, ReadStatuses(t),
            {<<3, s, StatusUpdate(s)>> : s \in rows} \cup
            IF \E s \in rows : ~Holds(t, StatusUpdate(s)) THEN {}
            ELSE {Step(5, WriteTo("activities"))} \cup
                 {<<6, i, CounterUpdate(ActivityKey, ShardOf[<<"status", items[i]>>])>> :
                     i \in Moved(t)})

RebuildPath == {Step(1, Freeze("leads")), Step(2, Freeze("activities")), Step(3, Recount)}

Path(t) ==
    CASE request[t].kind = "assign" -> AssignPath(t)
      [] request[t].kind = "arrive" -> ArrivePath(t)
      [] request[t].kind = "create" -> CreatePath(t)
      [] request[t].kind = "update" -> UpdatePath(t)
      [] request[t].kind = "archive" -> ArchivePath(t)
      [] request[t].kind = "reorder" -> ReorderPath(t)
      [] OTHER -> RebuildPath

-----------------------------------------------------------------------------
(* What a transaction has read makes it answer without writing: refusals,  *)
(* and requests that change nothing.                                       *)

\* A status nobody may be given any more.
Unassignable(t) ==
    \E s \in Statuses : Holds(t, StatusShare(s)) /\ Read(t, StatusShare(s)).archived

\* expectedVersion
Stale(row, view) == row.version # view.version

AssignSettled(t) ==
    LET r == request[t] IN
    /\ Holds(t, LeadUpdate(r.lead))
    /\ LET row == Read(t, LeadUpdate(r.lead)) IN
           Stale(row, r.view) \/ row.status = r.status

TooMany(n) == n >= MaxActive

CreateSettled(t) ==
    /\ Holds(t, ReadStatuses(t))
    /\ TooMany(Cardinality(Active(Read(t, ReadStatuses(t)))))

UpdateSettled(t) ==
    LET r == request[t] IN
    /\ Holds(t, StatusUpdate(r.status))
    /\ LET row == Read(t, StatusUpdate(r.status)) IN
        \/ Stale(row, r.view)
        \/ row.archived
        \/ /\ r.position \in {None, row.position}
           /\ r.isDefault => Read(t, SettingsUpdate).default = r.status

\* The default goes only when another active status takes its place.
Irreplaceable(t) ==
    LET r == request[t] IN
    \/ r.replacement \in {None, r.status}
    \/ /\ Holds(t, StatusUpdate(r.replacement))
       /\ Read(t, StatusUpdate(r.replacement)).archived

ArchiveSettled(t) ==
    LET r == request[t] IN
    /\ Holds(t, StatusUpdate(r.status))
    /\ LET row == Read(t, StatusUpdate(r.status)) IN
        \/ Stale(row, r.view)
        \/ row.archived
        \/ Read(t, SettingsUpdate).default = r.status /\ Irreplaceable(t)

ReorderSettled(t) ==
    LET r == request[t]
        rows == Active(Read(t, ReadStatuses(t)))
    IN
    /\ Holds(t, ReadStatuses(t))
    /\ \A s \in rows : Holds(t, StatusUpdate(s))
    /\ \/ rows # {r.items[i] : i \in DOMAIN r.items}
       \/ \E s \in rows : Stale(Read(t, StatusUpdate(s)), r.view[s])
       \/ Moved(t) = {}

Settled(t) ==
    CASE request[t].kind = "assign" -> Unassignable(t) \/ AssignSettled(t)
      [] request[t].kind = "arrive" -> Unassignable(t)
      [] request[t].kind = "create" -> CreateSettled(t)
      [] request[t].kind = "update" -> UpdateSettled(t)
      [] request[t].kind = "archive" -> ArchiveSettled(t)
      [] request[t].kind = "reorder" -> ReorderSettled(t)
      [] OTHER -> FALSE

-----------------------------------------------------------------------------
(* Steps of a transaction. *)

\* Still at work: it has not answered yet.
Working(t) == Busy(t) /\ ~Settled(t)

\* The steps of its path it has not been granted yet.
Ahead(t) == {step \in Path(t) : ~Holds(t, step[3])}

Before(a, b) == a[1] < b[1] \/ (a[1] = b[1] /\ a[2] < b[2])

\* The lock it asks for next.
Wanted(t) ==
    IF Working(t)
    THEN {a[3] : a \in {b \in Ahead(t) : \A c \in Ahead(t) : ~Before(c, b)}}
    ELSE {}

Ready(t) == Working(t) /\ Ahead(t) = {}

\* The lock is granted, and what it protects is read.
Acquire(t) ==
    /\ \E lock \in Wanted(t) :
        /\ \A u \in Txns \ {t} : ~Excludes(u, lock)
        /\ seen' = [seen EXCEPT ![t] =
               [k \in DOMAIN seen[t] \cup {lock} |->
                   IF k = lock THEN Row(lock) ELSE seen[t][k]]]
    /\ UNCHANGED <<settings, statuses, leads, audits, counters, request, requests>>

Release(t) ==
    /\ request' = [request EXCEPT ![t] = Idle]
    /\ seen' = [seen EXCEPT ![t] = <<>>]
    /\ UNCHANGED requests

\* A refusal, nothing to do, or a failure (a statement timeout, a lost connection).
Rollback(t) ==
    /\ Busy(t)
    /\ Release(t)
    /\ UNCHANGED <<settings, statuses, leads, audits, counters>>

Commit(t, kind) ==
    /\ request[t].kind = kind
    /\ Ready(t)
    /\ Release(t)

\* New audit rows, counted, and the counters a transaction increments and decrements.
Account(rows, up, down) ==
    /\ audits' = audits \cup rows
    /\ counters' = [c \in Keys \X Shards |->
           LET recorded == {a \in rows : c = <<ActivityKey, ShardOf[a[1]]>>} IN
           counters[c] + Cardinality(recorded) + (IF c \in up THEN 1 ELSE 0)
                       - (IF c \in down THEN 1 ELSE 0)]

CommitAssign(t) ==
    LET r == request[t]
        row == Read(t, LeadUpdate(r.lead))
        h == ShardOf[<<"lead", r.lead>>]
    IN
    /\ Commit(t, "assign")
    /\ leads' = [leads EXCEPT ![r.lead] = [version |-> row.version + 1, status |-> r.status]]
    /\ Account({<<<<"lead", r.lead>>, row.version + 1>>},
               {<<StatusKey(r.status), h>>}, {<<StatusKey(row.status), h>>})
    /\ UNCHANGED <<settings, statuses>>

CommitNewLead(t) ==
    LET l == request[t].lead
        default == Read(t, SettingsShare).default
        h == ShardOf[<<"lead", l>>]
    IN
    /\ Commit(t, "arrive")
    /\ Read(t, LeadUpdate(l)).version = 0
    /\ leads' = [leads EXCEPT ![l] = [version |-> 1, status |-> default]]
    /\ Account({<<<<"lead", l>>, 1>>}, {<<StatusKey(default), h>>, <<TotalKey, h>>}, {})
    /\ UNCHANGED <<settings, statuses>>

\* Contact data: the status is not among the columns written.
CommitContact(t) ==
    LET r == request[t]
        row == Read(t, LeadUpdate(r.lead))
    IN
    /\ Commit(t, "arrive")
    /\ row.version > 0
    /\ leads' = [leads EXCEPT ![r.lead].version = row.version + 1]
    /\ Account(IF r.changed THEN {<<<<"lead", r.lead>>, row.version + 1>>} ELSE {}, {}, {})
    /\ UNCHANGED <<settings, statuses>>

\* changed(), once per status: the catalogue version, audit row and counter.
Changed(t, ids, default) ==
    /\ settings' = [catalogVersion |-> Read(t, SettingsUpdate).catalogVersion + Cardinality(ids),
                    default |-> default]
    /\ Account({<<<<"status", s>>, statuses'[s].version>> : s \in ids}, {}, {})
    /\ UNCHANGED leads

\* The position a status gets when none is asked for: behind all others.
LastPosition(rows) ==
    CHOOSE p \in {rows[s].position : s \in Statuses} :
        \A s \in Statuses : rows[s].position <= p

CommitCreate(t) ==
    LET r == request[t] IN
    /\ Commit(t, "create")
    /\ statuses' = [statuses EXCEPT ![r.status] =
           [version |-> 1, archived |-> FALSE,
            position |-> IF r.position = None THEN LastPosition(Read(t, ReadStatuses(t))) + 1
                                              ELSE r.position]]
    /\ Changed(t, {r.status}, settings.default)

CommitUpdate(t) ==
    LET r == request[t]
        row == Read(t, StatusUpdate(r.status))
    IN
    /\ Commit(t, "update")
    /\ statuses' = [statuses EXCEPT
           ![r.status].position = IF r.position = None THEN @ ELSE r.position,
           ![r.status].version = row.version + 1]
    /\ Changed(t, {r.status}, IF r.isDefault THEN r.status ELSE settings.default)

CommitArchive(t) ==
    LET r == request[t]
        row == Read(t, StatusUpdate(r.status))
        replaced == Read(t, SettingsUpdate).default = r.status
    IN
    /\ Commit(t, "archive")
    /\ statuses' = [statuses EXCEPT ![r.status].archived = TRUE,
                                    ![r.status].version = row.version + 1]
    /\ Changed(t, {r.status}, IF replaced THEN r.replacement ELSE settings.default)

CommitReorder(t) ==
    LET items == request[t].items
        place(s) == CHOOSE i \in DOMAIN items : items[i] = s
        moved == {items[i] : i \in Moved(t)}
    IN
    /\ Commit(t, "reorder")
    /\ statuses' = [s \in Statuses |->
           IF s \in moved
           THEN [statuses[s] EXCEPT !.position = place(s) - 1,
                                    !.version = Read(t, StatusUpdate(s)).version + 1]
           ELSE statuses[s]]
    /\ Changed(t, moved, settings.default)

CommitRebuild(t) ==
    /\ Commit(t, "rebuild")
    /\ counters' = Read(t, Recount)
    /\ UNCHANGED <<settings, statuses, leads, audits>>

Next ==
    \E t \in Txns :
        \/ Receive(t) \/ Acquire(t) \/ Rollback(t)
        \/ CommitAssign(t) \/ CommitNewLead(t) \/ CommitContact(t)
        \/ CommitCreate(t) \/ CommitUpdate(t) \/ CommitArchive(t)
        \/ CommitReorder(t) \/ CommitRebuild(t)

Spec == Init /\ [][Next]_vars

-----------------------------------------------------------------------------
(* Safety. *)

RowType ==
    /\ settings \in [default : Statuses, catalogVersion : Nat]
    /\ statuses \in [Statuses -> StatusRecord]
    /\ leads \in [Leads -> LeadRecord]
    /\ audits \subseteq Entities \X Nat
    /\ counters \in [Keys \X Shards -> Int]

RequestType ==
    [kind : {"idle", "rebuild"}] \cup ArriveRequests
    \cup [kind : {"assign"}, lead : Leads, status : Statuses, view : LeadRecord]
    \cup [kind : {"create"}, status : Statuses, position : Positions \cup {None}]
    \cup [kind : {"update"}, status : Statuses, view : StatusRecord,
          position : Positions \cup {None}, isDefault : BOOLEAN]
    \cup [kind : {"archive"}, status : Statuses, view : StatusRecord,
          replacement : Statuses \cup {None}]
    \cup [kind : {"reorder"}, items : Seq(Statuses), view : [Statuses -> StatusRecord]]

\* Rows and requests have their types, and no transaction that has answered holds a lock.
TypeOK ==
    /\ RowType
    /\ request \in [Txns -> RequestType]
    /\ DOMAIN seen = Txns
    /\ \A t \in Txns : ~Busy(t) => DOMAIN seen[t] = {}
    /\ requests \in 0 .. MaxRequests

\* The default status is there and active, however archiving, replacing and
\* choosing a default interleave; new leads rely on it.
DefaultIsActive == settings.default \in Active(statuses)

\* The dashboard counters are the counts of the committed rows, shard by shard,
\* through concurrent moves, creations, audits and rebuilds.
CountersAreExact == counters = Tally

\* The reference rows are written without an audit row.
FirstAudited(s) == IF \E i \in 1 .. Len(Seeded) : Seeded[i] = s THEN 2 ELSE 1

\* Every version a status row has had, but the seeded one, has its audit row, there is no
\* other, and the catalogue version is one more than their number: no change is lost under
\* another, goes unrecorded, or is not seen by the clients that compare that version.
CatalogIsAudited ==
    /\ \A s \in Statuses :
           {a \in audits : a[1] = <<"status", s>>} =
               {<<"status", s>>} \X (FirstAudited(s) .. statuses[s].version)
    /\ settings.catalogVersion = 1 + Cardinality({a \in audits : a[1][1] = "status"})

\* No group of transactions waits for each other: the code always takes the
\* settings row first, then statuses, leads, tables, the audit counter and the
\* other counters in key order.
WaitsFor(t, u) == \E lock \in Wanted(t) : Excludes(u, lock)

NoDeadlock ==
    \A T \in SUBSET {t \in Txns : Busy(t)} :
        T # {} => \E t \in T : \A u \in T \ {t} : ~WaitsFor(t, u)

-----------------------------------------------------------------------------
(* What a step may never do. *)

Commits(t) == Busy(t) /\ ~Busy(t)' /\ <<statuses, leads>>' # <<statuses, leads>>

\* A user's edit is applied only to the row the user saw: a concurrent edit in
\* between, of the status itself or of the lead's contact data, refuses it.
EditsWhatWasSeen ==
    [][\A t \in Txns : Commits(t) =>
        LET r == request[t] IN
        /\ r.kind = "assign" => leads[r.lead] = r.view
        /\ r.kind \in {"update", "archive"} => statuses[r.status] = r.view
        /\ r.kind = "reorder" =>
               \A i \in DOMAIN r.items : statuses[r.items[i]] = r.view[r.items[i]]]_vars

-----------------------------------------------------------------------------
(* Refinement: each transaction acts as if it were alone. *)

Alone == INSTANCE Board

\* The transactions are serializable: each commit, computed from what was read
\* along the way, is one indivisible operation on the current rows.
ImplementsBoard == Alone!Spec
=============================================================================
