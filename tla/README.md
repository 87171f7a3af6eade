# Stylework: formal models

TLA+ models of the Stylework lead-management server and its React client
(`src/`), checked with TLC and, for the core, proved with TLAPS.

## 1. The system

A single-tenant application that takes lead events from a webhook (or from a
signed-in user), turns them into lead rows asynchronously, and shows the leads
live on a dashboard. One NestJS process (or an API and a worker process) shares
PostgreSQL, which owns every durable fact, and Redis, which holds BullMQ jobs,
rate-limit buckets, stream leases and a change channel.

| Component (source) | State | Operations | Hard behaviour | What makes it correct |
|---|---|---|---|---|
| Intake `modules/webhooks` | receipts, outbox rows, credentials; a pending count cached for a second | verify, accept, outcome; create, verify, revoke a key | two senders of one event id, a key revoked between verification and commit, a stale overload count | one receipt per (source, event id); 202 only after receipt and outbox row commit; a duplicate is answered even under overload |
| Lead processing `modules/jobs/lead-processor.service.ts`, `scripts/replay.ts` | receipts, lead rows, audit, counters, outbox | process, its catch handler, replay | at-least-once delivery, lapsed leases, versions out of order, crashes, stale retry writes | effects exactly once; the lead row is the newest version; every receipt is settled |
| Dispatch and reconciliation `modules/jobs/jobs.service.ts` | outbox rows, `lastEnqueuedAt`, BullMQ jobs | tick, dispatch, reconcile, enqueue, stop | Redis calls inside PostgreSQL transactions, Redis loss, finished jobs with the same id | no acknowledged receipt is forgotten; every notification is published |
| Status catalogue `modules/statuses` | statuses, settings row | create, update, archive, reorder | concurrent stale edits, replacement of the default | the default is never archived; no lost update; the catalogue version counts the changes |
| Lead status `modules/leads/lead-status.service.ts` | lead rows | change | races with archive and with lead creation | a lead is never moved to an archived status, counts follow |
| Audit, counters, outbox `modules/events`, `seeders/demo.ts` | activities, 64 counter shards per key | record, created, moved, notify, rebuildCounters | row locks taken in many orders, rebuild during traffic | counters equal the rows they count; no deadlock |
| Dashboard `modules/dashboard` | snapshot cache, dirty flag, listeners, Redis leases | snapshot, subscribe, stream, heartbeat, close | a stream closed while its snapshot is computed, snapshots computed for one client and not shown to another, lost Pub/Sub messages | at most three streams per user, nothing leaks, every stream catches up |
| Sessions `modules/auth` | sessions, tokens | signin, authenticate (renewal), signout, guard | concurrent renewals, renewal racing sign-out, seconds against milliseconds | one session, monotone renewal, revoked stays revoked |
| Admission `common/security` | token buckets, in-flight count, draining flag | consume, middleware, shutdown | bursts, clock, released twice or never | bounded admission; the in-flight count returns to zero |
| Pagination `common/pagination.ts`, repositories | signed cursors, `asOf` | paging, connection, list | rows committed late under an old timestamp, deleted ties | pages neither repeat nor skip a row that was visible |
| Migrations `database/migrator.ts`, `migration-history.ts` | migration table, schema | plan, expand, up, seed | an interrupted start, a bundled history | an operation is applied once |
| Client `app/src` | tokens, query cache, event source, dialog state | request, renew, stream, submit a lead | late answers of an earlier session, retries with one event id | a session's answers do not cross; one submission is one event |

How they meet: the intake commits a receipt with its outbox row; the
dispatcher turns the row into a BullMQ job whose id is the receipt id; a worker
locks the receipt, then the lead (advisory lock), then, for a new lead, the
settings and the default status (share locks), and commits lead, audit,
counters, receipt and a notification row together; the dispatcher publishes the
notification on Redis; the dashboard marks itself dirty and sends a snapshot to
its streams within a second. Users change statuses and the catalogue through
transactions that lock the same settings row.

## 2. The plan

Modules in the order in which they are written; the most important behaviour
comes first.

1. `LeadPipeline`: dispatcher, queue, workers, retry, replay (**done**), with
   `Inbox`, what it promises (**done**), `RetryBudget`, a history variable for
   one claim of the code (**done**), and `LeadPipelineProofs` (**done**).
2. `Catalog`: statuses, settings, lead status changes, lead creation, audit and
   counter rows as locked rows (**done**), with `Board`, the same operations one
   at a time (**done**).
3. `DashboardStream`: snapshot cache, dirty flag, listeners, leases, heartbeats
   (**done**), and `DashboardStreamProofs` (**done**).
4. `Intake`: accept with credentials, overload and duplicates (**done**), with
   `AddLead`, the dialog that sends and repeats a user's submission (**done**),
   and `IntakeProofs` for both (**done**).
5. `Sessions`, server and tab in one module (**done**), `RateLimiter` (**done**),
   and `GateProofs` for both (**done**).
6. `Pagination`: the pages of a list and the client that follows their cursors
   while rows change (**done**, `PaginationProofs` **done**).
7. `Admission`, middleware and shutdown (**done**), `MigrationHistory` (**done**),
   and `ServerProofs` for both (**done**).
8. `LiveView`: stream, profile, list and refresh notice of one tab (**done**,
   `LiveViewProofs` **done**).
9. `CatalogProofs` (**done**): the invariants, `EditsWhatWasSeen`, the refinement
   of `Board` and the absence of deadlock, from the invariant "what a transaction
   reads under a lock stays the committed row until it commits".

Every invariant and every safety property of an action that a passing run checks
is proved (section 14); liveness is left to TLC.

### The runs

| Run | Model | Expect |
|---|---|---|
| `pipeline`, `settles` | `LeadPipeline` (`MCLeadPipeline`): safety and refinement; liveness | pass |
| `retry_budget` | `RetryBudget` (`MCRetryBudget`) | violation |
| `data` | `Catalog`, `Pagination` (`MCData`) | pass |
| `api` | `Sessions`, `RateLimiter`, `Intake` (`MCApi`) | pass |
| `server` | `DashboardStream`, `Admission`, `MigrationHistory` (`MCServer`) | pass |
| `stream_leak` | `DashboardStream` | violation |
| `migration_old` | `MigrationHistory` (`MCMigrationHistory`) | violation |
| `pagination_refresh` | `Pagination` (`MCPagination`) | violation |
| `dialog` | `AddLead` with `Intake` (`MCAddLead`) | pass |
| `view` | `LiveView` (`MCLiveView`) | pass |
| `view_refresh` | `LiveView` | violation |

`data`, `api` and `server` each check several components that share no state.
Their interleavings would show nothing that the components do not show alone, so
the variable `part`, chosen at the start, says which of them moves while the
others stay as `Init` leaves them; the run explores the sum of the components and
not their product. Where such a run states fairness, the fair action is
`part = ... /\ Action`, or it is disabled while its component is at rest. Runs
under fairness use no symmetry.

## 3. LeadPipeline

### State and actions

A receipt row is the variables `state`, `attempts`, `errorCode`, `lastEnqueued`
and `due`; times are abstracted to what the code compares (`lastEnqueuedAt` is
null, within 60 s, or older; `nextAttemptAt` is due or not) and a clock action
moves them. A lead row is its source version, a snapshot that stands for the
contact data and their hash, and its row version. `activities`, `created` and
`notices` count the audit rows, the increments of the total counter, and the
notification rows a commit writes.

| Code | Actions |
|---|---|
| `accept` (its commit) | `Accept` |
| `process`: row lock, budget, schema, lead lock, three outcomes | `TakeReceipt`, `Refuse`, `TakeLead`, `Ignore`, `Conflict`, `Apply` |
| rollback and catch handler: read, then conditional update | `Fail`, `ReadCurrent`, `WriteRetry`, `LoseRetry` |
| `tick`: `dispatch`, `reconcile`, one Redis call and one row update at a time | `Dispatch`, `Reconcile`, `Push`, `Mark`, `CommitBatch`, `Abort` |
| BullMQ (external) | `Deliver`, `Finish`, `Promote`, `Reclaim`, `Lapse`, `Evict`, `FlushRedis` |
| `replay.ts` | `Replay` |
| time | `GraceExpires`, `BackoffExpires` |

Each wait of the code on a lock, on PostgreSQL or on Redis separates two
actions. Locks are not variables: a worker's control point says which it holds
(`HoldsReceipt`, `LeadLocked`), a dispatcher's sets say the rest (`RowLocked`,
`touched`). A transaction's writes appear in the action that commits it, and a
commit may be reported as failed (`Commit` with a fault). BullMQ's own counts
of attempts and stalls are abstracted: a failed job is delayed or finally
failed, a stalled one delivered again or failed. The status and the settings a
new lead reads, and the lead's status changes by users, belong to `Catalog`;
their failure ("Default status unavailable") is a `Fail` here.

### Runs

| Run | Shows | Instance |
|---|---|---|
| `pipeline` | `EffectsOnce`, `LeadIsNewest`, `LedgerMatchesLeads`, `ConflictHasRival`, `PendingHasBudget`, `Serialized`, the refinement of `Inbox` (`ImplementsInbox`) | 2 workers, 2 dispatchers, budget 2, batch 2; two receipts of one lead (rivals for one version, or two versions) with 1 fault, or one receipt, garbled or not, with 3 faults |
| `settles` | `EventuallySettled`, `EventuallyPublished` | two rivals, 1 worker, 1 dispatcher, budget 2, batch 1, 1 fault |
| `retry_budget` | finding: `ExhaustedMeansSpent` is violated | 1 receipt, 2 workers, 5 faults |

The bounds: every hazard listed for this module needs at most two receipts of
one lead and two processes at work (a race has two sides), and a budget of two
attempts so that exhaustion is reached as well as missed; one receipt gets three
faults (exhausted by two, replayed by the third, or a lapsed lease between them).
`BoundedNext` keeps the instance small: two receipts come with one fault, and either
workers or one dispatcher are at work at a time; over one receipt they meet in any
mixture. The theorems of section 14 cover
the same properties for any number of receipts, workers, dispatchers and faults.
`MaxFaults` bounds failures, crashes, lapsed
leases, lost Redis data, aborted batches and replays together; everything else
is unbounded by itself. Deadlock is not checked because the system may come to
rest with nothing to do. Workers and dispatchers are symmetric in `pipeline`;
`settles` uses no symmetry.

### Fairness

`Process(w)` is strongly fair: a worker that waits for a receipt's or a lead's
lock is in PostgreSQL's lock queue, so it gets the lock although others come
and go, and BullMQ hands out waiting jobs in order. `Tick(d)` is weakly fair (a
one-second interval calls it, and `running` is reset in `finally`), and so are
BullMQ's delay timer and stall check and the clock. Nothing is assumed of
faults, replays, evictions or the arrival of events.

### Finding

`retry_budget`: the catch handler reads the receipt outside any transaction and
writes the attempt count and the state from that read, conditional only on the
receipt being pending. In the trace a worker's lease lapses between the two, the
receipt is handled again and fails in a second worker, whose catch handler reads
it as well; the first write reports the budget exhausted, an operator replays the
receipt, and the second write puts the old count back and fails the replayed
receipt at once with "Retry budget exhausted; operator replay required", although
nothing was attempted since the replay.

## 4. Catalog and Board

### State and actions

`settings`, `statuses`, `leads`, `audits` and `counters` are the committed rows.
A request (`Receive`) carries what its sender saw when it was written: the
version it expects, and the row for the properties. `Acquire` takes the next
lock of the transaction's path and records in `seen` what is read under it;
`Excludes` is PostgreSQL's conflict table for the modes the code uses. A lock is a
table, a row and a mode; a path is a set of steps, each a stage, a key that orders
the steps of a stage, and a lock, and `Wanted` is the first one not held. One of
the `Commit...` actions computes the new rows from `seen`, never from the
current rows, and publishes them with the audit rows and counter increments of
the code; `Rollback` ends a transaction that the code's tests refuse.

| Code | Path of locks | Commit |
|---|---|---|
| `LeadStatusService.change` | `AssignPath` | `CommitAssign` |
| `LeadProcessor.process`, new lead and contact update | `ArrivePath` | `CommitNewLead`, `CommitContact` |
| `StatusesService.create`, `update`, `archive`, `reorder` | `CreatePath`, `UpdatePath`, `ArchivePath`, `ReorderPath` | `CommitCreate`, `CommitUpdate`, `CommitArchive`, `CommitReorder` |
| `rebuildCounters` | `RebuildPath` | `CommitRebuild` |

`Board` states what a user may rely on: each of these operations as one
indivisible step on the current rows. `ImplementsBoard` checks that the locked
transactions are serializable in this sense.

Left out: names (and with them the duplicate-name error), colours and
descriptions, which an edit replaces like a position; the day counter, which is
incremented with the total; the share locks PostgreSQL takes for foreign keys;
the retry of a serialization failure by the job queue, which `LeadPipeline` has.
The rebuild's DELETE and INSERT count as one lock on all counter rows. The
counters stand for all 64 shards by one or two.

### Runs

Run `data` checks, of these modules, `TypeOK`, `DefaultIsActive`, `CatalogIsAudited`,
`CountersAreExact`, `NoDeadlock`, `EditsWhatWasSeen` and the refinement of `Board`
(`ImplementsBoard`, in which the cap on active statuses and the assignment of active
statuses only are guards) with three transactions, four requests, one seeded status and two to create, a cap of two active ones, and two
leads in two counter shards.

Four requests are enough for a setup (a lead must exist before it is moved, a
status before it is archived), a race of two, and a request whose view is
stale. Three transactions are needed for a cycle of three locks and for the cap
to be raced (`ReceiveFew`: three at a time, or a fourth request beside one other).
`CatalogIsAudited` says which audit rows of statuses there are: one for every version
a row has had, except the first version of a seeded row (`seedReference` writes none),
and none else. No
fairness is assumed: nothing temporal is claimed beyond
`NoDeadlock`. Deadlock checking is off because the requests are bounded.

## 5. DashboardStream

### State and actions

JavaScript runs to completion between two awaits, so an action is one run of the
event loop. A snapshot is the revision of the database it read; `cachedAt` is
the three ages the code compares (under one second, under 30, older). `told` is
a history variable: the newest revision whose announcement was received.

| Code | Actions |
|---|---|
| commit and publication of a change, Redis Pub/Sub | `Change`, `Hear`, `Lose` |
| the one-second timer, `snapshot`, `compute` | `Tick`, `TakeSnapshot`, `Resolve`, `ComputeFails`, `Grow` |
| `stream()` up to its first message and its timers | `Request`, `Acquire`, `AcquireFails`, `Begin`, `Resolve` |
| heartbeat, lifetime, leases | `Beat`, `GiveUp`, `Expire` |
| the client, `signout`, `onModuleDestroy` | `Leave`, `SignOut`, `Shutdown` |

`Resolve` is one action for the fulfilment of the shared promise: the cache is
replaced, the broadcast goes out, the waiting streams send their first message,
subscribe and start their timers. `Send` lets any write fail that really writes
(a listener that already shows the revision writes nothing), and must let it
fail for a client that has gone. `EarlyLoss` says whether clients may be gone,
or too slow, at their first message: the condition of the first finding.

The streams are those of one user in one process; each connection is used once,
so an unbounded sequence of new connections, which would postpone the 30-second
reconciliation for ever, is outside the model. What other users or processes do
to this user's streams goes through the cache and the leases, which the streams
of the model share.

### Runs

Run `server` checks `NothingMissed`, `StreamsCatchUp` and `SignOutCloses` with two
connections for one lease, two revisions and one mishap. One change and one lost
message, failed query or lapsed lease are enough for each of these hazards; the
second connection meets the cap. A client leaves or there is a fault, but not both
(`OneMishap`). The fault bound covers lost messages, failed
queries, lost answers of Redis and leases that lapse under a live stream. Deadlock
is not checked: a process that has ended stops.

Fairness: the interval calls the timer every second, a query ends (in a result or
in a failure), a cache ages, and the heartbeat of an open stream runs every 15
seconds. It is not assumed that messages arrive, that clients leave, that
lifetimes end or that leases expire.

### Finding

`stream_leak`: `close()` runs its cleanup once. When the first write of a stream
fails, it runs before the listener, the heartbeat and the lifetime exist; they
are created right after it. The lifetime ends after five minutes, but the `close()`
it calls does nothing any more, so the listener stays in its set and the heartbeat
goes on until the process ends. README.md:196 says that the
cap "prevents long-lived resource accumulation".

A remark, not among the findings: a snapshot taken because a new stream connects
clears the dirty flag and renews the cache's age (`dashboard.service.ts:61`, `:70`)
but is given to that stream only, so the open streams miss the change until another
change or the 30-second reconciliation, where README.md:32 speaks of updates
coalesced to once per second. `StreamsCatchUp` shows that they catch up in the end.

## 6. Intake and AddLead

### State and actions

`Intake` is one API process: `handler` holds the requests it serves, each at the
await it stands at; `backlog`, `fresh` and `checking` are the cached pending count
(`WebhooksService.backlog`, `checked` within its second, the shared promise);
`credential` and `receipts` are committed rows; `told` is what senders were
promised. A message is its sender, event id and content; contents stand for
payload hashes, and `Malformed` for what the schema refuses.

| Code | Actions |
|---|---|
| guard, schema, first tests of `accept` | `Receive` |
| `overloaded()` | `Consult`, `Counted`, `CountFails`, `Lapse` |
| `accept`: credential FOR SHARE, advisory lock, lookup, insert, commit | `Begin`, `LockEvent`, `Find`, `Insert`, `Commit`, `Abort` |
| controller | `Reply` |
| `webhook-key.ts`: create, revoke | `CreateKey`, `Revoke` |
| the worker and `replay.ts`, seen from a receipt | `Settle`, `Replay` |
| the process dies | `Crash` |

`AddLead` adds the dialog of one tab to the same server: `Submit` and `Retry`
send (and may lose) an attempt, `Hear` takes its answer, `TimeOut` gives up
after 15 seconds while the server works on, `Poll` reads the outcome, `Finish`
opens the lead, `Toggle` and `Unmount` close the dialog with and without its
state.

### Runs

| Run | Shows | Instance |
|---|---|---|
| `api` | `AnswersAreTrue`, `RevokedKeysAreSilent`, `FirstWins` | 2 handlers, backlog of 1, 1 fault; two rival messages of one key and a malformed one, or one of the key and one of the user with the same event id |
| `dialog` | `NoOrphanedSubmission`, `SubmissionSettles` | a good and a refused submission of the user, or a good one and a keyed sender whose key stays active and who fills the backlog while the dialog is open (`story`), 2 handlers, 1 fault |

A race for an event has two sides, so two handlers; a backlog of one is full
after one receipt. One fault is a lost message, a timeout, a failed statement, a
restart or a replay. `dialog` checks deadlock as well: no state of it is a dead end.

Fairness of `dialog`: server steps, answers, the worker and the cache's
second are weakly fair; the user who still has an unsettled submission reopens
the dialog and presses on (strong fairness of `Retry` and `Poll`, as the backlog
may fill again in between); other senders leave one handler free (`Room`).

## 7. Sessions

### State and actions

`row` holds the session rows (end of the current access token, end of the refresh
token, revoked), `request` the requests in flight with the tokens they were sent
with, `tab` what one tab keeps in its session storage. Time is in ticks: rows hold ticks
(milliseconds in the code), tokens whole seconds of `Second` ticks.

| Code | Actions |
|---|---|
| `signin` | `Signin` |
| `request` in `api.ts`: send; apply a renewed token; end the session on 401 or sign-out | `Send`, `Arrive`, `Miss` |
| `authenticate` and the guard: verify and read; renew under the row lock; commit | `Check`, `Renew`, `CommitRenewal` |
| the handler, `signout` | `Handle` |
| a failed statement | `Fail` |

Run `api` checks `TokensMatch`, `LiveIsNotRefused`, `SignedOutStaysOut` and
`RenewalsConverge`: three sign-ins of one tab, two requests, a second of two ticks,
eight ticks, so that sessions of seven ticks end. Three sessions are needed
for a late answer of the first to meet the tokens of the third.

`TokensMatch` is not obvious: `renew()` puts the token of an answer into whatever
session the tab has, unless it ends sooner. That this never mixes two sessions
rests on three things at once: a 401 or a sign-out, and so every change of
session, ends the old session or comes late in its life; a new session's token
ends later than any the old one could still be given; and the client gives up on
a request after 15 seconds (`Awaited`), which is short against the 15 minutes of
an access token. Without the last (variant `Patient`) TLC finds a renewed token of
the first session in the third. `SessionsAssumption` states the proportions that
the proof needs: `AccessLife >= 2 * RequestLife + Second`.

The late 401 of an earlier session does clear a newer one (`api.ts:54` calls
`clearSession` whatever the tokens are by then). The tab then has no session; no
document promises otherwise, so it is behaviour of the model and no property.

## 8. RateLimiter

One Redis bucket. Tokens are counted in units of which `Window` make a token, so
that the arithmetic is exact. `Consume` is the Lua script, with its result `delay` in
milliseconds, and `RetryAfter` what `consume` makes of it for the header: whole
seconds of `PerSecond` milliseconds, rounded up, at least one. `LoseKey` is a Redis
that restarts without data; `Advance` moves the clock of Redis forward; `Mark` begins
the stretch of time that `AdmitsWithinRate` is about, and may set the clock back.

Run `api` checks `AdmitsWithinRate` and `RetryAfterIsLeast`: who waits for the seconds
of the header gets a token, and would be refused a second earlier. Two tokens and a
refill of 3 per window of 7, which divides nothing evenly, over 14 milliseconds, two of
which make a second: the bucket empties, fills, and its key expires several times, and
a wait is an odd number of milliseconds as well as an even one.

## 9. Admission

The middleware's in-flight count (`Admit`, `Release` through 'finish' and 'close'),
the outbox cycle and the queue worker, and shutdown in the order of Nest's hooks:
`Signal`, `stop()` waiting for the cycle and then for the worker, the HTTP server,
database and Redis (`HooksDone`, `ServerClosed`, `End`), or the deadline.

Run `server` checks `CountIsExact`, `NothingIsCutOff`, `SlotsReturn` and
`ShutdownEnds` with two requests and a stream for one slot.

Fairness: handlers, cycles and jobs end (statements and requests time out), a sent
response frees its connection, hooks run. A job is strongly fair to end because
the worker takes new ones; nothing is assumed of clients.

What no property says: a slot is released when the connection closes, also while
the handler still waits for the database, so clients that give up and come again
can make more handlers work at once than `MAX_INFLIGHT_REQUESTS`
(`request.middleware.ts:57` speaks of bounding queued database work).

## 10. Pagination

`FetchNext`, `FetchPrevious` and `Open` are one page each, one SQL statement;
`Refresh`, `RefreshPage` and `RefreshFails` are the refetch of an infinite query,
page by page. `AddRow` and `Edit` write rows, with time stamps of any moment up to
the present, since transactions stamp rows before they commit. `kept` is a history
variable: the rows that were visible when the list was opened and have not moved.
`Run` is *the* sequence of the matching rows in the order of the query (ids are
unique, so there is one); the rows on screen are the set `Shown`.

| Run | Shows | Instance |
|---|---|---|
| `data` | `NothingIsSkipped` | 3 rows, pages of one row, two pages retained (20 in the code), every sort and direction (a falling list of names is the mirror of a rising one), times 0 and 1 (time stands still for lists by name, whose rows move as they like) |
| `pagination_refresh` | finding: `RefreshShowsNew` is violated | 4 rows by creation |

Pages of one row make every row a page boundary, and two retained pages make the
third evict the first. The database and the servers share one clock; search,
filters, and the signature and fingerprint of a cursor are left out (they restrict
which rows a list is about, and refuse foreign cursors). A row committed late with
an earlier time stamp may appear between pages already read; the properties claim
nothing about it.

Finding: `pagination_refresh`, a list that lost its first page refreshes with the
cut-off it began with (`queries.ts:22`, README.md:183).

A remark: a page fetched with a cursor says `hasPreviousPage` also when it is empty
and then has no cursor, where `queries.ts:33` asserts one; `NothingIsSkipped`
therefore speaks of lists none of whose pages was left empty.

## 11. MigrationHistory

Processes start and take the advisory lock (`Lock`), expand a bundled history
(`Expand`, one transaction), work through the pending files in their order
(`Pending`, then `Execute` and `Record`, two transactions, on `NextFile` of what is
left in `todo`), seed (`Seed`) and serve; they fail
(`Fail`), stop (`Stop`) or die (`Crash`). A history entry is an operation with the
family of names it was recorded under; the schema is the set of operations done.

| Run | Shows | Instance |
|---|---|---|
| `server` | `HistoryIsTrue`, `ServingIsComplete`, `EachRunsOnce` | 2 processes, every history an old version left and the empty one, 2 crashes |
| `migration_old` | finding: `NothingRepeated` is violated | 2 processes, old histories, no crash |

The names are the program's own, all 12 files. Only `webhook-credentials` may be
executed twice (`IF NOT EXISTS`); the others fail on a named table, column or
constraint, which `Repeatable` says.

Finding: `migration_old`, an old history is expanded into names that are not those
of the files, so all files are pending and fail on the existing schema
(`migration-history.ts:3`, against `migrator.ts:30` and two tests).

A remark: an operation and its record are two transactions (`migrator.ts:42`); a
process that dies between them leaves a schema on which every later start fails at
that operation, unless it is a repeatable one. `HistoryIsTrue` holds all the same:
what is recorded was done.

## 12. LiveView

What one tab shows: `dash` (the last snapshot of the stream), `me` (the catalogue
version of the profile), `list` (the revision a list was read at, whether its last
fetch failed, whether its first page was evicted), `notice` (the refresh notice with
the revision it takes for shown, and what set that), with their requests `meFetch` and
`listFetch`. The server is a revision and a catalogue version.

| Code | Actions |
|---|---|
| `lib/dashboard.ts` | `Connect`, `Push`, `Cut`, `Deliver` |
| profile: `meOptions`, `shell.tsx` | `AskMe`, `ReadMe`, `MeArrives` (which prefetches the list), `MeFails` |
| list page and cache (`queries.ts`, `virtual-list.tsx`, TanStack Query) | `OpenPage`, `ClosePage`, `ForgetList`, `ReadOn`, `ReadList`, `ListArrives`, `ListFails`, `RetryList` |
| `refresh-notice.tsx` | `Refresh`, `Join`, `Adopted`, `Refreshed` |

The query cache is TanStack Query 5 (external; `package-lock.json` has 5.103.2), as the
code relies on it. `refetch()` and `invalidateQueries()` give a request up for a new
one only when there is data (`Refresh`, `RetryList`, `Outdated`); whoever waited for
the old one then waits for the new one. Without data a `refetch()` joins the request
under way: a press of "Refresh view" during the first load is `Join`. A query without
data loses its error when it is asked for again, one with data keeps it until an
answer comes (`Awaited`). A list whose first page was evicted (`ReadOn`) is fetched
again with its old cut-off, so that its revision stays; section 10 is about it.

Run `view` checks `RefreshedIsCurrent` and `ProfileCatchesUp` with three changes. It has
two stories: no action of the profile, once it is there, reads or writes what the list
page has, so one moves while the other rests, beside the stream, and fairness is stated
of the profile's story. Three changes let a snapshot, a fetch and a captured revision be
of different ages at once. Fairness: the stream is opened again after it ends (its
lifetime is five minutes), and snapshots and profile requests get through now and then
(strong fairness, since the stream may be cut or the request replaced in between).

`RefreshedIsCurrent` is about a refresh that sent a request of its own, whatever was
joined, given up, asked for again or failed before. It leaves two lists out: one whose
refresh joined the first load, which is the finding below, and one without its first
page, which is the finding `pagination_refresh`.

Finding: `view_refresh`, `NoticeGoesWithTheList` is violated (two changes). The notice
is rendered while the first load is pending (`leads.tsx:69`, `activity-list.tsx:35`).
The list is read at one revision, the next one is announced, the user presses
"Refresh view", the press joins the request under way, its older answer arrives, and
`setRevision` (`refresh-notice.tsx:24`) hides the notice over it. The change is neither
shown nor announced until another one comes, where `refresh-notice.tsx:15` says "New
activity is available." and README.md:267 promises a notice.

Remarks. The page takes the revision of the dashboard, when it is opened, for that
of its list (`refresh-notice.tsx:7`); a prefetched or cached list that is older has
no notice until the next change. There is one list here: a change of filters while the
notice is shown, or during a refresh, puts another list under the same notice
(the notice has no key), and one that is cached under these filters may be older than
what the notice then says; no property speaks of it.

## 13. Mutants

Every property of a passing run is violated when one definition of the module
is replaced by a deliberately wrong variant (section "Deliberately wrong
variants" of each module): a lock not taken, a guard dropped, an off-by-one, a
flag not reset.

## 14. What is proved

`LeadPipelineProofs` proves, for every set of receipts, leads, workers and
dispatchers, every payload table, budget, batch size and bound on faults that
satisfies `PipelineAssumption`:

- the invariants `TypeOK`, `EffectsOnce`, `LeadIsNewest`, `LedgerMatchesLeads`,
  `ConflictHasRival`, `PendingHasBudget`, `Serialized`;
- the action properties `ReceiptSteps` and `SourceVersionGrows`;
- `Refinement`: `Spec => Promise!Spec`, the pipeline implements `Inbox`.

None of the invariants is inductive alone. `IInv` adds what the code relies on
without saying so: a receipt whose row lock is held stays pending
(`HeldIsPending`), the lead row a worker read under the advisory lock is still
the row (`SeenIsCurrent`), a count about to be written by a catch handler
leaves an attempt (`Budget`), a dispatcher's recovery rows are locked receipts
(`BatchInv`), a lead nobody created is blank (`Ledger`). The argument has three
layers. First, types, action by action. Second, locks: `StepKinds` sorts the
steps by what they do to locks, which gives `HeldIsPending`, `SeenIsCurrent`
and `Serialized`. Third, decisions: `Decisions` shows that every step keeps all
receipts and leads or is one of seven decisions on one receipt, against the
*current* lead row (by `SeenIsCurrent`); each remaining invariant, both action
properties and the refinement follow from the decisions alone.

`DashboardStreamProofs` proves, for every set of streams, cap, number of changes
and faults that satisfies `StreamAssumption`, the invariants `TypeOK` and
`NothingMissed` and the action property `ShownGrows`. Its inductive invariant
adds `Ordered`: revisions are ordered along their way, from what was committed
over what is being read and what is cached to what is shown. Without it
`NothingMissed` is not inductive (a snapshot must be known to be at least as new
as what was heard) and `ShownGrows` does not follow (a broadcast of the cache
must be known to be no older than what each stream shows). The proof has two
halves, one for the revisions and one for the streams, each action by action;
`Sending` says once what any delivery to listeners and new streams may do.

`GateProofs` proves, of `Sessions`, `SessionTypeOK`, `TokensMatch`, `AccessEndsWithSession`,
`LiveIsNotRefused`, `SignedOutStaysOut` and `RenewalsConverge`, for every set of
sessions and requests and all lifetimes that satisfy `SessionsAssumption`. The
invariant orders sessions in time: a session began `RefreshLife` before its
refresh token ends, the session of the tab after the tab was last without one
(`TabInv`), every other one before (`PastInv`). A request of another session was
sent before that too, and its session has ended, was just refused, or was lost
so early in its life that no request the tab still waits for can renew it
(`Past`); so an access token it brings ends before the tab's, and `Supersedes`
refuses it. `Sound` says what a request knows of its session while it waits, and
`Locks` that one renewal at most is between its read and its commit.

`IntakeProofs` proves `TypeOK`, `AnswersAreTrue`, `LoserIsTold`,
`RevokedKeysAreSilent` and `FirstWins` for every set of handlers, keys and messages.
The invariant says that the advisory lock keeps a missing receipt missing, the
shared credential row keeps the key active until the commit, and an answer that has
not left yet is true (`Good`).

It also proves `NoOrphanedSubmission` of `AddLead`, for every set of drafts and
handlers (`DialogAssumption` only says that "no request" is not one of them). Three
facts are added: a request of the user's on its way carries the very submission the
dialog shows under that event, or one that was opened or lost with its page, and only
a malformed one is answered `invalid` (`Attempts`); a receipt of the user's has such
an event (`Caused`); and what the dialog waits for is a request of its own submission,
of which a malformed one has no receipt (`Shown`). A step of the server changes what
the dialog relies on in a few ways only (`IntakeMoves`), after which each step of the
dialog is one case.

Of `RateLimiter`, `GateProofs` proves `LimiterTypeOK`, `AdmitsWithinRate` and
`RetryAfterIsLeast` for every capacity, refill, window and length of a second; its
invariant is the balance of tokens admitted, held and refilled (`Balance`) and that a
key expires no sooner than its bucket is full (`ExpiresFull`). The script's milliseconds
are the least after which there is a token (`DelayIsExact`), and the header's seconds
the least that reach them (`HeaderRounds`).

`ServerProofs` proves, of `Admission`, `AdmissionTypeOK`, `CountIsExact` and
`NothingIsCutOff` for every set of requests and number of slots; the closure's
`released` flag must be known to say whether the response is open (`FlagIsOpen`),
and the phases of shutdown to follow what `stop()` has waited for (`Drained`).

Of `MigrationHistory` it proves `HistoryIsTrue`, `ServingIsComplete` and
`EachRunsOnce`, for every set of processes, every bound on crashes and every history
of `Histories`. The invariant says that only the holder of the advisory lock is at
work (`Locked`); that a file is recorded or in the holder's `todo`, and that what is
about to be recorded was executed (`Advanced`), which gives the first two; and, while
nobody dies and all names are those of files, that the schema shows what is recorded
and at most the one operation about to be (`InStep`), so that nothing pending is on
the schema and nothing is repeated. The files, bundles and names are the program's
own and no parameters.

`PaginationProofs` proves `NothingIsSkipped` for every set of rows, page size and
number of retained pages, every list and any length of time. The invariant says that
the pages on screen, and those a refetch has got so far, are a `Sound` list: each page
is in order, shows kept rows where they now are, and has a reason when it offers no
more at a side (`PageOK`); neighbours follow each other and each offers more where the
other is (`Joined`); and a kept row is on a page, or beyond the first or the last one,
which then offers more (`Reaches`). The exception is `Stuck`, a list of two pages whose
second is empty, which `NothingIsSkipped` is not about. That a page has these
properties follows from the query (`PageIs`, `PageFits`): matching rows are finitely
many, the order is strict and total on them, so a sorted run exists (`Sorted`, by
counting for each row those before it), and what `Cut` leaves away lies behind the
last row shown. Evicting a page at either end and adding one at either end keep a list
sound (`DropsFirst`, `DropsLast`, `Appends`, `Prepends`); an edit takes its row out of
`kept`.

`CatalogProofs` proves, for every set of statuses, leads, transactions and shards,
every seed and any number of requests that satisfy `CatalogAssumption`:

- the invariants `TypeOK`, `DefaultIsActive`, `CountersAreExact`, `CatalogIsAudited`;
- the action property `EditsWhatWasSeen`;
- `CatalogImplementsBoard`: `Spec => Alone!Spec`, the transactions are serializable;
- `NeverDeadlocked`: `NoDeadlock`, no set of transactions waits for each other.

The argument is two-phase locking. `Current` says that what a transaction has read
under the locks it holds is still so; it is inductive only with `Exclusive` (locks
exclude each other) and `Guarded`: a status is read under the settings row, which
whoever writes statuses locks for update, and a recount is taken under the two frozen
tables, which whoever writes leads or audit rows must lock against it. What a user saw
is not locked; `RequestsHold` says that a row with the version that was seen is the
row that was seen, since every write raises the version. `AuditsPast` says which
versions have their audit row (of a status all that were reached, of a lead none that
was not), so that the rows of a commit are new and raise the counts by as many. Each commit is then described in terms of the current rows
(`AssignCommit` to `RebuildCommit`), as one of two kinds of writes (`LeadWrite`,
`StatusWrite`); the invariant and the refinement follow from these descriptions.

Deadlock is excluded by the order of locks. A transaction at work has taken all that
comes before the locks it holds (`InOrder`, inductive together with `IInv`), so what it
wants stands above them in the order advisory lock, settings, statuses, lead, tables,
audit counter, status counters by number, total (`Level`). Two transactions break
that order: the arrival of a new lead locks the lead before the settings, but that row
does not exist yet, and who else could wait for it needs the advisory lock or has seen
the row; and a reorder takes audit counters of several shards in the order of its
items, but only one reorder has the settings row for update. With `Rank`, which puts
a waiting reorder above the others at its level, who waits for a waiting transaction
has the lower rank (`WaitersClimb`); in a set of transactions the one of highest rank
waits for none of the others.

`LiveViewProofs` proves `ViewTypeOK` and `RefreshedIsCurrent` for any number of changes.
The invariant orders revisions along their way: what the notice takes for shown, the
snapshot, the server (`NoticeInv`, `DashInv`); and a list that is on its way is no older
than what the notice takes for shown after a refresh, nor than what the button captured,
unless that joined the request (`ListInv`).

Proved without a run of their own are the type invariants and the properties that
lie close to one that is run: `SourceVersionGrows` and `ReceiptSteps` (next to
`ImplementsInbox`), `ShownGrows` (`NothingMissed`), `LoserIsTold` (`AnswersAreTrue`),
`AccessEndsWithSession` (`RenewalsConverge`).

Only model-checked is liveness, which TLAPS cannot prove (it has no rules for fairness
and ENABLED): `EventuallySettled`, `EventuallyPublished`, `StreamsCatchUp`,
`SubmissionSettles`, `SignOutCloses`, `SlotsReturn`, `ShutdownEnds` and
`ProfileCatchesUp`; and the five violated claims, which are false.

## 15. Not modelled

- Gauges and logs (`observe`, telemetry), health endpoints, the wording of errors,
  HTML and CSS, configuration parsing, compression, Docker and deployment files:
  they have no state that another part reads.
- The password check and the user rows; names, e-mail addresses and other contact
  fields, which are carried and compared as one value; search and filters of lists.
- The optimistic status of one lead (`lead-detail.tsx:20`): it shows the status being
  sent and drops it with the answer; the server's side of it is `Assign` in `Catalog`.
- Forms of `settings.tsx`, which send the requests that `Catalog` models, and the
  virtual list's measurements.
- The stored preferences (theme and row density): two tabs overwrite each other's
  choice, and nothing depends on it.
- `down()` of the migrations, which only a developer runs; the demo leads of the
  seeder, which are written once into an empty database.
- The standalone worker's forced end after 30 seconds, which is that of the API
  process without its HTTP server.

`PROJECT.json` names the status of every component and of every hazard.
