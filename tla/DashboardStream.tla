-------------------------- MODULE DashboardStream --------------------------
(***************************************************************************)
(* One API process's dashboard: the snapshot cache and its dirty flag, the *)
(* one-second timer, the Redis subscription, and the event streams of one  *)
(* user with their leases, heartbeats and lifetimes.                       *)
(*                                                                         *)
(* JavaScript runs to completion between two awaits, so each action is one *)
(* run of the event loop: what follows the resolution of a shared promise  *)
(* (cache, broadcast, every waiting stream) is one action.  A snapshot is  *)
(* the revision of the database it read.                                   *)
(***************************************************************************)
EXTENDS Integers, FiniteSets

CONSTANTS
    Streams,     \* connections of one user, each used once
    MaxStreams,  \* 3 in the code
    MaxRev,      \* bound: committed changes
    MaxFaults,   \* bound: lost messages, failed queries, lapsed leases
    EarlyLoss    \* may a client be gone, or too slow, at its first message?

ASSUME StreamAssumption ==
    /\ IsFiniteSet(Streams)
    /\ MaxStreams \in Nat \ {0} /\ MaxRev \in Nat \ {0} /\ MaxFaults \in Nat
    /\ EarlyLoss \in BOOLEAN

VARIABLES
    rev,         \* the database's revision
    messages,    \* revisions announced on 'sw:changes', not received yet
    told,        \* history: the newest revision whose announcement was received
    dirty,       \* DashboardService.dirty
    cache,       \* its cached snapshot, 0 when there is none
    age,         \* cachedAt: less than a second ago, less than 30 s, older
    computing,   \* the shared promise: none, its transaction not begun, a revision read
    reading,     \* that revision
    ticking,     \* will the timer's callback broadcast it?
    pc,          \* stream(): control point
    listening,   \* streams in DashboardService.listeners
    beating,     \* streams with a heartbeat interval and a lifetime timeout
    closed,      \* streams whose close() has run
    shown,       \* the stream's lastRevision
    gone,        \* streams whose client has disconnected
    leases,      \* members of the user's Redis set
    revoked,     \* the session was signed out
    down,        \* onModuleDestroy has run
    faults

dataVars == <<rev, messages, told>>
cacheVars == <<dirty, cache, age, computing, reading, ticking>>
streamVars == <<pc, listening, beating, closed, shown>>
restVars == <<gone, leases, revoked, down, faults>>
vars == <<dataVars, cacheVars, streamVars, restVars>>

Points == {"idle", "asking", "granted", "waiting", "open", "ended"}

RevisionType ==
    /\ rev \in 1 .. MaxRev /\ messages \subseteq 1 .. MaxRev /\ told \in 0 .. rev
    /\ dirty \in BOOLEAN /\ cache \in 0 .. rev /\ age \in {"fresh", "warm", "old"}
    /\ computing \in {"none", "begun", "read"} /\ reading \in 0 .. rev
    /\ ticking \in BOOLEAN
    /\ shown \in [Streams -> 0 .. rev]

StreamType ==
    /\ pc \in [Streams -> Points]
    /\ listening \cup beating \subseteq {c \in Streams : pc[c] = "open"}
    /\ closed \subseteq Streams /\ gone \subseteq Streams /\ leases \subseteq Streams
    /\ Cardinality(leases) <= MaxStreams
    /\ revoked \in BOOLEAN /\ down \in BOOLEAN /\ faults \in 0 .. MaxFaults

TypeOK == RevisionType /\ StreamType

Init ==
    /\ rev = 1 /\ messages = {} /\ told = 0
    /\ dirty = TRUE /\ cache = 0 /\ age = "old"
    /\ computing = "none" /\ reading = 0 /\ ticking = FALSE
    /\ pc = [c \in Streams |-> "idle"] /\ shown = [c \in Streams |-> 0]
    /\ listening = {} /\ beating = {} /\ closed = {} /\ gone = {}
    /\ leases = {} /\ revoked = FALSE /\ down = FALSE /\ faults = 0

Fault == faults < MaxFaults /\ faults' = faults + 1

-----------------------------------------------------------------------------
(* Deliberately wrong variants: a run in which one of them takes the place   *)
(* of its original must fail.                                                *)

\* For Remember: the flag is cleared after the reading instead of before it.
CleanLate == cache' = reading /\ age' = "fresh" /\ dirty' = FALSE
NeverOld == FALSE                               \* for Reconcile
AnySession(c) == c \in leases                   \* for Alive

-----------------------------------------------------------------------------
(* Changes of the data and their announcements (the outbox dispatcher). *)

Change ==
    /\ rev < MaxRev
    /\ rev' = rev + 1
    /\ messages' = messages \cup {rev + 1}
    /\ UNCHANGED <<told, cacheVars, streamVars, restVars>>

Hear(m) ==
    /\ m \in messages /\ ~down
    /\ messages' = messages \ {m}
    /\ told' = IF told < m THEN m ELSE told
    /\ dirty' = TRUE
    /\ UNCHANGED <<rev, cache, age, computing, reading, ticking, streamVars, restVars>>

\* Pub/Sub keeps nothing for a subscriber that is not connected.
Lose(m) ==
    /\ m \in messages
    /\ Fault
    /\ messages' = messages \ {m}
    /\ UNCHANGED <<rev, told, cacheVars, streamVars, gone, leases, revoked, down>>

-----------------------------------------------------------------------------
(* DashboardController.close, send and the end of stream(). *)

\* A second close() does nothing, whatever was added after the first.
Close(S) ==
    /\ closed' = closed \cup S
    /\ listening' = listening \ (S \ closed)
    /\ beating' = beating \ (S \ closed)

\* A write fails when the client is gone or does not read fast enough.
Failing(opening, audience) ==
    {F \in SUBSET (opening \cup audience) :
        /\ gone \cap opening \subseteq F
        /\ EarlyLoss \/ opening \cap F = {}}

\* Streams in `opening` write a first snapshot and then subscribe and start
\* their timers, whether or not that write has closed them; those in
\* `audience` are told by their listeners.
Send(opening, audience, snapshot) ==
    LET readers == {c \in audience \ closed : shown[c] # snapshot}
    IN  \E F \in Failing(opening, readers) :
            /\ closed' = closed \cup F
            /\ listening' = (listening \cup opening) \ (F \ opening)
            /\ beating' = (beating \cup opening) \ (F \ opening)
            /\ shown' = [c \in Streams |-> IF c \in opening \cup readers THEN snapshot
                                          ELSE shown[c]]

-----------------------------------------------------------------------------
(* DashboardService.snapshot, compute and the timer. *)

\* A transaction starts unless one is under way.
Compute ==
    IF computing = "none"
    THEN computing' = "begun" /\ dirty' = FALSE /\ UNCHANGED <<cache, age, reading>>
    ELSE UNCHANGED <<dirty, cache, age, computing, reading>>

Reconcile == age = "old"

\* The timer: a cached snapshot is broadcast at once.
Tick ==
    /\ ~down
    /\ listening # {}
    /\ dirty \/ Reconcile
    /\ IF age = "fresh"
       THEN /\ Send({}, listening, cache)
            /\ UNCHANGED <<cacheVars, pc>>
       ELSE /\ Compute
            /\ ticking' = TRUE
            /\ UNCHANGED streamVars
    /\ UNCHANGED <<dataVars, restVars>>

\* REPEATABLE READ: the first query fixes what the whole snapshot sees.
TakeSnapshot ==
    /\ computing = "begun"
    /\ computing' = "read"
    /\ reading' = rev
    /\ UNCHANGED <<dataVars, dirty, cache, age, ticking, streamVars, restVars>>

Remember == cache' = reading /\ age' = "fresh" /\ UNCHANGED dirty

Waiting == {c \in Streams : pc[c] = "waiting"}

\* The promise resolves: cache, waiting streams, broadcast.
Resolve ==
    /\ computing = "read"
    /\ computing' = "none"
    /\ Remember
    /\ ticking' = FALSE
    /\ Send(Waiting \ closed, IF ticking /\ ~down THEN listening ELSE {}, reading)
    /\ pc' = [c \in Streams |-> IF c \notin Waiting THEN pc[c]
                                ELSE IF c \in closed THEN "ended" ELSE "open"]
    /\ UNCHANGED <<dataVars, reading, restVars>>

\* The transaction fails: the waiting requests fail with it.
ComputeFails ==
    /\ computing # "none"
    /\ Fault
    /\ computing' = "none"
    /\ dirty' = TRUE
    /\ ticking' = FALSE
    /\ Close(Waiting)
    /\ pc' = [c \in Streams |-> IF c \in Waiting THEN "ended" ELSE pc[c]]
    /\ UNCHANGED <<dataVars, cache, age, reading, shown, gone, leases, revoked, down>>

Grow ==
    /\ age # "old"
    /\ age' = IF age = "fresh" THEN "warm" ELSE "old"
    /\ UNCHANGED <<dataVars, dirty, cache, computing, reading, ticking, streamVars, restVars>>

-----------------------------------------------------------------------------
(* DashboardController.stream. *)

Request(c) ==
    /\ pc[c] = "idle" /\ ~down /\ ~revoked
    /\ pc' = [pc EXCEPT ![c] = "asking"]
    /\ UNCHANGED <<dataVars, cacheVars, listening, beating, closed, shown, restVars>>

Room == Cardinality(leases) < MaxStreams

\* The acquire script runs in Redis; the answer is on its way.
Acquire(c) ==
    /\ pc[c] = "asking"
    /\ IF Room
       THEN leases' = leases \cup {c} /\ pc' = [pc EXCEPT ![c] = "granted"]
       ELSE pc' = [pc EXCEPT ![c] = "ended"] /\ UNCHANGED leases
    /\ UNCHANGED <<dataVars, cacheVars, listening, beating, closed, shown, gone,
                   revoked, down, faults>>

\* The answer is lost: 503, and the lease is left to expire.
AcquireFails(c) ==
    /\ pc[c] \in {"asking", "granted"}
    /\ Fault
    /\ pc' = [pc EXCEPT ![c] = "ended"]
    /\ UNCHANGED <<dataVars, cacheVars, listening, beating, closed, shown, gone, leases,
                   revoked, down>>

\* The answer arrives: only now does the stream hear of its client's leaving.
Begin(c) ==
    /\ pc[c] = "granted"
    /\ IF age = "fresh"
       THEN /\ Send({c}, {}, cache)
            /\ pc' = [pc EXCEPT ![c] = "open"]
            /\ UNCHANGED cacheVars
       ELSE /\ Compute
            /\ pc' = [pc EXCEPT ![c] = "waiting"]
            /\ UNCHANGED <<listening, beating, closed, shown, ticking>>
    /\ UNCHANGED <<dataVars, restVars>>

Leave(c) ==
    /\ pc[c] \notin {"idle", "ended"} /\ c \notin gone
    /\ pc[c] \in {"asking", "granted"} => EarlyLoss
    /\ gone' = gone \cup {c}
    /\ IF pc[c] \in {"waiting", "open"} THEN Close({c})
       ELSE UNCHANGED <<closed, listening, beating>>
    /\ UNCHANGED <<dataVars, cacheVars, pc, shown, leases, revoked, down, faults>>

\* The heartbeat's two queries: the session is active and the lease still there.
Alive(c) == ~revoked /\ c \in leases

Beat(c) ==
    /\ c \in beating \ closed
    /\ ~Alive(c)
    /\ Close({c})
    /\ UNCHANGED <<dataVars, cacheVars, pc, shown, restVars>>

\* Five minutes, a failed heartbeat query or a failed heartbeat write.
GiveUp(c) ==
    /\ c \in beating \ closed
    /\ Close({c})
    /\ UNCHANGED <<dataVars, cacheVars, pc, shown, restVars>>

\* The lease goes: zrem after close(), or nobody renewed it for 30 s.
Expire(c) ==
    /\ c \in leases
    /\ IF c \in closed \/ pc[c] = "ended" THEN UNCHANGED faults ELSE Fault
    /\ leases' = leases \ {c}
    /\ UNCHANGED <<dataVars, cacheVars, streamVars, gone, revoked, down>>

SignOut ==
    /\ ~revoked
    /\ revoked' = TRUE
    /\ UNCHANGED <<dataVars, cacheVars, streamVars, gone, leases, down, faults>>

\* onModuleDestroy: the timer stops and the subscribed streams are closed.
Shutdown ==
    /\ ~down
    /\ down' = TRUE
    /\ closed' = closed \cup listening
    /\ listening' = {}
    /\ beating' = beating \ (listening \ closed)
    /\ UNCHANGED <<dataVars, cacheVars, pc, shown, gone, leases, revoked, faults>>

-----------------------------------------------------------------------------
Data == Change \/ \E m \in messages : Hear(m) \/ Lose(m)
Service == Tick \/ TakeSnapshot \/ Resolve \/ ComputeFails \/ Grow
Connection(c) ==
    \/ Request(c) \/ Acquire(c) \/ AcquireFails(c) \/ Begin(c)
    \/ Leave(c) \/ Beat(c) \/ GiveUp(c) \/ Expire(c)

Next == Data \/ Service \/ SignOut \/ Shutdown \/ \E c \in Streams : Connection(c)

Spec == Init /\ [][Next]_vars

\* The timer, the queries, the clock and the heartbeats go on; messages need
\* not arrive, clients need not leave and lifetimes need not end.
Fairness ==
    /\ WF_vars(Tick) /\ WF_vars(TakeSnapshot) /\ WF_vars(Resolve) /\ WF_vars(Grow)
    /\ \A c \in Streams : WF_vars(Begin(c)) /\ WF_vars(Beat(c))

FairSpec == Spec /\ Fairness

-----------------------------------------------------------------------------
(* Properties. *)

Viewing(c) == pc[c] = "open" /\ c \notin closed

\* A change that was announced is never forgotten: either the service still
\* knows it has to look, or what it has read is at least that new.
NothingMissed ==
    ~dirty => \/ computing = "begun"
              \/ computing = "read" /\ reading >= told
              \/ computing = "none" /\ cache >= told

\* What a client sees never goes back to an older snapshot.
ShownGrows == [][\A c \in Streams : shown'[c] >= shown[c]]_vars

\* Every change is shown in the end on every open stream, although messages get
\* lost, snapshots fail, and other streams' snapshots reset the dirty flag.
StreamsCatchUp ==
    \A c \in Streams : \A n \in 1 .. MaxRev :
        (Viewing(c) /\ rev >= n) ~> (shown[c] >= n \/ ~Viewing(c) \/ down)

\* Signing out closes the streams of the session, also those being opened.
SignOutCloses == \A c \in Streams : (revoked /\ Viewing(c)) ~> ~Viewing(c)

\* A closed stream leaves nothing behind: no listener, no timers.
ClosedLeavesNothing == closed \cap (listening \cup beating) = {}
=============================================================================
