------------------------------- MODULE Intake -------------------------------
(***************************************************************************)
(* Webhook intake: what one API process does with POST /webhook/meta-lead. *)
(* The guard, the shared and cached backlog count, and the transaction     *)
(* that takes the credential row FOR SHARE, then the advisory lock of the  *)
(* event, then looks for the receipt, inserts and commits.  Each is an     *)
(* action of its own, so requests interleave at every await.               *)
(*                                                                         *)
(* A message names its sender (a webhook key or the signed-in User), an    *)
(* event id and a content; the source of a message follows from its        *)
(* sender.  Nothing in the code sets expiresAt, so keys only get revoked.  *)
(***************************************************************************)
EXTENDS Naturals, FiniteSets

CONSTANTS
    Handlers,    \* requests in progress
    Keys,        \* webhook credentials
    User,        \* the sender of a message without a key
    Messages,    \* [by, event, content]: what may be sent
    Malformed,   \* messages the schema, or the rules for manual intake, refuse
    MaxPending,  \* MAX_PENDING_EVENTS
    MaxFaults,   \* bound: lost messages, failures of the database or the process, replays
    None

SourceOf(m) == IF m.by = User THEN "manual" ELSE "meta"
Slot(m) == <<SourceOf(m), m.event>>
Slots == {Slot(m) : m \in Messages}
Contents == {m.content : m \in Messages}

ASSUME IntakeAssumption ==
    /\ IsFiniteSet(Slots)
    /\ User \notin Keys
    /\ \A m \in Messages : m = [by |-> m.by, event |-> m.event, content |-> m.content]
    /\ \A m \in Messages : m.by \in Keys \cup {User}
    /\ Malformed \subseteq Messages
    /\ MaxPending \in Nat \ {0} /\ MaxFaults \in Nat
    /\ None \notin Messages /\ None \notin Contents

VARIABLES
    credential,  \* key: absent, active or revoked
    receipts,    \* slot: the receipt, or NoReceipt
    queued,      \* slots whose process outbox row is committed
    handler,     \* handler: the request it serves
    backlog,     \* WebhooksService.backlog
    fresh,       \* no more than a second since WebhooksService.checked
    checking,    \* WebhooksService.checking: a count is under way
    told,        \* promises that left the server: message and verdict
    faults

dbVars == <<credential, receipts, queued>>
cacheVars == <<backlog, fresh, checking>>
intakeVars == <<dbVars, handler, cacheVars, told, faults>>

NoReceipt == [content |-> None, by |-> None, state |-> "none"]
ReceiptRow == [content : Contents, by : Keys \cup {User},
               state : {"pending", "processed", "failed"}] \cup {NoReceipt}

\* What a handler waits for, in the order of the code.
Stages == {"idle", "admitted", "counting", "judged", "begun", "locked",
           "missing", "inserted", "answering"}
Verdicts == {"none", "created", "repeated", "conflict", "overloaded", "unauthorized",
             "invalid", "error", "unique"}
Promises == {"created", "repeated", "conflict"}
Free == [at |-> "idle", msg |-> None, over |-> FALSE, verdict |-> "none"]

TypeOK ==
    /\ credential \in [Keys -> {"absent", "active", "revoked"}]
    /\ receipts \in [Slots -> ReceiptRow]
    /\ queued \subseteq Slots
    /\ handler \in [Handlers -> [at : Stages, msg : Messages \cup {None}, over : BOOLEAN,
                                 verdict : Verdicts]]
    /\ \A h \in Handlers : handler[h].at # "idle" => handler[h].msg \in Messages
    /\ backlog \in 0 .. MaxPending
    /\ fresh \in BOOLEAN /\ checking \in BOOLEAN
    /\ told \subseteq Messages \X Promises
    /\ faults \in 0 .. MaxFaults

Init ==
    /\ credential = [k \in Keys |-> "absent"]
    /\ receipts = [s \in Slots |-> NoReceipt]
    /\ queued = {}
    /\ handler = [h \in Handlers |-> Free]
    /\ backlog = 0
    /\ fresh = FALSE
    /\ checking = FALSE
    /\ told = {}
    /\ faults = 0

-----------------------------------------------------------------------------
(* Deliberately wrong variants, one step away from the code: a run in which  *)
(* one of them takes the place of its original must fail.                    *)

NoShareLock(k) == FALSE                                     \* for KeyShared
OverloadFirst(row, over) == over                            \* for Refused
AnyRepeat(row, m) == TRUE                                   \* for SamePayload

-----------------------------------------------------------------------------
Pending == Cardinality({s \in Slots : receipts[s].state = "pending"})

At(h, stage) == handler[h].at = stage
Move(h, stage) == handler' = [handler EXCEPT ![h].at = stage]
Answer(h, verdict) ==
    handler' = [handler EXCEPT ![h].at = "answering", ![h].verdict = verdict]
Fault == faults < MaxFaults /\ faults' = faults + 1

InTransaction(h) == handler[h].at \in {"begun", "locked", "missing", "inserted"}

\* The credential row is locked FOR SHARE by a transaction under way.
KeyShared(k) == \E h \in Handlers : InTransaction(h) /\ handler[h].msg.by = k

\* The advisory lock 'receipt:<source>:<event id>'.
EventLocked(s) ==
    \E h \in Handlers : /\ handler[h].at \in {"locked", "missing", "inserted"}
                        /\ Slot(handler[h].msg) = s

-----------------------------------------------------------------------------
(* Credentials: webhook-key.js create or import, and revoke. *)

CreateKey(k) ==
    /\ credential[k] = "absent"
    /\ credential' = [credential EXCEPT ![k] = "active"]
    /\ UNCHANGED <<receipts, queued, handler, cacheVars, told, faults>>

\* The UPDATE waits for transactions that share the row.
Revoke(k) ==
    /\ credential[k] = "active"
    /\ ~KeyShared(k)
    /\ credential' = [credential EXCEPT ![k] = "revoked"]
    /\ UNCHANGED <<receipts, queued, handler, cacheVars, told, faults>>

-----------------------------------------------------------------------------
(* One request. *)

\* The session of a user is AuthService's affair: it may be found valid or not.
Authentic(m) ==
    IF m.by \in Keys THEN {credential[m.by] = "active"} ELSE BOOLEAN

\* WebhookGuard, then the schema, then the first tests of accept().
Receive(h, m) ==
    /\ At(h, "idle")
    /\ \E valid \in Authentic(m) :
         LET verdict == IF ~valid THEN "unauthorized"
                        ELSE IF m \in Malformed THEN "invalid" ELSE "none"
         IN handler' = [handler EXCEPT ![h] =
                [Free EXCEPT !.at = IF verdict = "none" THEN "admitted" ELSE "answering",
                             !.msg = m, !.verdict = verdict]]
    /\ UNCHANGED <<dbVars, cacheVars, told, faults>>

Full(n) == n >= MaxPending

\* overloaded(): a fresh count is used at once; otherwise one count is shared.
Consult(h) ==
    /\ At(h, "admitted")
    /\ IF fresh
       THEN /\ handler' = [handler EXCEPT ![h].at = "judged", ![h].over = Full(backlog)]
            /\ UNCHANGED checking
       ELSE Move(h, "counting") /\ checking' = TRUE
    /\ UNCHANGED <<dbVars, backlog, fresh, told, faults>>

\* SELECT count(*) FROM (... LIMIT MAX_PENDING_EVENTS)
Limited(n) == IF Full(n) THEN MaxPending ELSE n

\* The count ends: its value is kept, and every request that waits for it goes on.
CountIs(n) ==
    /\ checking
    /\ backlog' = n
    /\ fresh' = TRUE
    /\ checking' = FALSE
    /\ handler' = [h \in Handlers |->
           IF At(h, "counting")
           THEN [handler[h] EXCEPT !.at = "judged", !.over = Full(n)]
           ELSE handler[h]]
    /\ UNCHANGED <<dbVars, told, faults>>

\* Wrong, for Counted: the backlog seen never goes down.
HighWater == CountIs(IF Full(backlog) THEN backlog ELSE Limited(Pending))

Counted == CountIs(Limited(Pending))

\* finally { checking = undefined }
GiveUp == checking' = FALSE /\ UNCHANGED <<backlog, fresh>>

CountFails ==
    /\ checking
    /\ Fault
    /\ GiveUp
    /\ handler' = [h \in Handlers |->
           IF At(h, "counting")
           THEN [handler[h] EXCEPT !.at = "answering", !.verdict = "error"]
           ELSE handler[h]]
    /\ UNCHANGED <<dbVars, told>>

\* A second goes by.
Lapse ==
    /\ fresh
    /\ fresh' = FALSE
    /\ UNCHANGED <<dbVars, handler, backlog, checking, told, faults>>

\* BEGIN; the credential is read again, FOR SHARE.
Begin(h) ==
    LET by == handler[h].msg.by IN
    /\ At(h, "judged")
    /\ IF by \in Keys /\ credential[by] # "active"
       THEN Answer(h, "unauthorized")
       ELSE Move(h, "begun")
    /\ UNCHANGED <<dbVars, cacheVars, told, faults>>

LockEvent(h) ==
    /\ At(h, "begun")
    /\ ~EventLocked(Slot(handler[h].msg))
    /\ Move(h, "locked")
    /\ UNCHANGED <<dbVars, cacheVars, told, faults>>

SamePayload(row, m) == row.content = m.content
Refused(row, over) == row = NoReceipt /\ over

Find(h) ==
    LET m == handler[h].msg
        row == receipts[Slot(m)]
    IN
    /\ At(h, "locked")
    /\ IF Refused(row, handler[h].over) THEN Answer(h, "overloaded")
       ELSE IF row = NoReceipt THEN Move(h, "missing")
       ELSE Answer(h, IF SamePayload(row, m) THEN "repeated" ELSE "conflict")
    /\ UNCHANGED <<dbVars, cacheVars, told, faults>>

\* INSERT of receipt and outbox row.  The unique index on (source, event id)
\* makes it wait for a rival's uncommitted row and fail on a committed one.
Insert(h) ==
    LET s == Slot(handler[h].msg) IN
    /\ At(h, "missing")
    /\ \A g \in Handlers : At(g, "inserted") => Slot(handler[g].msg) # s
    /\ IF receipts[s] = NoReceipt THEN Move(h, "inserted") ELSE Answer(h, "unique")
    /\ UNCHANGED <<dbVars, cacheVars, told, faults>>

Save(m) ==
    /\ receipts' = [receipts EXCEPT ![Slot(m)] =
                       [content |-> m.content, by |-> m.by, state |-> "pending"]]
    /\ queued' = queued \cup {Slot(m)}

\* COMMIT; its answer may be lost, and then the sender is told of an error.
Commit(h) ==
    /\ At(h, "inserted")
    /\ Save(handler[h].msg)
    /\ \/ Answer(h, "created") /\ UNCHANGED faults
       \/ Answer(h, "error") /\ Fault
    /\ UNCHANGED <<credential, cacheVars, told>>

\* Any statement of the transaction fails; it rolls back.
Abort(h) ==
    /\ InTransaction(h)
    /\ Fault
    /\ Answer(h, "error")
    /\ UNCHANGED <<dbVars, cacheVars, told>>

\* The answer leaves the server.
Reply(h) ==
    /\ At(h, "answering")
    /\ told' = IF handler[h].verdict \in Promises
               THEN told \cup {<<handler[h].msg, handler[h].verdict>>} ELSE told
    /\ handler' = [handler EXCEPT ![h] = Free]
    /\ UNCHANGED <<dbVars, cacheVars, faults>>

\* The process dies and starts again: open transactions roll back.
Crash ==
    /\ Fault
    /\ handler' = [h \in Handlers |-> Free]
    /\ backlog' = 0 /\ fresh' = FALSE /\ checking' = FALSE
    /\ UNCHANGED <<dbVars, told>>

-----------------------------------------------------------------------------
(* The rest of the system, as far as a receipt shows it: the worker settles  *)
(* it, an administrator replays a failed one.                                *)

Settle(s, outcome) ==
    /\ receipts[s].state = "pending"
    /\ receipts' = [receipts EXCEPT ![s].state = outcome]
    /\ UNCHANGED <<credential, queued, handler, cacheVars, told, faults>>

Replay(s) ==
    /\ receipts[s].state = "failed"
    /\ Fault
    /\ receipts' = [receipts EXCEPT ![s].state = "pending"]
    /\ UNCHANGED <<credential, queued, handler, cacheVars, told>>

-----------------------------------------------------------------------------
Progress(h) ==
    \/ Consult(h) \/ Begin(h) \/ LockEvent(h) \/ Find(h) \/ Insert(h)
    \/ Commit(h)

Server ==
    \/ \E h \in Handlers : Progress(h) \/ Abort(h)
    \/ Counted \/ CountFails \/ Lapse

Outside ==
    \/ \E k \in Keys : CreateKey(k) \/ Revoke(k)
    \/ \E s \in Slots : Replay(s) \/ \E o \in {"processed", "failed"} : Settle(s, o)

Next ==
    \/ \E h \in Handlers : Reply(h) \/ \E m \in Messages : Receive(h, m)
    \/ Crash
    \/ Server
    \/ Outside

Spec == Init /\ [][Next]_intakeVars

-----------------------------------------------------------------------------
(* Properties. *)

\* What a sender was told stays true: an accepted or repeated message is the
\* content of the committed receipt, whose outbox row is committed with it, and a
\* conflict is reported only to a sender whose content lost to another.
AnswersAreTrue ==
    \A m \in Messages :
        /\ {<<m, "created">>, <<m, "repeated">>} \cap told # {} =>
               receipts[Slot(m)].content = m.content /\ Slot(m) \in queued
        /\ <<m, "conflict">> \in told => receipts[Slot(m)].content \notin {m.content, None}

\* Of two senders of one event id the later is told that it repeats or conflicts,
\* never of a violated unique index.
LoserIsTold == \A h \in Handlers : handler[h].verdict # "unique"

\* Once a key is revoked, no receipt is committed under it, whatever the guard
\* found before.
RevokedKeysAreSilent ==
    [][\A s \in Slots : receipts[s] = NoReceipt /\ receipts'[s] # NoReceipt =>
           receipts'[s].by = User \/ credential[receipts'[s].by] = "active"]_intakeVars

\* A receipt, once committed, keeps its content and sender; and an event that has
\* one is never refused for overload.
FirstWins ==
    [][\A s \in Slots : receipts[s] # NoReceipt =>
           /\ receipts'[s].content = receipts[s].content
           /\ receipts'[s].by = receipts[s].by
           /\ \A h \in Handlers :
                (Find(h) /\ handler'[h].verdict = "overloaded")
                    => Slot(handler[h].msg) # s]_intakeVars
=============================================================================
