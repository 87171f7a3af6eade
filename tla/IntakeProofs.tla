---------------------------- MODULE IntakeProofs ----------------------------
(***************************************************************************)
(* Safety of Intake, and of AddLead that uses it, for every set of         *)
(* handlers, keys and messages.                                            *)
(*                                                                         *)
(* The advisory lock of the event makes what a handler found remain true:  *)
(* while one is between its look and its commit no other is, so a missing  *)
(* receipt is still missing; and the shared credential row keeps the key   *)
(* active until the commit.                                                *)
(*                                                                         *)
(* The dialog sends one message for an event, so whatever the server holds *)
(* of that event on its way to a receipt is the submission shown; and a    *)
(* submission the dialog forgets was malformed, and got nowhere.           *)
(***************************************************************************)
EXTENDS AddLead, FiniteSetTheorems, TLAPS

Held == {"locked", "missing", "inserted"}
Within == {"begun", "locked", "missing", "inserted"}

Row ==
    [at : Stages, msg : Messages \cup {None}, over : BOOLEAN, verdict : Verdicts]

\* What a request under way knows of its event and its key.
Good(x) ==
    /\ x.verdict # "unique"
    /\ x.at # "idle" => x.msg \in Messages
    /\ x.at \in {"missing", "inserted"} => receipts[Slot(x.msg)] = NoReceipt
    /\ x.at \in Within /\ x.msg.by \in Keys => credential[x.msg.by] = "active"
    /\ x.at = "answering" =>
           /\ x.verdict \in {"created", "repeated"} => receipts[Slot(x.msg)].content = x.msg.content
           /\ x.verdict = "conflict" => receipts[Slot(x.msg)].content \notin {x.msg.content, None}

\* One handler at most has the lock of an event.
Locks ==
    \A g, h \in Handlers :
        handler[g].at \in Held /\ handler[h].at \in Held
            /\ Slot(handler[g].msg) = Slot(handler[h].msg) => g = h

\* The outbox row is committed with the receipt.
Together == \A s \in Slots : receipts[s] # NoReceipt => s \in queued

IInv ==
    /\ TypeOK /\ Locks /\ Together /\ AnswersAreTrue
    /\ \A h \in Handlers : Good(handler[h])

-----------------------------------------------------------------------------
\* What the assumption says of messages and their slots.
LEMMA Shape ==
  /\ \A m \in Messages : Slot(m) \in Slots /\ m.content \in Contents /\ m # None
                         /\ m.by \in Keys \cup {User}
  /\ None \notin Contents /\ None \notin Messages /\ IsFiniteSet(Slots)
  /\ MaxPending \in Nat /\ MaxFaults \in Nat
BY IntakeAssumption DEF IntakeAssumption, Slots, Contents

LEMMA Freed == Free \in Row /\ Free.at = "idle" /\ Free.verdict = "none"
BY DEF Free, Row, Stages, Verdicts

LEMMA InitIInv == Init => IInv
<1> SUFFICES ASSUME Init PROVE IInv
  OBVIOUS
<1>1. \A h \in Handlers : handler[h] = Free
  BY DEF Init
<1>2. handler \in [Handlers -> Row]
  BY Freed DEF Init
<1>3. \A s \in Slots : receipts[s] = NoReceipt
  BY DEF Init
<1>4. TypeOK
  <2>1. receipts \in [Slots -> ReceiptRow]
    BY DEF Init, ReceiptRow
  <2>2. \A h \in Handlers : handler[h].at # "idle" => handler[h].msg \in Messages
    BY <1>1, Freed
  <2>3. 0 \in 0 .. MaxPending /\ 0 \in 0 .. MaxFaults
    BY Shape
  <2> QED
    BY <1>2, <2>1, <2>2, <2>3 DEF Init, TypeOK, Row
<1>5. Locks
  BY <1>1, Freed DEF Locks, Held
<1>6. Together /\ AnswersAreTrue
  BY <1>3 DEF Init, Together, AnswersAreTrue
<1>7. \A h \in Handlers : Good(handler[h])
  BY <1>1, Freed DEF Good, Within
<1> QED
  BY <1>4, <1>5, <1>6, <1>7 DEF IInv

\* A step of one handler that commits nothing.
LEMMA HandlerStep ==
  ASSUME IInv, NEW h \in Handlers, NEW new \in Row,
         handler' = [handler EXCEPT ![h] = new],
         UNCHANGED <<dbVars, told>>,
         backlog' \in 0 .. MaxPending, fresh' \in BOOLEAN, checking' \in BOOLEAN,
         faults' \in 0 .. MaxFaults,
         Good(new),
         new.at \in Held =>
             (handler[h].at \in Held /\ handler[h].msg = new.msg) \/ ~EventLocked(Slot(new.msg))
  PROVE  IInv'
<1>1. handler'[h] = new /\ \A g \in Handlers \ {h} : handler'[g] = handler[g]
  BY DEF IInv, TypeOK
<1>2. \A g \in Handlers : Good(handler'[g])
  BY <1>1 DEF IInv
<1>3. \A g \in Handlers : Good(handler[g])'
  BY <1>2 DEF Good, dbVars
<1>4. TypeOK'
  <2>1. handler' \in [Handlers -> Row]
    BY DEF IInv, TypeOK, Row
  <2>2. \A g \in Handlers : handler'[g].at # "idle" => handler'[g].msg \in Messages
    BY <1>2 DEF Good
  <2> QED
    BY <2>1, <2>2 DEF IInv, TypeOK, dbVars, Row
<1>5. Locks'
  BY <1>1 DEF IInv, Locks, EventLocked, Held
<1>6. Together' /\ AnswersAreTrue'
  BY DEF IInv, Together, AnswersAreTrue, dbVars
<1> QED
  BY <1>3, <1>4, <1>5, <1>6 DEF IInv

\* A step that leaves the handlers alone, and rows in a way that shows nothing new.
LEMMA OutsideStep ==
  ASSUME IInv, handler' = handler, told' = told, UNCHANGED <<queued, cacheVars>>,
         TypeOK',
         \A s \in Slots : /\ receipts'[s].content = receipts[s].content
                          /\ receipts'[s] = NoReceipt <=> receipts[s] = NoReceipt,
         \A k \in Keys : KeyShared(k) /\ credential[k] = "active" => credential'[k] = "active"
  PROVE  IInv'
<1>1. \A h \in Handlers : Good(handler[h])'
  <2> SUFFICES ASSUME NEW h \in Handlers PROVE Good(handler[h])'
    OBVIOUS
  <2>1. Good(handler[h])
    BY DEF IInv
  <2>2. handler[h].at # "idle" => handler[h].msg \in Messages /\ Slot(handler[h].msg) \in Slots
    BY <2>1, Shape DEF Good
  <2>3. handler[h].at \in Within /\ handler[h].msg.by \in Keys => KeyShared(handler[h].msg.by)
    BY DEF KeyShared, InTransaction, Within
  <2>4. "idle" \notin {"missing", "inserted", "answering"} /\ "idle" \notin Within
    BY DEF Within
  <2> QED
    BY <2>1, <2>2, <2>3, <2>4 DEF Good, Slot, SourceOf
<1>2. Locks' /\ Together'
  BY DEF IInv, Locks, Together, Slot, SourceOf
<1>3. AnswersAreTrue'
  BY Shape DEF IInv, AnswersAreTrue, Slot, SourceOf
<1> QED
  BY <1>1, <1>2, <1>3 DEF IInv

-----------------------------------------------------------------------------
LEMMA Types ==
  ASSUME IInv
  PROVE  /\ \A h \in Handlers : handler[h] \in Row /\ Good(handler[h])
         /\ backlog \in 0 .. MaxPending /\ fresh \in BOOLEAN /\ checking \in BOOLEAN
         /\ faults \in 0 .. MaxFaults
BY DEF IInv, TypeOK, Row

\* A fault stays within its bound.
LEMMA Faults == ASSUME IInv, Fault PROVE faults' \in 0 .. MaxFaults
BY Shape DEF IInv, TypeOK, Fault

LEMMA ReceiveKeeps ==
  ASSUME IInv, NEW h \in Handlers, NEW m \in Messages, Receive(h, m) PROVE IInv'
<1>1. PICK valid \in Authentic(m) :
        LET verdict == IF ~valid THEN "unauthorized"
                       ELSE IF m \in Malformed THEN "invalid" ELSE "none"
        IN handler' = [handler EXCEPT ![h] =
               [Free EXCEPT !.at = IF verdict = "none" THEN "admitted" ELSE "answering",
                            !.msg = m, !.verdict = verdict]]
  BY DEF Receive
<1> DEFINE verdict == IF ~valid THEN "unauthorized"
                      ELSE IF m \in Malformed THEN "invalid" ELSE "none"
           new == [Free EXCEPT !.at = IF verdict = "none" THEN "admitted" ELSE "answering",
                               !.msg = m, !.verdict = verdict]
<1>2. /\ new \in Row /\ new.at \in {"admitted", "answering"} /\ new.msg = m
      /\ new.verdict \in {"none", "unauthorized", "invalid"}
  BY DEF Free, Row, Stages, Verdicts
<1>3. handler' = [handler EXCEPT ![h] = new]
  BY <1>1
<1> HIDE DEF new
<1>4. Good(new)
  BY <1>2 DEF Good, Within
<1> QED
  BY <1>2, <1>3, <1>4, Types, HandlerStep DEF Receive, cacheVars, Held

\* The records that Move and Answer make.
LEMMA Moved ==
  ASSUME NEW x \in Row, NEW stage \in Stages
  PROVE  /\ [x EXCEPT !.at = stage] \in Row
         /\ [x EXCEPT !.at = stage].at = stage
         /\ [x EXCEPT !.at = stage].msg = x.msg
         /\ [x EXCEPT !.at = stage].verdict = x.verdict
BY DEF Row

LEMMA Answered ==
  ASSUME IInv, NEW h \in Handlers, NEW verdict \in Verdicts \ {"unique"},
         handler[h].at # "idle", Answer(h, verdict),
         UNCHANGED <<dbVars, told>>,
         backlog' \in 0 .. MaxPending, fresh' \in BOOLEAN, checking' \in BOOLEAN,
         faults' \in 0 .. MaxFaults,
         verdict = "repeated" =>
             receipts[Slot(handler[h].msg)].content = handler[h].msg.content,
         verdict = "conflict" =>
             receipts[Slot(handler[h].msg)].content \notin {handler[h].msg.content, None},
         verdict # "created"
  PROVE  IInv'
<1> DEFINE new == [handler[h] EXCEPT !.at = "answering", !.verdict = verdict]
<1>1. handler[h] \in Row /\ Good(handler[h])
  BY Types
<1>2. /\ new \in Row /\ new.at = "answering" /\ new.msg = handler[h].msg
      /\ new.verdict = verdict
  BY <1>1 DEF Row, Stages
<1>3. handler' = [handler EXCEPT ![h] = new]
  BY <1>1 DEF Answer, IInv, TypeOK
<1> HIDE DEF new
<1>4. Good(new)
  BY <1>1, <1>2 DEF Good, Within
<1> QED
  BY <1>2, <1>3, <1>4, HandlerStep DEF Held

LEMMA Staged ==
  ASSUME IInv, NEW h \in Handlers, NEW stage \in Stages \ {"answering"},
         handler[h].at # "idle", Move(h, stage),
         UNCHANGED <<dbVars, told>>,
         backlog' \in 0 .. MaxPending, fresh' \in BOOLEAN, checking' \in BOOLEAN,
         faults' \in 0 .. MaxFaults,
         stage \in {"missing", "inserted"} => receipts[Slot(handler[h].msg)] = NoReceipt,
         stage \in Within /\ handler[h].msg.by \in Keys => credential[handler[h].msg.by] = "active",
         stage \in Held => handler[h].at \in Held \/ ~EventLocked(Slot(handler[h].msg))
  PROVE  IInv'
<1> DEFINE new == [handler[h] EXCEPT !.at = stage]
<1>1. handler[h] \in Row /\ Good(handler[h])
  BY Types
<1>2. /\ new \in Row /\ new.at = stage /\ new.msg = handler[h].msg
      /\ new.verdict = handler[h].verdict
  BY <1>1, Moved
<1>3. handler' = [handler EXCEPT ![h] = new]
  BY <1>1 DEF Move
<1> HIDE DEF new
<1>4. Good(new)
  BY <1>1, <1>2 DEF Good, Within
<1> QED
  BY <1>2, <1>3, <1>4, HandlerStep

LEMMA ConsultKeeps == ASSUME IInv, NEW h \in Handlers, Consult(h) PROVE IInv'
<1>1. handler[h] \in Row /\ Good(handler[h]) /\ handler[h].at = "admitted"
  BY Types DEF Consult, At
<1>2. CASE fresh
  <2> DEFINE new == [handler[h] EXCEPT !.at = "judged", !.over = Full(backlog)]
  <2>1. /\ new \in Row /\ new.at = "judged" /\ new.msg = handler[h].msg
        /\ new.verdict = handler[h].verdict
    <3>1. Full(backlog) \in BOOLEAN
      BY DEF Full
    <3> QED
      BY <1>1, <3>1 DEF Row, Stages
  <2>2. handler' = [handler EXCEPT ![h] = new] /\ checking' = checking
    BY <1>1, <1>2 DEF Consult, IInv, TypeOK
  <2> HIDE DEF new
  <2>3. Good(new)
    BY <1>1, <2>1 DEF Good, Within
  <2> QED
    BY <2>1, <2>2, <2>3, Types, HandlerStep DEF Consult, Held
<1>3. CASE ~fresh
  <2>1. Move(h, "counting") /\ checking' = TRUE
    BY <1>3 DEF Consult
  <2> QED
    BY <1>1, <2>1, Types, Staged DEF Consult, Held, Within, Stages
<1> QED
  BY <1>2, <1>3

\* The end of a count, one way or the other, for everyone who waits for it.
LEMMA CountStep ==
  ASSUME IInv, UNCHANGED <<dbVars, told>>,
         backlog' \in 0 .. MaxPending, fresh' \in BOOLEAN, checking' \in BOOLEAN,
         faults' \in 0 .. MaxFaults,
         \A h \in Handlers : /\ handler'[h] \in Row /\ Good(handler'[h])
                             /\ handler'[h].at \in Held => handler'[h] = handler[h],
         handler' = [h \in Handlers |-> handler'[h]]
  PROVE  IInv'
<1>1. handler' \in [Handlers -> Row]
  OBVIOUS
<1>2. \A h \in Handlers : handler'[h].at # "idle" => handler'[h].msg \in Messages
  BY DEF Good
<1>3. TypeOK'
  BY <1>1, <1>2 DEF IInv, TypeOK, dbVars, Row
<1>4. Locks'
  BY DEF IInv, Locks
<1>5. Together' /\ AnswersAreTrue'
  BY DEF IInv, Together, AnswersAreTrue, dbVars
<1>6. \A h \in Handlers : Good(handler[h])'
  BY DEF Good, dbVars
<1> QED
  BY <1>3, <1>4, <1>5, <1>6 DEF IInv

LEMMA CountedKeeps == ASSUME IInv, Counted PROVE IInv'
<1> DEFINE n == Limited(Pending)
<1>1. n \in 0 .. MaxPending
  <2>1. Pending \in Nat
    <3>1. IsFiniteSet({s \in Slots : receipts[s].state = "pending"})
      BY Shape, FS_Subset
    <3> QED
      BY <3>1, FS_CardinalityType DEF Pending
  <2> QED
    BY <2>1, Shape DEF Limited, Full
<1>2. CountIs(n)
  BY DEF Counted
<1> HIDE DEF n
<1>3. \A h \in Handlers : /\ handler'[h] \in Row /\ Good(handler'[h])
                          /\ handler'[h].at \in Held => handler'[h] = handler[h]
  <2> SUFFICES ASSUME NEW h \in Handlers
               PROVE  /\ handler'[h] \in Row /\ Good(handler'[h])
                      /\ handler'[h].at \in Held => handler'[h] = handler[h]
    OBVIOUS
  <2>1. handler[h] \in Row /\ Good(handler[h])
    BY Types
  <2>2. CASE At(h, "counting")
    <3> DEFINE new == [handler[h] EXCEPT !.at = "judged", !.over = Full(n)]
    <3>1. /\ new \in Row /\ new.at = "judged" /\ new.msg = handler[h].msg
          /\ new.verdict = handler[h].verdict
      <4>1. Full(n) \in BOOLEAN
        BY DEF Full
      <4> QED
        BY <2>1, <4>1 DEF Row, Stages
    <3>2. handler'[h] = new
      BY <1>2, <2>2 DEF CountIs
    <3> HIDE DEF new
    <3>3. Good(new)
      BY <2>1, <2>2, <3>1 DEF Good, Within, At
    <3> QED
      BY <3>1, <3>2, <3>3 DEF Held
  <2>3. CASE ~At(h, "counting")
    BY <1>2, <2>1, <2>3 DEF CountIs
  <2> QED
    BY <2>2, <2>3
<1>4. handler' = [h \in Handlers |-> handler'[h]]
  BY <1>2 DEF CountIs
<1> QED
  BY <1>1, <1>2, <1>3, <1>4, Types, CountStep DEF CountIs

LEMMA CountFailsKeeps == ASSUME IInv, CountFails PROVE IInv'
<1>1. \A h \in Handlers : /\ handler'[h] \in Row /\ Good(handler'[h])
                          /\ handler'[h].at \in Held => handler'[h] = handler[h]
  <2> SUFFICES ASSUME NEW h \in Handlers
               PROVE  /\ handler'[h] \in Row /\ Good(handler'[h])
                      /\ handler'[h].at \in Held => handler'[h] = handler[h]
    OBVIOUS
  <2>1. handler[h] \in Row /\ Good(handler[h])
    BY Types
  <2>2. CASE At(h, "counting")
    <3> DEFINE new == [handler[h] EXCEPT !.at = "answering", !.verdict = "error"]
    <3>1. /\ new \in Row /\ new.at = "answering" /\ new.msg = handler[h].msg
          /\ new.verdict = "error"
      BY <2>1 DEF Row, Stages, Verdicts
    <3>2. handler'[h] = new
      BY <2>2 DEF CountFails
    <3> HIDE DEF new
    <3>3. Good(new)
      BY <2>1, <2>2, <3>1 DEF Good, Within, At
    <3> QED
      BY <3>1, <3>2, <3>3 DEF Held
  <2>3. CASE ~At(h, "counting")
    BY <2>1, <2>3 DEF CountFails
  <2> QED
    BY <2>2, <2>3
<1>2. handler' = [h \in Handlers |-> handler'[h]]
  BY DEF CountFails
<1> QED
  BY <1>1, <1>2, Types, Faults, CountStep DEF CountFails, GiveUp

LEMMA CrashKeeps == ASSUME IInv, Crash PROVE IInv'
<1>1. \A h \in Handlers : /\ handler'[h] \in Row /\ Good(handler'[h])
                          /\ handler'[h].at \in Held => handler'[h] = handler[h]
  BY Freed DEF Crash, Good, Held, Within
<1>2. handler' = [h \in Handlers |-> handler'[h]]
  BY DEF Crash
<1>3. 0 \in 0 .. MaxPending
  BY Shape
<1> QED
  BY <1>1, <1>2, <1>3, Faults, CountStep DEF Crash

LEMMA BeginKeeps == ASSUME IInv, NEW h \in Handlers, Begin(h) PROVE IInv'
<1>1. handler[h].at = "judged" /\ UNCHANGED <<dbVars, cacheVars, told, faults>>
  BY DEF Begin, At
<1>2. CASE handler[h].msg.by \in Keys /\ credential[handler[h].msg.by] # "active"
  <2>1. Answer(h, "unauthorized")
    BY <1>2 DEF Begin
  <2> QED
    BY <1>1, <2>1, Types, Answered DEF cacheVars, Verdicts
<1>3. CASE ~(handler[h].msg.by \in Keys /\ credential[handler[h].msg.by] # "active")
  <2>1. Move(h, "begun")
    BY <1>3 DEF Begin
  <2> QED
    BY <1>1, <1>3, <2>1, Types, Staged DEF cacheVars, Stages, Held
<1> QED
  BY <1>2, <1>3

LEMMA LockEventKeeps == ASSUME IInv, NEW h \in Handlers, LockEvent(h) PROVE IInv'
<1>1. /\ handler[h].at = "begun" /\ UNCHANGED <<dbVars, cacheVars, told, faults>>
      /\ ~EventLocked(Slot(handler[h].msg)) /\ Move(h, "locked")
  BY DEF LockEvent, At
<1>2. handler[h].msg.by \in Keys => credential[handler[h].msg.by] = "active"
  BY <1>1, Types DEF Good, Within
<1> QED
  BY <1>1, <1>2, Types, Staged DEF cacheVars, Stages

LEMMA FindKeeps == ASSUME IInv, NEW h \in Handlers, Find(h) PROVE IInv'
<1> DEFINE m == handler[h].msg
           row == receipts[Slot(m)]
<1>1. handler[h].at = "locked" /\ UNCHANGED <<dbVars, cacheVars, told, faults>> /\ m \in Messages
  BY Types DEF Find, At, Good
<1>2. m.by \in Keys => credential[m.by] = "active"
  BY <1>1, Types DEF Good, Within
<1>3. row \in ReceiptRow /\ (row # NoReceipt => row.content # None)
  BY <1>1, Shape DEF IInv, TypeOK, ReceiptRow
<1>4. CASE Answer(h, "overloaded")
  BY <1>1, <1>4, Types, Answered DEF cacheVars, Verdicts
<1>5. CASE row = NoReceipt /\ Move(h, "missing")
  BY <1>1, <1>2, <1>5, Types, Staged DEF cacheVars, Stages, Held
<1>6. CASE row # NoReceipt /\ SamePayload(row, m) /\ Answer(h, "repeated")
  BY <1>1, <1>6, Types, Answered DEF cacheVars, Verdicts, SamePayload
<1>7. CASE row # NoReceipt /\ ~SamePayload(row, m) /\ Answer(h, "conflict")
  BY <1>1, <1>3, <1>7, Types, Answered DEF cacheVars, Verdicts, SamePayload
<1> QED
  BY <1>4, <1>5, <1>6, <1>7 DEF Find

LEMMA InsertKeeps == ASSUME IInv, NEW h \in Handlers, Insert(h) PROVE IInv'
<1>1. handler[h].at = "missing" /\ UNCHANGED <<dbVars, cacheVars, told, faults>>
  BY DEF Insert, At
<1>2. /\ receipts[Slot(handler[h].msg)] = NoReceipt
      /\ handler[h].msg.by \in Keys => credential[handler[h].msg.by] = "active"
  BY <1>1, Types DEF Good, Within
<1>3. Move(h, "inserted")
  BY <1>2 DEF Insert
<1> QED
  BY <1>1, <1>2, <1>3, Types, Staged DEF cacheVars, Stages, Held

LEMMA AbortKeeps == ASSUME IInv, NEW h \in Handlers, Abort(h) PROVE IInv'
<1>1. handler[h].at # "idle" /\ Answer(h, "error") /\ UNCHANGED <<dbVars, cacheVars, told>>
  BY DEF Abort, InTransaction
<1> QED
  BY <1>1, Types, Faults, Answered DEF cacheVars, Verdicts, Abort

\* Rows and handlers change together in Commit and Reply.
LEMMA CommitKeeps == ASSUME IInv, NEW h \in Handlers, Commit(h) PROVE IInv'
<1> DEFINE m == handler[h].msg
           s == Slot(m)
           saved == [content |-> m.content, by |-> m.by, state |-> "pending"]
<1>1. /\ handler[h].at = "inserted" /\ m \in Messages /\ s \in Slots /\ receipts[s] = NoReceipt
      /\ m.content \in Contents /\ m.by \in Keys \cup {User} /\ m.content # None
      /\ handler[h] \in Row
  BY Types, Shape DEF Commit, At, Good
<1>2. /\ receipts' = [receipts EXCEPT ![s] = saved]
      /\ queued' = queued \cup {s} /\ UNCHANGED <<credential, cacheVars, told>>
      /\ faults' \in 0 .. MaxFaults
  BY Types, Faults DEF Commit, Save
<1>3. PICK verdict \in {"created", "error"} : Answer(h, verdict)
  BY DEF Commit
<1> DEFINE new == [handler[h] EXCEPT !.at = "answering", !.verdict = verdict]
<1>4. /\ new \in Row /\ new.at = "answering" /\ new.msg = m /\ new.verdict = verdict
  BY <1>1 DEF Row, Stages, Verdicts
<1>5. handler' = [handler EXCEPT ![h] = new]
  BY <1>1, <1>3 DEF Answer, IInv, TypeOK
<1>6. saved \in ReceiptRow /\ saved # NoReceipt /\ saved.content = m.content
  BY <1>1 DEF ReceiptRow, NoReceipt
<1> HIDE DEF new, saved
<1>7. /\ handler'[h] = new /\ \A g \in Handlers \ {h} : handler'[g] = handler[g]
      /\ receipts'[s] = saved /\ \A t \in Slots \ {s} : receipts'[t] = receipts[t]
  BY <1>1, <1>2, <1>5 DEF IInv, TypeOK
<1>8. ASSUME NEW g \in Handlers PROVE Good(handler[g])'
  <2>1. CASE g = h
    BY <1>1, <1>3, <1>4, <1>6, <1>7, <2>1 DEF Good, Within, Slot, SourceOf
  <2>2. CASE g # h
    <3>1. handler'[g] = handler[g] /\ Good(handler[g]) /\ handler[g] \in Row
      BY <1>7, <2>2, Types
    <3>2. handler[g].at # "idle" => handler[g].msg \in Messages /\ Slot(handler[g].msg) \in Slots
      BY <3>1, Shape DEF Good
    <3>3. handler[g].at \in {"missing", "inserted"} => Slot(handler[g].msg) # s
      BY <1>1, <2>2 DEF IInv, Locks, Held
    <3>4. handler[g].at = "answering" /\ Slot(handler[g].msg) = s =>
              handler[g].verdict \notin {"created", "repeated", "conflict"}
      <4>1. NoReceipt.content = None
        BY DEF NoReceipt
      <4>2. handler[g].at # "idle" => handler[g].msg.content # None
        BY <3>2, Shape
      <4> QED
        BY <1>1, <3>1, <4>1, <4>2 DEF Good
    <3>5. handler[g].at # "idle" /\ Slot(handler[g].msg) # s =>
              receipts'[Slot(handler[g].msg)] = receipts[Slot(handler[g].msg)]
      BY <1>7, <3>2
    <3>6. "idle" \notin {"missing", "inserted", "answering"} /\ "idle" \notin Within
      BY DEF Within
    <3> QED
      BY <1>2, <3>1, <3>2, <3>3, <3>4, <3>5, <3>6 DEF Good, Slot, SourceOf
  <2> QED
    BY <2>1, <2>2
<1>9. TypeOK'
  <2>1. handler' \in [Handlers -> Row] /\ receipts' \in [Slots -> ReceiptRow] /\ queued' \subseteq Slots
    BY <1>1, <1>2, <1>4, <1>5, <1>6 DEF IInv, TypeOK, Row
  <2>2. \A g \in Handlers : handler'[g].at # "idle" => handler'[g].msg \in Messages
    BY <1>1, <1>4, <1>7, Types DEF Good
  <2> QED
    BY <1>2, <2>1, <2>2 DEF IInv, TypeOK, Row, cacheVars
<1>10. Locks'
  BY <1>4, <1>7 DEF IInv, Locks, Held
<1>11. Together'
  BY <1>1, <1>2, <1>7 DEF IInv, Together
<1>12. AnswersAreTrue'
  <2> SUFFICES ASSUME NEW x \in Messages
               PROVE  /\ {<<x, "created">>, <<x, "repeated">>} \cap told # {} =>
                             receipts'[Slot(x)].content = x.content /\ Slot(x) \in queued'
                      /\ <<x, "conflict">> \in told => receipts'[Slot(x)].content \notin {x.content, None}
    BY <1>2 DEF AnswersAreTrue, Slot, SourceOf
  <2>1. Slot(x) \in Slots /\ x.content # None
    BY Shape
  <2>2. CASE Slot(x) = s
    <3>1. receipts[Slot(x)].content = None
      BY <1>1, <2>2 DEF NoReceipt
    <3> QED
      BY <2>1, <3>1 DEF IInv, AnswersAreTrue
  <2>3. CASE Slot(x) # s
    BY <1>2, <1>7, <2>1, <2>3 DEF IInv, AnswersAreTrue
  <2> QED
    BY <2>2, <2>3
<1> QED
  BY <1>8, <1>9, <1>10, <1>11, <1>12 DEF IInv

LEMMA ReplyKeeps == ASSUME IInv, NEW h \in Handlers, Reply(h) PROVE IInv'
<1> DEFINE m == handler[h].msg
           verdict == handler[h].verdict
<1>1. /\ handler[h].at = "answering" /\ m \in Messages /\ Slot(m) \in Slots /\ m.content # None
      /\ Good(handler[h]) /\ handler[h] \in Row
  BY Types, Shape DEF Reply, At, Good
<1>2. UNCHANGED <<dbVars, cacheVars, faults>>
  BY DEF Reply
<1>3. told' \subseteq told \cup {<<m, v>> : v \in {verdict} \cap Promises}
  BY DEF Reply
<1>4. /\ handler'[h] = Free /\ \A g \in Handlers \ {h} : handler'[g] = handler[g]
      /\ handler' \in [Handlers -> Row]
  BY Freed DEF Reply, IInv, TypeOK, Row
<1>5. ASSUME NEW g \in Handlers PROVE Good(handler[g])'
  <2>1. Good(handler'[g])
    BY <1>4, Freed, Types DEF Good, Within
  <2> QED
    BY <1>2, <2>1 DEF Good, dbVars
<1>6. TypeOK'
  <2>1. \A g \in Handlers : handler'[g].at # "idle" => handler'[g].msg \in Messages
    BY <1>4, Freed, Types DEF Good
  <2>2. told' \subseteq Messages \X Promises
    BY <1>1, <1>3 DEF IInv, TypeOK
  <2> QED
    BY <1>2, <1>4, <2>1, <2>2 DEF IInv, TypeOK, Row, dbVars, cacheVars
<1>7. Locks'
  BY <1>4, Freed DEF IInv, Locks, Held
<1>8. Together'
  BY <1>2 DEF IInv, Together, dbVars
<1>9. AnswersAreTrue'
  <2> SUFFICES ASSUME NEW x \in Messages
               PROVE  /\ <<x, "created">> \in told' \/ <<x, "repeated">> \in told' =>
                             receipts[Slot(x)].content = x.content /\ Slot(x) \in queued
                      /\ <<x, "conflict">> \in told' => receipts[Slot(x)].content \notin {x.content, None}
    BY <1>2 DEF AnswersAreTrue, dbVars
  <2>1. \A v : <<x, v>> \in told' => <<x, v>> \in told \/ (x = m /\ v = verdict)
    BY <1>3
  <2>2. verdict \in {"created", "repeated"} => receipts[Slot(m)].content = m.content /\ Slot(m) \in queued
    <3>1. NoReceipt.content = None
      BY DEF NoReceipt
    <3> QED
      BY <1>1, <3>1 DEF Good, IInv, Together
  <2>3. verdict = "conflict" => receipts[Slot(m)].content \notin {m.content, None}
    BY <1>1 DEF Good
  <2>4. /\ <<x, "created">> \in told \/ <<x, "repeated">> \in told =>
               receipts[Slot(x)].content = x.content /\ Slot(x) \in queued
        /\ <<x, "conflict">> \in told => receipts[Slot(x)].content \notin {x.content, None}
    BY DEF IInv, AnswersAreTrue
  <2> QED
    BY <2>1, <2>2, <2>3, <2>4
<1> QED
  BY <1>5, <1>6, <1>7, <1>8, <1>9 DEF IInv

LEMMA OutsideKeeps == ASSUME IInv, Outside PROVE IInv'
<1> SUFFICES ASSUME Outside PROVE IInv'
  OBVIOUS
<1>1. ASSUME NEW k \in Keys, CreateKey(k) PROVE IInv'
  <2>1. TypeOK'
    BY <1>1 DEF CreateKey, IInv, TypeOK, cacheVars
  <2>2. \A j \in Keys : credential[j] = "active" => credential'[j] = "active"
    BY <1>1 DEF CreateKey, IInv, TypeOK
  <2> QED
    BY <1>1, <2>1, <2>2, OutsideStep DEF CreateKey, cacheVars
<1>2. ASSUME NEW k \in Keys, Revoke(k) PROVE IInv'
  <2>1. TypeOK'
    BY <1>2 DEF Revoke, IInv, TypeOK, cacheVars
  <2>2. \A j \in Keys : KeyShared(j) /\ credential[j] = "active" => credential'[j] = "active"
    BY <1>2 DEF Revoke, IInv, TypeOK
  <2> QED
    BY <1>2, <2>1, <2>2, OutsideStep DEF Revoke, cacheVars
<1>3. ASSUME NEW s \in Slots, NEW state \in {"pending", "processed", "failed"},
             receipts[s] # NoReceipt, receipts' = [receipts EXCEPT ![s].state = state],
             UNCHANGED <<credential, queued, handler, cacheVars, told>>, faults' \in 0 .. MaxFaults
      PROVE  IInv'
  <2>1. receipts[s] \in [content : Contents, by : Keys \cup {User}, state : {"pending", "processed", "failed"}]
    BY <1>3 DEF IInv, TypeOK, ReceiptRow
  <2> DEFINE row == [receipts[s] EXCEPT !.state = state]
  <2>2. row \in ReceiptRow /\ row # NoReceipt /\ row.content = receipts[s].content
    BY <2>1, Shape DEF ReceiptRow, NoReceipt
  <2>3. receipts' = [receipts EXCEPT ![s] = row]
    BY <1>3
  <2> HIDE DEF row
  <2>4. TypeOK'
    BY <1>3, <2>2, <2>3 DEF IInv, TypeOK, cacheVars
  <2>5. \A t \in Slots : /\ receipts'[t].content = receipts[t].content
                         /\ receipts'[t] = NoReceipt <=> receipts[t] = NoReceipt
    BY <1>3, <2>2, <2>3 DEF IInv, TypeOK
  <2> QED
    BY <1>3, <2>4, <2>5, OutsideStep DEF cacheVars
<1>4. "none" \notin {"pending", "failed"} /\ NoReceipt.state = "none"
  BY DEF NoReceipt
<1>5. ASSUME NEW s \in Slots, NEW outcome \in {"processed", "failed"}, Settle(s, outcome) PROVE IInv'
  BY <1>3, <1>4, <1>5, Types DEF Settle
<1>6. ASSUME NEW s \in Slots, Replay(s) PROVE IInv'
  BY <1>3, <1>4, <1>6, Types, Faults DEF Replay
<1> QED
  BY <1>1, <1>2, <1>5, <1>6 DEF Outside

LEMMA NextKeeps == IInv /\ [Next]_intakeVars => IInv'
<1> SUFFICES ASSUME IInv, [Next]_intakeVars PROVE IInv'
  OBVIOUS
<1>1. ASSUME NEW h \in Handlers, Progress(h) PROVE IInv'
  BY <1>1, ConsultKeeps, BeginKeeps, LockEventKeeps, FindKeeps, InsertKeeps, CommitKeeps DEF Progress
<1>2. ASSUME Lapse PROVE IInv'
  <2>1. TypeOK'
    BY <1>2 DEF Lapse, IInv, TypeOK, dbVars
  <2> QED
    BY <1>2, <2>1 DEF Lapse, IInv, Locks, Together, AnswersAreTrue, Good, dbVars
<1>3. CASE UNCHANGED intakeVars
  BY <1>3 DEF intakeVars, dbVars, cacheVars, IInv, TypeOK, Locks, Together, AnswersAreTrue, Good
<1> QED
  BY <1>1, <1>2, <1>3, AbortKeeps, CountedKeeps, CountFailsKeeps, ReplyKeeps, ReceiveKeeps, CrashKeeps,
     OutsideKeeps DEF Next, Server

LEMMA Invariance == Spec => []IInv
BY InitIInv, NextKeeps, PTL DEF Spec

-----------------------------------------------------------------------------
\* Credentials, receipts and handlers have their types at all times.
THEOREM TypeCorrect == Spec => []TypeOK
<1>1. IInv => TypeOK
  BY DEF IInv
<1> QED
  BY <1>1, Invariance, PTL

\* What a sender was told of its event stays true.
THEOREM Truth == Spec => []AnswersAreTrue
<1>1. IInv => AnswersAreTrue
  BY DEF IInv
<1> QED
  BY <1>1, Invariance, PTL

\* No sender ever meets the unique index.
THEOREM Told == Spec => []LoserIsTold
<1>1. IInv => LoserIsTold
  BY DEF IInv, Good, LoserIsTold
<1> QED
  BY <1>1, Invariance, PTL

\* A receipt is committed by Commit alone, and it is that of the handler's message.
LEMMA ReceiptMoves ==
  ASSUME IInv, [Next]_intakeVars, NEW s \in Slots, receipts'[s] # receipts[s]
  PROVE  \/ /\ receipts[s] # NoReceipt
            /\ \E state \in {"pending", "processed", "failed"} :
                  receipts'[s] = [receipts[s] EXCEPT !.state = state]
         \/ \E h \in Handlers :
              /\ handler[h].at = "inserted" /\ Slot(handler[h].msg) = s /\ receipts[s] = NoReceipt
              /\ receipts'[s].by = handler[h].msg.by /\ UNCHANGED credential
<1>1. ASSUME NEW t \in Slots, NEW state \in {"pending", "processed", "failed"},
             receipts[t].state \in {"pending", "failed"}, receipts' = [receipts EXCEPT ![t].state = state]
      PROVE  receipts[s] # NoReceipt /\ receipts'[s] = [receipts[s] EXCEPT !.state = state]
  <2>1. t = s
    BY <1>1 DEF IInv, TypeOK
  <2> QED
    BY <1>1, <2>1 DEF IInv, TypeOK, NoReceipt
<1>2. ASSUME NEW t \in Slots, NEW outcome \in {"processed", "failed"}, Settle(t, outcome) \/ Replay(t)
      PROVE  /\ receipts[s] # NoReceipt
             /\ \E state \in {"pending", "processed", "failed"} :
                  receipts'[s] = [receipts[s] EXCEPT !.state = state]
  <2>1. CASE Settle(t, outcome)
    BY <1>1, <2>1 DEF Settle
  <2>2. CASE Replay(t)
    BY <1>1, <2>2 DEF Replay
  <2> QED
    BY <1>2, <2>1, <2>2
<1>3. ASSUME NEW h \in Handlers, Commit(h)
      PROVE  /\ handler[h].at = "inserted" /\ Slot(handler[h].msg) = s /\ receipts[s] = NoReceipt
             /\ receipts'[s].by = handler[h].msg.by /\ UNCHANGED credential
  <2>1. handler[h].at = "inserted" /\ receipts[Slot(handler[h].msg)] = NoReceipt
    BY <1>3, Types DEF Commit, At, Good
  <2>2. Slot(handler[h].msg) = s
    BY <1>3 DEF Commit, Save, IInv, TypeOK
  <2> QED
    BY <1>3, <2>1, <2>2 DEF Commit, Save, IInv, TypeOK
<1>4. ASSUME NEW h \in Handlers,
             Consult(h) \/ Begin(h) \/ LockEvent(h) \/ Find(h) \/ Insert(h) \/ Abort(h) \/ Reply(h)
      PROVE  FALSE
  BY <1>4 DEF Consult, Begin, LockEvent, Find, Insert, Abort, Reply, dbVars
<1>5. ASSUME NEW h \in Handlers, NEW m \in Messages, Receive(h, m) PROVE FALSE
  BY <1>5 DEF Receive, dbVars
<1>6. ASSUME NEW k \in Keys, CreateKey(k) \/ Revoke(k) PROVE FALSE
  BY <1>6 DEF CreateKey, Revoke
<1>7. ~Counted /\ ~CountFails /\ ~Lapse /\ ~Crash /\ ~UNCHANGED intakeVars
  BY DEF Counted, CountIs, CountFails, Lapse, Crash, intakeVars, dbVars
<1>8. CASE \E h \in Handlers : Progress(h)
  BY <1>3, <1>4, <1>8 DEF Progress
<1>9. CASE Outside
  <2>1. "processed" \in {"processed", "failed"}
    OBVIOUS
  <2> QED
    BY <1>2, <1>6, <1>9, <2>1 DEF Outside
<1> QED
  BY <1>4, <1>5, <1>7, <1>8, <1>9 DEF Next, Server

\* No receipt is committed under a revoked key.
THEOREM Silence == Spec => RevokedKeysAreSilent
<1>1. IInv /\ [Next]_intakeVars =>
        \A s \in Slots : receipts[s] = NoReceipt /\ receipts'[s] # NoReceipt =>
            receipts'[s].by = User \/ credential[receipts'[s].by] = "active"
  <2> SUFFICES ASSUME IInv, [Next]_intakeVars, NEW s \in Slots,
                      receipts[s] = NoReceipt, receipts'[s] # NoReceipt
               PROVE  receipts'[s].by = User \/ credential[receipts'[s].by] = "active"
    OBVIOUS
  <2>1. PICK h \in Handlers : handler[h].at = "inserted" /\ receipts'[s].by = handler[h].msg.by
    BY ReceiptMoves
  <2>2. Good(handler[h]) /\ handler[h].msg \in Messages
    BY <2>1, Types DEF Good
  <2> QED
    BY <2>1, <2>2, Shape DEF Good, Within
<1>2. [][\A s \in Slots : receipts[s] = NoReceipt /\ receipts'[s] # NoReceipt =>
            receipts'[s].by = User \/ credential[receipts'[s].by] = "active"]_intakeVars
        => RevokedKeysAreSilent
  BY PTL DEF RevokedKeysAreSilent
<1> QED
  BY <1>1, <1>2, Invariance, PTL DEF Spec

\* The first of an event wins, and stays.
THEOREM Stays == Spec => FirstWins
<1>1. IInv /\ [Next]_intakeVars =>
        \A s \in Slots : receipts[s] # NoReceipt =>
           /\ receipts'[s].content = receipts[s].content
           /\ receipts'[s].by = receipts[s].by
           /\ \A h \in Handlers :
                (Find(h) /\ handler'[h].verdict = "overloaded")
                    => Slot(handler[h].msg) # s
  <2> SUFFICES ASSUME IInv, [Next]_intakeVars, NEW s \in Slots, receipts[s] # NoReceipt
               PROVE  /\ receipts'[s].content = receipts[s].content
                      /\ receipts'[s].by = receipts[s].by
                      /\ \A h \in Handlers :
                           (Find(h) /\ handler'[h].verdict = "overloaded")
                               => Slot(handler[h].msg) # s
    OBVIOUS
  <2>1. receipts'[s].content = receipts[s].content /\ receipts'[s].by = receipts[s].by
    <3>1. receipts[s] \in [content : Contents, by : Keys \cup {User}, state : {"pending", "processed", "failed"}]
      BY DEF IInv, TypeOK, ReceiptRow
    <3>2. CASE receipts'[s] # receipts[s]
      <4>1. PICK state \in {"pending", "processed", "failed"} :
              receipts'[s] = [receipts[s] EXCEPT !.state = state]
        BY <3>2, ReceiptMoves
      <4> QED
        BY <3>1, <4>1
    <3> QED
      BY <3>2
  <2>2. ASSUME NEW h \in Handlers, Find(h), Slot(handler[h].msg) = s PROVE handler'[h].verdict # "overloaded"
    <3>1. handler[h] \in Row
      BY Types
    <3>2. Answer(h, "repeated") \/ Answer(h, "conflict")
      BY <2>2 DEF Find, Refused
    <3>3. ASSUME NEW v, v # "overloaded", Answer(h, v) PROVE handler'[h].verdict # "overloaded"
      <4>1. handler'[h] = [handler[h] EXCEPT !.at = "answering", !.verdict = v]
        BY <3>1, <3>3 DEF Answer, IInv, TypeOK
      <4> QED
        BY <3>1, <3>3, <4>1 DEF Row
    <3> QED
      BY <3>2, <3>3
  <2> QED
    BY <2>1, <2>2
<1>2. [][\A s \in Slots : receipts[s] # NoReceipt =>
           /\ receipts'[s].content = receipts[s].content
           /\ receipts'[s].by = receipts[s].by
           /\ \A h \in Handlers :
                (Find(h) /\ handler'[h].verdict = "overloaded")
                    => Slot(handler[h].msg) # s]_intakeVars => FirstWins
  BY PTL DEF FirstWins
<1> QED
  BY <1>1, <1>2, Invariance, PTL DEF Spec

-----------------------------------------------------------------------------
(* The dialog: what a submission has led to, its dialog accounts for. *)

Early == Stages \ {"idle", "answering"}

\* The dialog shows the event, has opened its lead, or lost it with its page.
Known(e) ==
    \/ e \in opened \cup abandoned
    \/ dialog.submitted # None /\ dialog.submitted.event = e

\* A request under way: refused only if malformed, and that before it gets anywhere;
\* one of the user's is the message of its event, and known until it is answered.
Attempt(x) ==
    x.at # "idle" =>
        /\ x.verdict = "invalid" => x.msg \in Malformed
        /\ x.at \in Early => x.msg \notin Malformed
        /\ x.msg.by = User =>
               /\ x.msg.event \in drawn
               /\ x.at \in Early => Known(x.msg.event)
               /\ dialog.submitted # None /\ dialog.submitted.event = x.msg.event =>
                      dialog.submitted = x.msg

Attempts == \A h \in Handlers : Attempt(handler[h])

\* A receipt of the user's is of a known event.
Caused ==
    \A s \in Slots : s[1] = "manual" /\ receipts[s] # NoReceipt => Known(s[2]) /\ s[2] \in drawn

\* What the dialog shows, and what it waits for.
Shown ==
    /\ DOMAIN dialog = {"open", "submitted", "pending", "accepted"}
    /\ dialog.submitted # None =>
           /\ dialog.submitted \in Drafts /\ dialog.submitted.event \in drawn
           /\ dialog.submitted \in Malformed => receipts[Slot(dialog.submitted)] = NoReceipt
    /\ dialog.pending # None =>
           /\ dialog.pending \in Handlers /\ dialog.submitted # None
           /\ handler[dialog.pending].at # "idle"
           /\ handler[dialog.pending].msg = dialog.submitted

DialogInv == IInv /\ Attempts /\ Caused /\ Shown

-----------------------------------------------------------------------------
\* A message that never arrived.
Lost == Fault /\ UNCHANGED <<dbVars, handler, cacheVars, told>>

LEMMA LostKeeps == ASSUME IInv, Lost PROVE IInv'
<1>1. /\ handler' = handler /\ told' = told /\ receipts' = receipts /\ credential' = credential
      /\ UNCHANGED <<queued, cacheVars>> /\ faults' \in 0 .. MaxFaults
  BY Faults DEF Lost, dbVars
<1>2. TypeOK'
  BY <1>1 DEF IInv, TypeOK, cacheVars
<1> QED
  BY <1>1, <1>2, OutsideStep

\* For intake, whatever the dialog does is a request, an answer, or a lost message.
LEMMA IntakeMoves == ASSUME DialogInv, [DialogNext]_vars PROVE Lost \/ [Next]_intakeVars
<1>1. ASSUME NEW h \in Handlers, NEW m \in Messages, Post(h, m) PROVE Lost \/ Next
  BY <1>1 DEF Post, Lost, Next
<1>2. ASSUME NEW h \in Handlers, Retry(h) PROVE Lost \/ Next
  BY <1>1, <1>2 DEF Retry, DialogInv, Shown, Drafts
<1>3. ASSUME NEW h \in Handlers, NEW m \in Drafts, Submit(h, m) PROVE Lost \/ Next
  BY <1>1, <1>3 DEF Submit, Drafts
<1>4. ASSUME NEW h \in Handlers, Hear(h) PROVE Next
  BY <1>4 DEF Hear, Next
<1>5. TimeOut => Lost
  BY DEF TimeOut, Lost
<1>6. Poll \/ Finish \/ Toggle \/ Unmount => UNCHANGED intakeVars
  BY DEF Poll, Finish, Toggle, Unmount
<1>7. Rest => Next
  BY DEF Rest, Next, Drafts
<1>8. Die => Next
  BY DEF Die, Next
<1>9. UNCHANGED vars => UNCHANGED intakeVars
  BY DEF vars
<1> QED
  BY <1>2, <1>3, <1>4, <1>5, <1>6, <1>7, <1>8, <1>9 DEF DialogNext, User_

LEMMA Inner == ASSUME DialogInv, [DialogNext]_vars PROVE IInv'
BY IntakeMoves, LostKeeps, NextKeeps DEF DialogInv

-----------------------------------------------------------------------------
\* A request goes on, without losing its message or going back.
Steady(h) ==
    \/ handler'[h] = handler[h]
    \/ /\ handler[h].at # "idle" /\ handler'[h].at # "idle" /\ handler'[h].msg = handler[h].msg
       /\ handler'[h].at \in Early => handler[h].at \in Early
       /\ handler'[h].verdict = "invalid" => handler[h].verdict = "invalid"

LEMMA MovesOn ==
  ASSUME IInv, NEW h \in Handlers, handler[h].at \in Early,
         \/ \E stage \in Early : Move(h, stage)
         \/ \E verdict \in Verdicts \ {"invalid"} : Answer(h, verdict)
  PROVE  \A g \in Handlers : Steady(g)
<1>1. handler[h] \in Row /\ handler[h].at # "idle"
  BY Types DEF Early
<1>2. /\ handler'[h].at # "idle" /\ handler'[h].msg = handler[h].msg
      /\ handler'[h].verdict = "invalid" => handler[h].verdict = "invalid"
  <2>1. ASSUME NEW stage \in Early, Move(h, stage)
        PROVE  handler'[h] = [handler[h] EXCEPT !.at = stage] /\ stage # "idle"
    BY <2>1 DEF Move, IInv, TypeOK, Early
  <2>2. ASSUME NEW verdict \in Verdicts \ {"invalid"}, Answer(h, verdict)
        PROVE  handler'[h] = [handler[h] EXCEPT !.at = "answering", !.verdict = verdict]
    BY <2>2 DEF Answer, IInv, TypeOK
  <2> QED
    BY <1>1, <2>1, <2>2 DEF Row
<1>3. \A g \in Handlers \ {h} : handler'[g] = handler[g]
  BY DEF Move, Answer, IInv, TypeOK
<1> QED
  BY <1>1, <1>2, <1>3 DEF Steady

LEMMA ServerIsSteady ==
  ASSUME IInv, Server \/ Outside PROVE \A g \in Handlers : Steady(g)
<1>1. /\ {"counting", "judged", "begun", "locked", "missing", "inserted", "admitted"} \subseteq Early
      /\ {"created", "repeated", "conflict", "overloaded", "unauthorized", "error", "unique"}
             \subseteq Verdicts \ {"invalid"}
  BY DEF Early, Stages, Verdicts
<1>2. ASSUME NEW h \in Handlers, Consult(h) PROVE \A g \in Handlers : Steady(g)
  <2>1. handler[h].at = "admitted"
    BY <1>2 DEF Consult, At
  <2>2. CASE fresh
    <3> DEFINE new == [handler[h] EXCEPT !.at = "judged", !.over = Full(backlog)]
    <3>1. handler' = [handler EXCEPT ![h] = new]
      BY <1>2, <2>2 DEF Consult, IInv, TypeOK
    <3>2. handler[h] \in Row
      BY Types
    <3>3. new.at = "judged" /\ new.msg = handler[h].msg /\ new.verdict = handler[h].verdict
      BY <3>2 DEF Row
    <3> HIDE DEF new
    <3>4. handler'[h] = new /\ \A g \in Handlers \ {h} : handler'[g] = handler[g]
      BY <3>1 DEF IInv, TypeOK
    <3> QED
      BY <1>1, <2>1, <3>3, <3>4 DEF Steady
  <2>3. CASE ~fresh
    BY <1>1, <1>2, <2>1, <2>3, MovesOn DEF Consult
  <2> QED
    BY <2>2, <2>3
<1>3. ASSUME NEW h \in Handlers, Begin(h) \/ LockEvent(h) PROVE \A g \in Handlers : Steady(g)
  <2>1. handler[h].at \in {"judged", "begun"}
    BY <1>3 DEF Begin, LockEvent, At
  <2>2. Move(h, "begun") \/ Move(h, "locked") \/ Answer(h, "unauthorized")
    BY <1>3 DEF Begin, LockEvent
  <2> QED
    BY <1>1, <2>1, <2>2, MovesOn
<1>4. ASSUME NEW h \in Handlers, Find(h) PROVE \A g \in Handlers : Steady(g)
  <2>1. handler[h].at = "locked"
    BY <1>4 DEF Find, At
  <2>2. Move(h, "missing") \/ Answer(h, "overloaded") \/ Answer(h, "repeated") \/ Answer(h, "conflict")
    BY <1>4 DEF Find
  <2> QED
    BY <1>1, <2>1, <2>2, MovesOn
<1>5. ASSUME NEW h \in Handlers, Insert(h) PROVE \A g \in Handlers : Steady(g)
  <2>1. handler[h].at = "missing"
    BY <1>5 DEF Insert, At
  <2>2. Move(h, "inserted") \/ Answer(h, "unique")
    BY <1>5 DEF Insert
  <2> QED
    BY <1>1, <2>1, <2>2, MovesOn
<1>6. ASSUME NEW h \in Handlers, Commit(h) \/ Abort(h) PROVE \A g \in Handlers : Steady(g)
  <2>1. handler[h].at \in {"begun", "locked", "missing", "inserted"}
    BY <1>6 DEF Commit, Abort, At, InTransaction
  <2>2. Answer(h, "created") \/ Answer(h, "error")
    BY <1>6 DEF Commit, Abort
  <2> QED
    BY <1>1, <2>1, <2>2, MovesOn
<1>7. ASSUME Counted PROVE \A g \in Handlers : Steady(g)
  <2> SUFFICES ASSUME NEW g \in Handlers PROVE Steady(g)
    OBVIOUS
  <2> DEFINE n == Limited(Pending)
             new == [handler[g] EXCEPT !.at = "judged", !.over = Full(n)]
  <2>1. handler[g] \in Row
    BY Types
  <2>2. new.at = "judged" /\ new.msg = handler[g].msg /\ new.verdict = handler[g].verdict
    BY <2>1 DEF Row
  <2>3. handler'[g] = IF handler[g].at = "counting" THEN new ELSE handler[g]
    BY <1>7 DEF Counted, CountIs, At
  <2> HIDE DEF n, new
  <2> QED
    BY <1>1, <2>2, <2>3 DEF Steady
<1>8. ASSUME CountFails PROVE \A g \in Handlers : Steady(g)
  <2> SUFFICES ASSUME NEW g \in Handlers PROVE Steady(g)
    OBVIOUS
  <2> DEFINE new == [handler[g] EXCEPT !.at = "answering", !.verdict = "error"]
  <2>1. handler[g] \in Row
    BY Types
  <2>2. new.at = "answering" /\ new.msg = handler[g].msg /\ new.verdict = "error"
    BY <2>1 DEF Row
  <2>3. handler'[g] = IF handler[g].at = "counting" THEN new ELSE handler[g]
    BY <1>8 DEF CountFails, At
  <2> HIDE DEF new
  <2> QED
    BY <1>1, <2>2, <2>3 DEF Steady
<1>9. Lapse \/ Outside => handler' = handler
  BY DEF Lapse, Outside, CreateKey, Revoke, Replay, Settle
<1> QED
  BY <1>2, <1>3, <1>4, <1>5, <1>6, <1>7, <1>8, <1>9 DEF Server, Progress, Steady

\* Only a request that is early commits a receipt, that of its event.
LEMMA Commits ==
  ASSUME IInv, [Next]_intakeVars, NEW s \in Slots, receipts'[s] # NoReceipt
  PROVE  \/ receipts[s] # NoReceipt
         \/ \E h \in Handlers : handler[h].at \in Early /\ Slot(handler[h].msg) = s
<1>1. "inserted" \in Early
  BY DEF Early, Stages
<1> QED
  BY <1>1, ReceiptMoves

-----------------------------------------------------------------------------
\* The dialog keeps its submission, and handlers lose theirs only when they are freed.
LEMMA Kept ==
  ASSUME DialogInv, IInv', UNCHANGED <<opened, abandoned, drawn>>,
         DOMAIN dialog' = DOMAIN dialog, dialog'.submitted = dialog.submitted,
         dialog'.pending \in {dialog.pending, None},
         \A h \in Handlers :
             \/ Steady(h)
             \/ handler'[h] = Free /\ dialog'.pending # h
             \/ /\ handler[h].at = "idle"
                /\ handler'[h].msg \in Messages \ Drafts
                /\ handler'[h].verdict = "invalid" => handler'[h].msg \in Malformed
                /\ handler'[h].at \in Early => handler'[h].msg \notin Malformed,
         \A s \in Slots : receipts'[s] # NoReceipt =>
             \/ receipts[s] # NoReceipt
             \/ \E h \in Handlers : handler[h].at \in Early /\ Slot(handler[h].msg) = s
  PROVE  DialogInv'
<1>1. \A e : Known(e)' <=> Known(e)
  BY DEF Known
<1>2. \A h \in Handlers : handler[h].at \in Early => handler[h].at # "idle" /\ handler[h].msg \in Messages
  BY Types DEF Early, DialogInv, Good
<1>3. \A m \in Messages : m.by = User <=> m \in Drafts
  BY DEF Drafts
<1>4. \A m \in Messages : (Slot(m)[1] = "manual" <=> m.by = User) /\ Slot(m)[2] = m.event
  BY DEF Slot, SourceOf
<1>5. ASSUME NEW h \in Handlers PROVE Attempt(handler[h])'
  <2>1. Attempt(handler[h])
    BY DEF DialogInv, Attempts
  <2>2. Attempt(handler'[h]) => Attempt(handler[h])'
    BY <1>1 DEF Attempt
  <2>3. CASE Steady(h)
    BY <2>1, <2>2, <2>3 DEF Steady, Attempt
  <2>4. CASE handler'[h] = Free
    BY <2>2, <2>4, Freed DEF Attempt
  <2>5. CASE /\ handler'[h].msg \in Messages \ Drafts
             /\ handler'[h].verdict = "invalid" => handler'[h].msg \in Malformed
             /\ handler'[h].at \in Early => handler'[h].msg \notin Malformed
    BY <1>3, <2>2, <2>5 DEF Attempt
  <2> QED
    BY <2>3, <2>4, <2>5
<1>6. ASSUME NEW s \in Slots, receipts'[s] # NoReceipt, receipts[s] = NoReceipt
      PROVE  \E h \in Handlers : /\ handler[h].at \in Early /\ handler[h].at # "idle"
                                 /\ handler[h].msg \in Messages /\ Slot(handler[h].msg) = s
                                 /\ Attempt(handler[h])
  BY <1>2, <1>6 DEF DialogInv, Attempts
<1>7. Caused'
  <2> SUFFICES ASSUME NEW s \in Slots, s[1] = "manual", receipts'[s] # NoReceipt
               PROVE  Known(s[2]) /\ s[2] \in drawn
    BY <1>1 DEF Caused
  <2>1. CASE receipts[s] # NoReceipt
    BY <2>1 DEF DialogInv, Caused
  <2>2. CASE receipts[s] = NoReceipt
    BY <1>4, <1>6, <2>2 DEF Attempt
  <2> QED
    BY <2>1, <2>2
<1>8. Shown'
  <2>1. ASSUME dialog.submitted # None, dialog.submitted \in Malformed
        PROVE  receipts'[Slot(dialog.submitted)] = NoReceipt
    <3>1. /\ dialog.submitted \in Messages /\ dialog.submitted.by = User
          /\ Slot(dialog.submitted) \in Slots /\ receipts[Slot(dialog.submitted)] = NoReceipt
      BY <2>1, Shape DEF DialogInv, Shown, Drafts
    <3>2. SUFFICES ASSUME receipts'[Slot(dialog.submitted)] # NoReceipt PROVE FALSE
      OBVIOUS
    <3>3. PICK h \in Handlers : /\ handler[h].at \in Early /\ handler[h].at # "idle"
                                /\ handler[h].msg \in Messages /\ Slot(handler[h].msg) = Slot(dialog.submitted)
                                /\ Attempt(handler[h])
      BY <1>6, <3>1, <3>2
    <3>4. handler[h].msg.by = User /\ handler[h].msg.event = dialog.submitted.event
      BY <1>4, <3>1, <3>3
    <3> QED
      BY <2>1, <3>3, <3>4 DEF Attempt
  <2>2. ASSUME dialog'.pending # None
        PROVE  handler'[dialog.pending].at # "idle" /\ handler'[dialog.pending].msg = dialog.submitted
    <3>1. dialog.pending \in Handlers /\ dialog'.pending = dialog.pending
      BY <2>2 DEF DialogInv, Shown
    <3>2. handler[dialog.pending].at # "idle" /\ handler[dialog.pending].msg = dialog.submitted
      BY <2>2, <3>1 DEF DialogInv, Shown
    <3>3. Steady(dialog.pending)
      BY <3>1, <3>2
    <3> QED
      BY <3>2, <3>3 DEF Steady
  <2> QED
    BY <2>1, <2>2 DEF DialogInv, Shown, Slot, SourceOf
<1> QED
  BY <1>5, <1>7, <1>8 DEF DialogInv, Attempts

\* The dialog gives its submission up; only a malformed one is forgotten for good.
LEMMA Cleared ==
  ASSUME DialogInv, IInv', UNCHANGED <<receipts, drawn>>,
         DOMAIN dialog' = {"open", "submitted", "pending", "accepted"},
         dialog'.submitted = None, dialog'.pending = None,
         opened \cup abandoned \subseteq opened' \cup abandoned',
         dialog.submitted # None =>
             dialog.submitted \in Malformed \/ dialog.submitted.event \in opened' \cup abandoned',
         \A h \in Handlers : Steady(h) \/ handler'[h] = Free
  PROVE  DialogInv'
<1>1. ASSUME NEW e, Known(e)
      PROVE  \/ Known(e)'
             \/ /\ dialog.submitted # None /\ dialog.submitted.event = e
                /\ dialog.submitted \in Malformed
  BY <1>1 DEF Known
<1>2. ASSUME NEW h \in Handlers PROVE Attempt(handler[h])'
  <2>1. Attempt(handler[h])
    BY DEF DialogInv, Attempts
  <2>2. CASE handler'[h] = Free
    BY <2>2, Freed DEF Attempt
  <2>3. CASE Steady(h) /\ handler[h].at # "idle"
    <3>1. /\ handler'[h].msg = handler[h].msg
          /\ handler'[h].at \in Early => handler[h].at \in Early
          /\ handler'[h].verdict = "invalid" => handler[h].verdict = "invalid"
      BY <2>3 DEF Steady
    <3>2. ASSUME handler[h].msg.by = User, handler[h].at \in Early,
                 NEW e, e = handler[h].msg.event
          PROVE  Known(e)'
      BY <1>1, <2>1, <2>3, <3>2 DEF Attempt
    <3> QED
      BY <2>1, <2>3, <3>1, <3>2 DEF Attempt
  <2>4. CASE Steady(h) /\ handler[h].at = "idle"
    BY <2>4 DEF Steady, Attempt
  <2> QED
    BY <2>2, <2>3, <2>4
<1>3. Caused'
  <2> SUFFICES ASSUME NEW s \in Slots, s[1] = "manual", receipts[s] # NoReceipt
               PROVE  Known(s[2])' /\ s[2] \in drawn
    BY DEF Caused
  <2>1. Known(s[2]) /\ s[2] \in drawn
    BY DEF DialogInv, Caused
  <2>2. ~ /\ dialog.submitted # None /\ dialog.submitted.event = s[2]
          /\ dialog.submitted \in Malformed
    <3> SUFFICES ASSUME dialog.submitted # None, dialog.submitted.event = s[2],
                        dialog.submitted \in Malformed
                 PROVE  FALSE
      OBVIOUS
    <3>1. receipts[Slot(dialog.submitted)] = NoReceipt /\ dialog.submitted.by = User
      BY DEF DialogInv, Shown, Drafts
    <3>2. PICK m \in Messages : s = Slot(m)
      BY DEF Slots
    <3>3. Slot(dialog.submitted) = s
      BY <3>1, <3>2 DEF Slot, SourceOf
    <3> QED
      BY <3>1, <3>3
  <2> QED
    BY <1>1, <2>1, <2>2
<1>4. Shown'
  BY DEF Shown
<1> QED
  BY <1>2, <1>3, <1>4 DEF DialogInv, Attempts

\* What a request is when it is received.
LEMMA Received ==
  ASSUME IInv, NEW h \in Handlers, NEW m \in Messages, Receive(h, m)
  PROVE  /\ handler'[h].at # "idle" /\ handler'[h].msg = m
         /\ handler'[h].verdict = "invalid" => m \in Malformed
         /\ handler'[h].at \in Early => m \notin Malformed
<1>1. PICK valid \in Authentic(m) :
        LET verdict == IF ~valid THEN "unauthorized"
                       ELSE IF m \in Malformed THEN "invalid" ELSE "none"
        IN handler' = [handler EXCEPT ![h] =
               [Free EXCEPT !.at = IF verdict = "none" THEN "admitted" ELSE "answering",
                            !.msg = m, !.verdict = verdict]]
  BY DEF Receive
<1> DEFINE verdict == IF ~valid THEN "unauthorized"
                      ELSE IF m \in Malformed THEN "invalid" ELSE "none"
           at == IF verdict = "none" THEN "admitted" ELSE "answering"
<1>2. handler'[h] = [Free EXCEPT !.at = at, !.msg = m, !.verdict = verdict]
  BY <1>1 DEF IInv, TypeOK
<1>3. verdict = "invalid" => m \in Malformed
  OBVIOUS
<1>4. at = "admitted" => m \notin Malformed
  OBVIOUS
<1>5. at \in {"admitted", "answering"}
  OBVIOUS
<1> HIDE DEF verdict, at
<1>6. handler'[h].at = at /\ handler'[h].msg = m /\ handler'[h].verdict = verdict
  BY <1>2 DEF Free
<1> QED
  BY <1>3, <1>4, <1>5, <1>6 DEF Early

\* An attempt leaves the browser, and may or may not arrive.
LEMMA Sent ==
  ASSUME DialogInv, IInv', NEW h \in Handlers, NEW m \in Drafts, Post(h, m),
         UNCHANGED <<opened, abandoned>>,
         \/ dialog.submitted = m /\ dialog.pending = None /\ UNCHANGED drawn
         \/ dialog.submitted = None /\ m.event \notin drawn /\ drawn' = drawn \cup {m.event}
  PROVE  DialogInv'
<1>1. /\ m \in Messages /\ m.by = User /\ m # None /\ Slot(m) \in Slots
      /\ Slot(m)[1] = "manual" /\ Slot(m)[2] = m.event
  BY Shape DEF Drafts, Slot, SourceOf
<1>2. /\ DOMAIN dialog' = {"open", "submitted", "pending", "accepted"}
      /\ dialog'.submitted = m /\ dialog'.pending \in {h, dialog.pending}
  <2>1. DOMAIN dialog = {"open", "submitted", "pending", "accepted"}
    BY DEF DialogInv, Shown
  <2>2. CASE dialog' = [dialog EXCEPT !.submitted = m, !.pending = h]
    BY <2>1, <2>2
  <2>3. CASE dialog' = [dialog EXCEPT !.submitted = m]
    BY <2>1, <2>3
  <2> QED
    BY <2>2, <2>3 DEF Post
<1>3. m.event \in drawn' /\ drawn \subseteq drawn' /\ dialog.pending = None /\ receipts' = receipts
  <2>1. dialog.pending = None
    BY DEF DialogInv, Shown
  <2>2. receipts' = receipts
    BY DEF Post, Receive, dbVars
  <2>3. drawn \subseteq drawn'
    OBVIOUS
  <2>4. m.event \in drawn'
    BY <1>1 DEF DialogInv, Shown
  <2> QED
    BY <2>1, <2>2, <2>3, <2>4
<1>4. \A e : Known(e) => Known(e)'
  BY <1>1, <1>2 DEF Known
<1>5. Known(m.event)'
  BY <1>1, <1>2 DEF Known
<1>6. \A g \in Handlers \ {h} : handler'[g] = handler[g]
  BY DEF Post, Receive, DialogInv, IInv, TypeOK
<1>7. \/ handler' = handler /\ dialog'.pending = None
      \/ /\ handler'[h].at # "idle" /\ handler'[h].msg = m
         /\ handler'[h].verdict = "invalid" => m \in Malformed
         /\ handler'[h].at \in Early => m \notin Malformed
  <2>1. CASE Receive(h, m)
    BY <1>1, <2>1, Received DEF DialogInv
  <2>2. CASE ~Receive(h, m)
    BY <1>2, <1>3, <2>2 DEF Post, DialogInv, Shown
  <2> QED
    BY <2>1, <2>2
<1>8. ASSUME NEW g \in Handlers PROVE Attempt(handler[g])'
  <2>1. CASE handler'[g] = handler[g]
    <3>1. Attempt(handler[g])
      BY DEF DialogInv, Attempts
    <3>2. handler[g].at # "idle" /\ handler[g].msg.by = User /\ handler[g].msg.event = m.event
             => handler[g].msg = m
      BY <1>1, <3>1 DEF Attempt
    <3> QED
      BY <1>2, <1>3, <1>4, <2>1, <3>1, <3>2 DEF Attempt
  <2>2. CASE g = h /\ handler' # handler
    BY <1>1, <1>2, <1>3, <1>5, <1>7, <2>2 DEF Attempt
  <2> QED
    BY <1>6, <2>1, <2>2
<1>9. Caused'
  BY <1>3, <1>4 DEF DialogInv, Caused
<1>10. Shown'
  <2>1. m \in Malformed => receipts[Slot(m)] = NoReceipt
    <3>1. CASE dialog.submitted = m
      BY <1>1, <3>1 DEF DialogInv, Shown
    <3>2. CASE m.event \notin drawn
      BY <1>1, <3>2 DEF DialogInv, Caused
    <3> QED
      BY <3>1, <3>2
  <2> QED
    BY <1>1, <1>2, <1>3, <1>7, <2>1 DEF Shown, Slot, SourceOf
<1> QED
  BY <1>8, <1>9, <1>10 DEF DialogInv, Attempts

-----------------------------------------------------------------------------
LEMMA HearKeeps == ASSUME DialogInv, NEW h \in Handlers, Hear(h) PROVE DialogInv'
<1> DEFINE verdict == handler[h].verdict
<1>1. /\ IInv' /\ dialog.pending = h /\ dialog.submitted # None /\ h # None
      /\ handler[h].msg = dialog.submitted /\ handler[h].at # "idle"
  <2>1. IInv'
    BY ReplyKeeps DEF Hear, DialogInv
  <2> QED
    BY <2>1, DialogAssumption DEF Hear, DialogInv, Shown
<1>2. /\ handler'[h] = Free /\ \A g \in Handlers \ {h} : Steady(g)
      /\ UNCHANGED <<receipts, opened, drawn>>
  BY DEF Hear, Reply, Steady, DialogInv, IInv, TypeOK, dbVars
<1>3. DOMAIN dialog = {"open", "submitted", "pending", "accepted"}
  BY DEF DialogInv, Shown
<1>4. CASE verdict = "unauthorized"
  <2>1. dialog' = Blank /\ abandoned' = abandoned \cup {dialog.submitted.event}
    BY <1>1, <1>4 DEF Hear, Forget
  <2>2. /\ dialog'.submitted = None /\ dialog'.pending = None
        /\ DOMAIN dialog' = {"open", "submitted", "pending", "accepted"}
    BY <2>1 DEF Blank
  <2> QED
    BY <1>1, <1>2, <2>1, <2>2, Cleared
<1>5. CASE verdict # "unauthorized"
  <2>1. /\ dialog'.pending = None /\ DOMAIN dialog' = DOMAIN dialog
        /\ dialog'.submitted = IF Hopeless(verdict) THEN None ELSE dialog.submitted
        /\ abandoned' = abandoned
    BY <1>3, <1>5 DEF Hear
  <2>2. CASE Hopeless(verdict)
    <3>1. dialog.submitted \in Malformed
      BY <1>1, <2>2 DEF Hopeless, DialogInv, Attempts, Attempt
    <3> QED
      BY <1>1, <1>2, <1>3, <2>1, <2>2, <3>1, Cleared
  <2>3. CASE ~Hopeless(verdict)
    BY <1>1, <1>2, <2>1, <2>3, Kept
  <2> QED
    BY <2>2, <2>3
<1> QED
  BY <1>4, <1>5

\* Steps of the dialog in which the server has no part.
LEMMA AloneKeeps ==
  ASSUME DialogInv, TimeOut \/ Poll \/ Finish \/ Toggle \/ Unmount PROVE DialogInv'
<1>1. /\ handler' = handler /\ receipts' = receipts /\ drawn' = drawn
      /\ \A h \in Handlers : Steady(h)
  BY DEF TimeOut, Poll, Finish, Toggle, Unmount, Steady, intakeVars, dbVars
<1>2. IInv'
  BY Inner DEF DialogNext, User_
<1>3. DOMAIN dialog = {"open", "submitted", "pending", "accepted"}
  BY DEF DialogInv, Shown
<1>4. CASE TimeOut \/ Poll \/ Toggle
  <2>1. /\ DOMAIN dialog' = DOMAIN dialog /\ dialog'.submitted = dialog.submitted
        /\ dialog'.pending \in {dialog.pending, None} /\ UNCHANGED <<opened, abandoned>>
    BY <1>3, <1>4 DEF TimeOut, Poll, Toggle
  <2> QED
    BY <1>1, <1>2, <2>1, Kept
<1>5. CASE Finish \/ Unmount
  <2>1. /\ dialog' = Blank /\ opened \cup abandoned \subseteq opened' \cup abandoned'
        /\ dialog.submitted # None => dialog.submitted.event \in opened' \cup abandoned'
    BY <1>5 DEF Finish, Unmount, Forget
  <2>2. /\ dialog'.submitted = None /\ dialog'.pending = None
        /\ DOMAIN dialog' = {"open", "submitted", "pending", "accepted"}
    BY <2>1 DEF Blank
  <2> QED
    BY <1>1, <1>2, <2>1, <2>2, Cleared
<1> QED
  BY <1>4, <1>5

\* What the rest of the world does.
LEMMA RestKeeps == ASSUME DialogInv, Rest PROVE DialogInv'
<1>1. IInv' /\ [Next]_intakeVars
  BY Inner DEF DialogNext, Rest, Next, Drafts
<1>2. dialog' = dialog /\ UNCHANGED <<opened, abandoned, drawn>>
  BY DEF Rest, dialogVars
<1>3. \A s \in Slots : receipts'[s] # NoReceipt =>
          \/ receipts[s] # NoReceipt
          \/ \E h \in Handlers : handler[h].at \in Early /\ Slot(handler[h].msg) = s
  BY <1>1, Commits DEF DialogInv
<1>4. ASSUME NEW h \in Handlers, dialog.pending # h, Reply(h) PROVE DialogInv'
  <2>1. handler'[h] = Free /\ \A g \in Handlers \ {h} : Steady(g)
    BY <1>4 DEF Reply, Steady, DialogInv, IInv, TypeOK
  <2> QED
    BY <1>1, <1>2, <1>3, <1>4, <2>1, Kept
<1>5. ASSUME NEW h \in Handlers, NEW m \in Messages \ Drafts, Receive(h, m) PROVE DialogInv'
  <2>1. /\ handler[h].at = "idle" /\ \A g \in Handlers \ {h} : handler'[g] = handler[g]
    BY <1>5 DEF Receive, At, DialogInv, IInv, TypeOK
  <2>2. /\ handler'[h].msg = m /\ handler'[h].at # "idle"
        /\ handler'[h].verdict = "invalid" => m \in Malformed
        /\ handler'[h].at \in Early => m \notin Malformed
    BY <1>5, Received DEF DialogInv
  <2> QED
    BY <1>1, <1>2, <1>3, <2>1, <2>2, Kept DEF Steady
<1>6. CASE Server \/ Outside
  BY <1>1, <1>2, <1>3, <1>6, ServerIsSteady, Kept DEF DialogInv
<1> QED
  BY <1>4, <1>5, <1>6 DEF Rest

LEMMA DieKeeps == ASSUME DialogInv, Die PROVE DialogInv'
<1>1. /\ \A h \in Handlers : handler'[h] = Free
      /\ UNCHANGED <<receipts, opened, abandoned, drawn>>
  BY DEF Die, Crash, dbVars
<1>2. IInv'
  BY Inner DEF DialogNext
<1>3. /\ dialog'.pending = None /\ dialog'.submitted = dialog.submitted /\ DOMAIN dialog' = DOMAIN dialog
  BY DEF Die, DialogInv, Shown
<1> QED
  BY <1>1, <1>2, <1>3, DialogAssumption, Kept

LEMMA DialogKeeps == DialogInv /\ [DialogNext]_vars => DialogInv'
<1> SUFFICES ASSUME DialogInv, [DialogNext]_vars PROVE DialogInv'
  OBVIOUS
<1>1. IInv'
  BY Inner
<1>2. ASSUME NEW h \in Handlers, Retry(h) PROVE DialogInv'
  BY <1>1, <1>2, Sent DEF Retry, DialogInv, Shown
<1>3. ASSUME NEW h \in Handlers, NEW m \in Drafts, Submit(h, m) PROVE DialogInv'
  BY <1>1, <1>3, Sent DEF Submit
<1>4. CASE UNCHANGED vars
  BY <1>1, <1>4, Kept DEF Steady, vars, intakeVars, dbVars, dialogVars
<1> QED
  BY <1>2, <1>3, <1>4, HearKeeps, AloneKeeps, RestKeeps, DieKeeps DEF DialogNext, User_

LEMMA DialogStarts == Init /\ DialogInit => DialogInv
<1> SUFFICES ASSUME Init, DialogInit PROVE DialogInv
  OBVIOUS
<1>1. Attempts /\ Caused
  BY Freed DEF Init, Attempts, Attempt, Caused
<1>2. Shown
  BY DEF DialogInit, Blank, Shown
<1> QED
  BY <1>1, <1>2, InitIInv DEF DialogInv

LEMMA DialogInvariance == DialogSpec => []DialogInv
BY DialogStarts, DialogKeeps, PTL DEF DialogSpec

\* A receipt the dialog caused is one it shows, has opened or lost with its page.
THEOREM NothingOrphaned == DialogSpec => []NoOrphanedSubmission
<1>1. DialogInv => NoOrphanedSubmission
  BY DEF DialogInv, Caused, Known, NoOrphanedSubmission
<1> QED
  BY <1>1, DialogInvariance, PTL
=============================================================================
