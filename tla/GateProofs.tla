----------------------------- MODULE GateProofs -----------------------------
(***************************************************************************)
(* What stands before every request.  First, safety of Sessions for every  *)
(* set of sessions and requests and all lifetimes in the proportions of    *)
(* SessionsAssumption; a session began RefreshLife before its refresh      *)
(* token ends, and comparisons with its beginning are written without      *)
(* subtraction.  Then RateLimiter, which shares no state with it.          *)
(***************************************************************************)
EXTENDS Sessions, RateLimiter, TLAPS

Made(s) == row[s].refreshUntil > 0

\* The lifetimes a row can have.
RowInv ==
    \A s \in Sessions :
        /\ row[s].until <= row[s].refreshUntil
        /\ Made(s) =>
               /\ row[s].refreshUntil <= instant + RefreshLife
               /\ row[s].until + RefreshLife >= row[s].refreshUntil + AccessLife
               /\ row[s].until <= instant + AccessLife

\* What a request under way knows of its session.
Sound(q) ==
    q.at # "idle" =>
        LET s == q.access.session IN
        /\ q.access \in Token /\ q.refresh = s /\ Made(s)
        /\ q.sent <= instant /\ row[s].refreshUntil <= q.sent + RefreshLife
        /\ q.access.until + RefreshLife >= row[s].refreshUntil + AccessLife
        /\ q.header # Nothing =>
               /\ q.header.session = s
               /\ q.header.until <= instant + AccessLife
               /\ q.header.until <= row[s].refreshUntil
        /\ q.at = "expired" => q.access.until < instant + Second
        /\ q.at = "refused" => row[s].revoked \/ row[s].refreshUntil < instant + Second
        /\ q.at = "done" /\ q.kind = "signout" => row[s].revoked
        /\ q.at = "locked" =>
               /\ q.header # Nothing /\ ~row[s].revoked
               /\ q.header.until = row[s].until \/ row[s].until <= instant + Second
               /\ q.header.until + RefreshLife >= row[s].refreshUntil + AccessLife

Locks ==
    \A r, q \in Requests :
        request[r].at = "locked" /\ request[q].at = "locked"
            /\ request[r].access.session = request[q].access.session => r = q

Current(s) == tab # Nothing /\ tab.refresh = s

\* The session of the tab began after the tab was last without one, ...
TabInv ==
    /\ left <= instant
    /\ tab # Nothing =>
           /\ tab.access.session = tab.refresh /\ Made(tab.refresh)
           /\ tab.access.until + RefreshLife >= row[tab.refresh].refreshUntil + AccessLife
           /\ row[tab.refresh].refreshUntil > left + RefreshLife

\* ... and every other session before.
PastInv == \A s \in Sessions : Made(s) /\ ~Current(s) => row[s].refreshUntil <= left + RefreshLife

\* A request of another session was sent before that, too.  Its session has ended, or
\* was lost so early in its life that no request the tab still waits for can renew it;
\* so an access token it brings ends before that of the tab.
Past(q) ==
    (q.at # "idle" /\ ~Current(q.access.session)) =>
        LET s == q.access.session IN
        /\ q.sent <= left
        /\ \/ row[s].revoked
           \/ row[s].refreshUntil <= left + AccessLife
           \/ q.sent + RefreshLife <= row[s].refreshUntil + RequestLife
        /\ q.header # Nothing /\ instant <= q.sent + RequestLife =>
               q.header.until <= left + AccessLife

IInv ==
    /\ SessionTypeOK /\ RowInv /\ Locks /\ TabInv /\ PastInv
    /\ \A r \in Requests : Sound(request[r]) /\ Past(request[r])

Places == {"idle", "sent", "expired", "locked", "passed", "done", "failed", "refused"}
Records ==
    [at : Places, kind : {"call", "signout"}, access : Token \cup {Nothing},
     refresh : Sessions \cup {Nothing}, header : Token \cup {Nothing}, sent : 0 .. MaxInstant]

-----------------------------------------------------------------------------
(* Whole seconds. *)

LEMMA Numbers ==
  /\ Second \in Nat /\ Second > 0 /\ AccessLife \in Nat /\ RefreshLife \in Nat
  /\ RequestLife \in Nat /\ MaxInstant \in Nat
  /\ AccessLife >= 2 * RequestLife + Second /\ AccessLife >= 2 * Second /\ RefreshLife >= AccessLife
BY SessionsAssumption DEF SessionsAssumption

LEMMA WholeSeconds ==
  ASSUME NEW t \in Nat
  PROVE  Exp(t) \in Nat /\ Exp(t) * Second <= t /\ t < Exp(t) * Second + Second
BY Numbers, SMTT(30) DEF Exp

\* A time that ends in the second of another, or before, is less than a second after it.
LEMMA WithinSecond ==
  ASSUME NEW t \in Nat, NEW now \in Nat, Exp(t) <= Exp(now)
  PROVE  t < now + Second
<1>1. Exp(t) * Second <= Exp(now) * Second
  <2>1. Exp(now) - Exp(t) \in Nat /\ Second \in Nat
    BY WholeSeconds, Numbers
  <2>2. (Exp(now) - Exp(t)) * Second \in Nat
    BY <2>1
  <2>3. (Exp(now) - Exp(t)) * Second = Exp(now) * Second - Exp(t) * Second
    BY WholeSeconds, Numbers
  <2>4. Exp(now) * Second \in Nat /\ Exp(t) * Second \in Nat
    BY WholeSeconds, Numbers
  <2> QED
    BY <2>2, <2>3, <2>4
<1>2. Exp(now) * Second \in Nat /\ Exp(t) * Second \in Nat
  BY WholeSeconds, Numbers
<1> QED
  BY <1>1, <1>2, WholeSeconds, Numbers

LEMMA SecondsGrow ==
  ASSUME NEW t \in Nat, NEW now \in Nat, t <= now
  PROVE  Exp(t) <= Exp(now)
<1>1. SUFFICES ASSUME Exp(now) + 1 <= Exp(t) PROVE FALSE
  BY WholeSeconds
<1>2. Exp(t) - (Exp(now) + 1) \in Nat /\ Second \in Nat
  BY <1>1, WholeSeconds, Numbers
<1>3. (Exp(t) - (Exp(now) + 1)) * Second \in Nat
  BY <1>2
<1>4. (Exp(t) - (Exp(now) + 1)) * Second = Exp(t) * Second - Exp(now) * Second - Second
  BY WholeSeconds, Numbers
<1>5. Exp(now) * Second \in Nat /\ Exp(t) * Second \in Nat
  BY WholeSeconds, Numbers
<1> QED
  BY <1>3, <1>4, <1>5, WholeSeconds, Numbers

-----------------------------------------------------------------------------
LEMMA InitIInv == SessionInit => IInv
<1> SUFFICES ASSUME SessionInit PROVE IInv
  OBVIOUS
<1> USE Numbers DEF SessionInit
<1>1. \A r \in Requests : request[r].at = "idle"
  BY DEF Idle
<1>2. \A s \in Sessions : row[s].refreshUntil = 0 /\ row[s].until = 0
  BY DEF NoRow
<1>3. SessionTypeOK
  <2>1. 0 \in 0 .. MaxInstant /\ 0 \in AccessTimes /\ 0 \in RefreshTimes
    BY DEF AccessTimes, RefreshTimes
  <2>2. instant \in 0 .. MaxInstant
    BY SessionsAssumption DEF SessionsAssumption
  <2>3. row \in [Sessions -> [until : AccessTimes, refreshUntil : RefreshTimes, revoked : BOOLEAN]]
    BY <2>1 DEF NoRow
  <2>4. Idle \in Records
    BY <2>1 DEF Idle, Records, Places
  <2>5. request \in [Requests -> Records]
    BY <2>4
  <2> QED
    BY <2>1, <2>2, <2>3, <2>5 DEF SessionTypeOK, Records, Places
<1>4. RowInv /\ PastInv
  <2>1. ~(0 > 0) /\ 0 <= 0
    OBVIOUS
  <2>2. \A s \in Sessions : ~Made(s) /\ row[s].until <= row[s].refreshUntil
    BY ONLY <1>2, <2>1, Zenon DEF Made
  <2> QED
    BY ONLY <2>2 DEF RowInv, PastInv
<1>5. Locks /\ TabInv
  BY <1>1 DEF Locks, TabInv
<1>6. \A r \in Requests : Sound(request[r]) /\ Past(request[r])
  BY <1>1 DEF Sound, Past
<1> QED
  BY <1>3, <1>4, <1>5, <1>6 DEF IInv

\* The ranges that the type invariant gives.
LEMMA Ranges ==
  ASSUME SessionTypeOK
  PROVE  /\ instant \in Nat /\ instant <= MaxInstant /\ left \in Nat /\ left <= MaxInstant
         /\ \A s \in Sessions : /\ row[s].until \in Nat /\ row[s].refreshUntil \in Nat
                                /\ row[s].until \in AccessTimes /\ row[s].refreshUntil \in RefreshTimes
                                /\ row[s].revoked \in BOOLEAN
         /\ \A r \in Requests : request[r] \in Records
         /\ \A token \in Token : token.until \in Nat /\ token.session \in Sessions /\ token # Nothing
         /\ tab # Nothing => /\ tab.access \in Token /\ tab.refresh \in Sessions
                          /\ tab.refresh # Nothing /\ tab \in Tokens
BY Numbers, NoneAssumption DEF SessionTypeOK, AccessTimes, RefreshTimes, Token, Tokens, Records, Places

\* A step that gives one request another record and does nothing else.
LEMMA RequestStep ==
  ASSUME IInv, NEW r \in Requests, NEW new \in Records,
         request' = [request EXCEPT ![r] = new], UNCHANGED <<instant, row, tab, left>>,
         Sound(new), Past(new),
         new.at = "locked" => ~RowLocked(new.access.session)
  PROVE  IInv'
<1>1. request'[r] = new /\ \A q \in Requests \ {r} : request'[q] = request[q]
  BY DEF IInv, SessionTypeOK
<1>2. SessionTypeOK'
  BY DEF IInv, SessionTypeOK, Records, Places
<1>3. RowInv' /\ TabInv' /\ PastInv'
  BY DEF IInv, RowInv, TabInv, PastInv, Made, Current
<1>4. \A q \in Requests : Sound(request'[q]) /\ Past(request'[q])
  BY <1>1 DEF IInv
<1>5. \A q \in Requests : Sound(request[q])' /\ Past(request[q])'
  BY <1>4 DEF Sound, Past, Current, Made
<1>6. Locks'
  BY <1>1 DEF IInv, Locks, RowLocked
<1> QED
  BY <1>2, <1>3, <1>5, <1>6 DEF IInv

LEMMA SendKeeps ==
  ASSUME IInv, NEW r \in Requests, NEW kind \in {"call", "signout"}, Send(r, kind)
  PROVE  IInv'
<1> DEFINE new == [at |-> "sent", kind |-> kind, access |-> tab.access, refresh |-> tab.refresh,
                   header |-> Nothing, sent |-> instant]
<1>1. request' = [request EXCEPT ![r] = new] /\ UNCHANGED <<instant, row, tab, left>> /\ tab # Nothing
  BY DEF Send
<1>2. new \in Records
  BY <1>1, Ranges DEF IInv, SessionTypeOK, Records, Places
<1>3. Current(tab.access.session) /\ Made(tab.refresh) /\ tab.access \in Token /\ tab.refresh \in Sessions
  BY <1>1, Ranges DEF IInv, TabInv, Current
<1>4. Past(new)
  BY <1>3 DEF Past
<1>5. Sound(new)
  <2>1. row[tab.refresh].refreshUntil <= instant + RefreshLife
    BY <1>3 DEF IInv, RowInv
  <2>2. instant <= instant
    BY Ranges DEF IInv
  <2> QED
    BY <1>1, <1>3, <2>1, <2>2 DEF Sound, IInv, TabInv
<1> QED
  BY <1>1, <1>2, <1>4, <1>5, RequestStep

LEMMA ForgetKeeps ==
  ASSUME IInv, NEW r \in Requests, Miss(r)
  PROVE  IInv'
<1>1. Idle \in Records
  BY Numbers DEF Records, Places, Idle
<1>2. Sound(Idle) /\ Past(Idle) /\ Idle.at # "locked"
  BY DEF Idle, Sound, Past
<1> QED
  BY <1>1, <1>2, RequestStep DEF Miss

LEMMA FailKeeps ==
  ASSUME IInv, NEW r \in Requests, Fail(r)
  PROVE  IInv'
<1> DEFINE new == [request[r] EXCEPT !.at = "failed",
                       !.header = IF request[r].at = "passed" THEN @ ELSE Nothing]
<1>1. request[r] \in Records /\ Sound(request[r]) /\ Past(request[r])
  BY Ranges DEF IInv
<1>2. request' = [request EXCEPT ![r] = new] /\ UNCHANGED <<instant, row, tab, left>> /\ request[r].at # "idle"
  BY <1>1 DEF Fail, IInv, SessionTypeOK
<1>3. /\ new \in Records /\ new.at = "failed" /\ new.access = request[r].access
      /\ new.refresh = request[r].refresh /\ new.sent = request[r].sent
      /\ new.header = request[r].header \/ new.header = Nothing
  BY <1>1 DEF Records, Places
<1> HIDE DEF new
<1>4. Sound(new)
  BY <1>1, <1>2, <1>3 DEF Sound
<1>5. Past(new)
  BY <1>1, <1>2, <1>3 DEF Past
<1> QED
  BY <1>2, <1>3, <1>4, <1>5, RequestStep

LEMMA CheckKeeps ==
  ASSUME IInv, NEW r \in Requests, Check(r)
  PROVE  IInv'
<1> DEFINE s == request[r].access.session
           place == IF ~RefreshVerified(request[r].refresh) \/ s # request[r].refresh \/ ~StillValid(s)
                    THEN "refused"
                    ELSE IF Exp(request[r].access.until) * Second <= instant THEN "expired"
                    ELSE "passed"
           new == [request[r] EXCEPT !.at = place]
<1>1. request[r] \in Records /\ Sound(request[r]) /\ Past(request[r])
  BY Ranges DEF IInv
<1>2. request' = [request EXCEPT ![r] = new] /\ UNCHANGED <<instant, row, tab, left>> /\ request[r].at = "sent"
  BY DEF Check, Proceed
<1>3. request[r].access \in Token /\ s \in Sessions /\ request[r].refresh = s
  BY <1>1, <1>2, Ranges DEF Sound, IInv
<1>4. /\ new \in Records /\ new.at = place /\ new.access = request[r].access
      /\ new.refresh = request[r].refresh /\ new.sent = request[r].sent
      /\ new.header = request[r].header /\ place \in {"refused", "expired", "passed"}
  BY <1>1 DEF Records, Places
<1>5. place = "refused" => row[s].revoked \/ row[s].refreshUntil < instant + Second
  <2>1. instant \in Nat /\ row[s].refreshUntil \in Nat
    BY <1>3, Ranges DEF IInv
  <2>2. ~RefreshVerified(s) => Exp(row[s].refreshUntil) <= Exp(instant)
    BY <2>1, WholeSeconds DEF RefreshVerified
  <2>3. ~RefreshVerified(s) => row[s].refreshUntil < instant + Second
    BY <2>1, <2>2, WithinSecond
  <2>4. ~StillValid(s) => row[s].revoked \/ row[s].refreshUntil < instant + Second
    BY <2>1, Numbers DEF StillValid
  <2> QED
    BY <1>3, <2>3, <2>4
<1>6. place = "expired" => request[r].access.until < instant + Second
  <2>1. request[r].access.until \in Nat /\ instant \in Nat
    BY <1>3, Ranges DEF IInv
  <2>2. Exp(request[r].access.until) * Second \in Nat
    BY <2>1, WholeSeconds, Numbers
  <2> QED
    BY <2>1, <2>2, WholeSeconds, Numbers
<1> HIDE DEF place, new
<1>7. Sound(new)
  BY <1>1, <1>2, <1>3, <1>4, <1>5, <1>6 DEF Sound, s
<1>8. Past(new)
  BY <1>1, <1>2, <1>4 DEF Past
<1> QED
  BY <1>2, <1>4, <1>7, <1>8, RequestStep

LEMMA RenewKeeps ==
  ASSUME IInv, NEW r \in Requests, Renew(r)
  PROVE  IInv'
<1> DEFINE s == request[r].access.session
           until == IF Spent(row[s].until) THEN NextExpiry(s) ELSE row[s].until
           new == IF StillValid(s)
                  THEN [request[r] EXCEPT !.at = "locked",
                                          !.header = [session |-> s, until |-> until]]
                  ELSE [request[r] EXCEPT !.at = "refused"]
<1>1. request[r] \in Records /\ Sound(request[r]) /\ Past(request[r])
  BY Ranges DEF IInv
<1>2. /\ request' = [request EXCEPT ![r] = new] /\ UNCHANGED <<instant, row, tab, left>>
      /\ request[r].at = "expired" /\ ~RowLocked(s)
  <2>1. CASE StillValid(s)
    BY <1>1, <2>1 DEF Renew, IInv, SessionTypeOK
  <2>2. CASE ~StillValid(s)
    BY <1>1, <2>2 DEF Renew, IInv, SessionTypeOK
  <2> QED
    BY <2>1, <2>2
<1>3. /\ request[r].access \in Token /\ s \in Sessions /\ request[r].refresh = s /\ Made(s)
      /\ request[r].access.until \in Nat /\ request[r].access.until < instant + Second
      /\ request[r].access.until + RefreshLife >= row[s].refreshUntil + AccessLife
      /\ request[r].sent \in Nat
  BY <1>1, <1>2, Ranges DEF Sound, IInv, Records
<1>4. instant \in Nat /\ instant <= MaxInstant /\ left \in Nat /\ row[s].refreshUntil \in Nat /\ row[s].until \in Nat
      /\ row[s].until \in AccessTimes
  BY <1>3, Ranges DEF IInv
<1>5. CASE ~StillValid(s)
  <2>1. new = [request[r] EXCEPT !.at = "refused"]
    BY <1>5
  <2>2. /\ new \in Records /\ new.at = "refused" /\ new.access = request[r].access
        /\ new.refresh = request[r].refresh /\ new.sent = request[r].sent
        /\ new.header = request[r].header
    BY <1>1, <2>1 DEF Records, Places
  <2>3. row[s].revoked \/ row[s].refreshUntil < instant + Second
    BY <1>4, <1>5, Numbers DEF StillValid
  <2> HIDE DEF new
  <2>4. Sound(new)
    BY <1>1, <1>2, <1>3, <2>2, <2>3 DEF Sound
  <2>5. Past(new)
    BY <1>1, <1>2, <2>2 DEF Past
  <2> QED
    BY <1>2, <2>2, <2>4, <2>5, RequestStep
<1>6. CASE StillValid(s)
  <2> DEFINE token == [session |-> s, until |-> until]
  <2>1. new = [request[r] EXCEPT !.at = "locked", !.header = token]
    BY <1>6
  <2>2. /\ row[s].refreshUntil <= instant + RefreshLife
        /\ row[s].until + RefreshLife >= row[s].refreshUntil + AccessLife
        /\ row[s].until <= instant + AccessLife /\ row[s].until <= row[s].refreshUntil
    BY <1>3 DEF IInv, RowInv
  <2>3. /\ until \in Nat /\ until <= instant + AccessLife /\ until <= row[s].refreshUntil
        /\ until = row[s].until \/ row[s].until <= instant + Second
        /\ until + RefreshLife >= row[s].refreshUntil + AccessLife
    BY <1>4, <2>2, Numbers DEF Spent, NextExpiry, Smaller
  <2>4. until \in AccessTimes
    BY <1>4, <2>3, Numbers DEF AccessTimes
  <2> HIDE DEF until
  <2>5. token \in Token /\ token # Nothing /\ token.session = s /\ token.until = until
    BY <1>3, <2>4, NoneAssumption DEF Token
  <2> HIDE DEF token
  <2>6. /\ new \in Records /\ new.at = "locked" /\ new.access = request[r].access
        /\ new.refresh = request[r].refresh /\ new.sent = request[r].sent
        /\ new.header = token
    BY <1>1, <2>1, <2>5 DEF Records, Places
  <2> HIDE DEF new
  <2>7. ~row[s].revoked
    BY <1>6 DEF StillValid
  <2>8. Sound(new)
    BY <1>1, <1>2, <1>3, <2>3, <2>5, <2>6, <2>7 DEF Sound
  <2>9. Past(new)
    <3> SUFFICES ASSUME ~Current(s) PROVE Past(new)
      BY <2>6 DEF Past
    <3>1. /\ request[r].sent <= left
          /\ \/ row[s].refreshUntil <= left + AccessLife
             \/ request[r].sent + RefreshLife <= row[s].refreshUntil + RequestLife
      BY <1>1, <1>2, <2>7 DEF Past
    <3>2. instant <= request[r].sent + RequestLife => until <= left + AccessLife
      BY <1>3, <1>4, <2>3, <3>1, Numbers
    <3> QED
      BY <2>5, <2>6, <2>7, <3>1, <3>2 DEF Past
  <2> QED
    BY <1>2, <2>6, <2>8, <2>9, RequestStep
<1> QED
  BY <1>5, <1>6

Rows == [until : AccessTimes, refreshUntil : RefreshTimes, revoked : BOOLEAN]

LockedByNoOther(r, s) ==
    \A q \in Requests \ {r} : ~(request[q].at = "locked" /\ request[q].access.session = s)

\* A step of one request of session s that also writes its row, keeping its beginning.
LEMMA RowStep ==
  ASSUME IInv, NEW r \in Requests, NEW new \in Records, request[r].at # "idle",
         new.at \in {"passed", "done"}, new.kind = request[r].kind,
         new.access = request[r].access, new.refresh = request[r].refresh,
         new.header = request[r].header, new.sent = request[r].sent,
         NEW s \in Sessions, s = request[r].access.session,
         NEW written \in Rows,
         request' = [request EXCEPT ![r] = new], row' = [row EXCEPT ![s] = written],
         UNCHANGED <<instant, tab, left>>,
         written.refreshUntil = row[s].refreshUntil,
         row[s].revoked => written.revoked,
         written.until + RefreshLife >= row[s].refreshUntil + AccessLife,
         written.until <= instant + AccessLife, written.until <= row[s].refreshUntil,
         new.at = "done" /\ new.kind = "signout" => written.revoked,
         LockedByNoOther(r, s)
  PROVE  IInv'
<1>1. /\ request[r] \in Records /\ request'[r] = new
      /\ \A q \in Requests \ {r} : request'[q] = request[q]
  BY Ranges DEF IInv, SessionTypeOK
<1>2. /\ request'[r].at = new.at /\ request'[r].access = request[r].access
      /\ request'[r].refresh = request[r].refresh /\ request'[r].sent = request[r].sent
      /\ request'[r].header = request[r].header /\ request'[r].kind = request[r].kind
  BY <1>1
<1>3. row'[s] = written /\ \A q \in Sessions \ {s} : row'[q] = row[q]
  BY DEF IInv, SessionTypeOK
<1>4. \A q \in Sessions : row'[q].refreshUntil = row[q].refreshUntil /\ (row[q].revoked => row'[q].revoked)
  BY <1>3
<1>5. SessionTypeOK'
  BY DEF IInv, SessionTypeOK, Records, Places, Rows
<1>6. RowInv'
  BY <1>3, <1>4 DEF IInv, RowInv, Made
<1>7. PastInv'
  BY <1>4 DEF IInv, PastInv, Made, Current
<1>8. TabInv'
  BY <1>4, Ranges DEF IInv, TabInv, Made
<1>9. Locks'
  BY <1>1, <1>2 DEF IInv, Locks
<1>10. \A q \in Requests : request[q].at # "idle" => request[q].access.session \in Sessions
  BY Ranges DEF IInv, Sound
<1>11. \A q \in Requests : Sound(request[q])'
  <2> TAKE q \in Requests
  <2>1. CASE q = r
    <3>1. Sound(request[r]) /\ request'[r].at \in {"passed", "done"}
      BY <1>2 DEF IInv
    <3>2. request'[r].at = "done" /\ request'[r].kind = "signout" => row'[s].revoked
      BY <1>2, <1>3
    <3>3. row'[s].refreshUntil = row[s].refreshUntil
      BY <1>3
    <3> QED
      BY <1>2, <2>1, <3>1, <3>2, <3>3 DEF Sound, Made
  <2>2. CASE q # r
    <3>1. request'[q] = request[q] /\ Sound(request[q])
      BY <1>1, <2>2 DEF IInv
    <3>2. ~(request[q].at = "locked" /\ request[q].access.session = s)
      BY <2>2 DEF LockedByNoOther
    <3> QED
      BY <1>3, <1>4, <1>10, <3>1, <3>2 DEF Sound, Made
  <2> QED
    BY <2>1, <2>2
<1>12. \A q \in Requests : Past(request[q])'
  <2> TAKE q \in Requests
  <2>1. /\ Past(request[q]) /\ request'[q].access = request[q].access
        /\ request'[q].sent = request[q].sent /\ request'[q].header = request[q].header
        /\ request'[q].at # "idle" => request[q].at # "idle"
    BY <1>1, <1>2 DEF IInv
  <2> QED
    BY <1>4, <1>10, <2>1 DEF Past, Current
<1> QED
  BY <1>5, <1>6, <1>7, <1>8, <1>9, <1>11, <1>12 DEF IInv

LEMMA CommitKeeps ==
  ASSUME IInv, NEW r \in Requests, CommitRenewal(r)
  PROVE  IInv'
<1> DEFINE token == request[r].header
           s == request[r].access.session
           written == [row[s] EXCEPT !.until = token.until]
<1>1. /\ request[r].at = "locked" /\ request' = [request EXCEPT ![r].at = "passed"]
      /\ row' = [row EXCEPT ![token.session].until = token.until] /\ UNCHANGED <<instant, tab, left>>
  BY DEF CommitRenewal, Proceed
<1>2. request[r] \in Records /\ Sound(request[r])
  BY Ranges DEF IInv
<1>3. token \in Token /\ token.session = s /\ s \in Sessions /\ token.until \in AccessTimes
  BY <1>1, <1>2 DEF Sound, Records, Token
<1>4. row[s] \in Rows
  BY <1>3 DEF IInv, SessionTypeOK, Rows
<1>5. /\ written \in Rows
      /\ written.refreshUntil = row[s].refreshUntil /\ written.revoked = row[s].revoked
      /\ written.until = token.until
  BY <1>3, <1>4 DEF Rows
<1>6. row' = [row EXCEPT ![s] = written]
  BY <1>1, <1>3, <1>4 DEF Rows
<1>7. LockedByNoOther(r, s)
  BY <1>1 DEF IInv, Locks, LockedByNoOther
<1>8. /\ token.until + RefreshLife >= row[s].refreshUntil + AccessLife
      /\ token.until <= instant + AccessLife /\ token.until <= row[s].refreshUntil
  BY <1>1, <1>2 DEF Sound
<1> DEFINE new == [request[r] EXCEPT !.at = "passed"]
<1>9. /\ request[r].at # "idle" /\ request' = [request EXCEPT ![r] = new]
      /\ new \in Records /\ new.at \in {"passed", "done"} /\ new.at # "done"
      /\ new.kind = request[r].kind /\ new.access = request[r].access
      /\ new.refresh = request[r].refresh /\ new.header = request[r].header
      /\ new.sent = request[r].sent
  BY <1>1, <1>2 DEF Records, Places
<1>10. written.until + RefreshLife >= row[s].refreshUntil + AccessLife
       /\ written.until <= instant + AccessLife /\ written.until <= row[s].refreshUntil
  BY <1>5, <1>8
<1>11. s = request[r].access.session /\ s \in Sessions
  BY <1>3
<1>12. UNCHANGED <<instant, tab, left>>
  BY <1>1
<1>13. row[s].revoked => written.revoked
  BY <1>5
<1> HIDE DEF written, token, new, s
<1> QED
  BY ONLY IInv, <1>5, <1>6, <1>7, <1>9, <1>10, <1>11, <1>12, <1>13, RowStep

LEMMA HandleKeeps ==
  ASSUME IInv, NEW r \in Requests, Handle(r)
  PROVE  IInv'
<1> DEFINE s == request[r].access.session
<1>1. /\ request[r].at = "passed" /\ request' = [request EXCEPT ![r].at = "done"]
      /\ UNCHANGED <<instant, tab, left>>
  BY DEF Handle, Proceed
<1>2. request[r] \in Records /\ Sound(request[r]) /\ Past(request[r])
  BY Ranges DEF IInv
<1>3. s \in Sessions /\ Made(s)
  BY <1>1, <1>2, Ranges DEF Sound, IInv
<1>4. row[s] \in Rows
  BY <1>3 DEF IInv, SessionTypeOK, Rows
<1>5. CASE request[r].kind = "signout"
  <2> DEFINE written == [row[s] EXCEPT !.revoked = TRUE]
  <2>1. ~RowLocked(s) /\ row' = [row EXCEPT ![s] = written]
    BY <1>5 DEF Handle
  <2>2. /\ written \in Rows
        /\ written.refreshUntil = row[s].refreshUntil /\ written.revoked
        /\ written.until = row[s].until
    BY <1>4 DEF Rows
  <2>3. LockedByNoOther(r, s)
    BY <2>1 DEF RowLocked, LockedByNoOther
  <2>4. /\ row[s].until + RefreshLife >= row[s].refreshUntil + AccessLife
        /\ row[s].until <= instant + AccessLife /\ row[s].until <= row[s].refreshUntil
    BY <1>3 DEF IInv, RowInv
  <2> DEFINE new == [request[r] EXCEPT !.at = "done"]
  <2>5. /\ request[r].at # "idle" /\ request' = [request EXCEPT ![r] = new]
        /\ new \in Records /\ new.at \in {"passed", "done"} /\ new.kind = request[r].kind
        /\ new.access = request[r].access /\ new.refresh = request[r].refresh
        /\ new.header = request[r].header /\ new.sent = request[r].sent
    BY <1>1, <1>2 DEF Records, Places
  <2>6. written.until + RefreshLife >= row[s].refreshUntil + AccessLife
        /\ written.until <= instant + AccessLife /\ written.until <= row[s].refreshUntil
    BY <2>2, <2>4
  <2>7. s = request[r].access.session
    OBVIOUS
  <2> HIDE DEF written, new, s
  <2> QED
    BY ONLY IInv, <1>5, <2>7, <1>1, <1>3, <2>1, <2>2, <2>3, <2>5, <2>6, RowStep
<1>6. CASE request[r].kind # "signout"
  <2> DEFINE new == [request[r] EXCEPT !.at = "done"]
  <2>1. row' = row /\ request' = [request EXCEPT ![r] = new]
    BY <1>1, <1>6 DEF Handle
  <2>2. /\ new \in Records /\ new.at = "done" /\ new.access = request[r].access
        /\ new.refresh = request[r].refresh /\ new.sent = request[r].sent
        /\ new.header = request[r].header /\ new.kind # "signout"
    BY <1>2, <1>6 DEF Records, Places
  <2> HIDE DEF new
  <2>3. Sound(new) /\ Past(new)
    BY <1>1, <1>2, <2>2 DEF Sound, Past
  <2> QED
    BY <1>1, <2>1, <2>2, <2>3, RequestStep
<1> QED
  BY <1>5, <1>6

LEMMA TickKeeps ==
  ASSUME IInv, Tick
  PROVE  IInv'
<1>1. instant \in Nat /\ instant' = instant + 1 /\ instant < MaxInstant /\ UNCHANGED <<row, request, tab, left>>
  BY Ranges DEF Tick, IInv
<1>2. SessionTypeOK' /\ Locks' /\ PastInv'
  BY <1>1, Numbers DEF IInv, SessionTypeOK, Locks, PastInv, Made, Current
<1>3. RowInv'
  BY <1>1, Numbers, Ranges DEF IInv, RowInv, Made
<1>4. TabInv'
  BY <1>1, Ranges DEF IInv, TabInv, Made
<1>5. \A q \in Requests : Sound(request[q])'
  <2> TAKE q \in Requests
  <2> DEFINE s == request[q].access.session
  <2>1. Sound(request[q]) /\ request[q] \in Records
    BY Ranges DEF IInv
  <2>2. SUFFICES ASSUME request[q].at # "idle" PROVE Sound(request[q])'
    BY <1>1 DEF Sound
  <2>3. s \in Sessions /\ row[s].refreshUntil \in Nat /\ row[s].until \in Nat
        /\ request[q].access.until \in Nat /\ request[q].sent \in Nat
    BY <2>1, <2>2, Ranges DEF Sound, IInv, Records
  <2>4. request[q].header # Nothing => request[q].header.until \in Nat
    BY <2>1, Ranges DEF IInv, Records
  <2> QED
    BY <1>1, <2>1, <2>2, <2>3, <2>4, Numbers DEF Sound, Made
<1>6. \A q \in Requests : Past(request[q])'
  <2> TAKE q \in Requests
  <2>1. Past(request[q]) /\ request[q] \in Records /\ request[q].sent \in Nat
    BY Ranges DEF IInv, Records
  <2> QED
    BY <1>1, <2>1, Numbers DEF Past, Current
<1> QED
  BY <1>2, <1>3, <1>4, <1>5, <1>6 DEF IInv

LEMMA SigninKeeps ==
  ASSUME IInv, NEW s \in Sessions, Signin(s)
  PROVE  IInv'
<1> DEFINE until == instant + AccessLife
           written == [until |-> until, refreshUntil |-> instant + RefreshLife, revoked |-> FALSE]
<1>1. /\ tab = Nothing /\ instant > left /\ row[s] = NoRow
      /\ row' = [row EXCEPT ![s] = written]
      /\ tab' = [access |-> [session |-> s, until |-> until], refresh |-> s]
      /\ UNCHANGED <<instant, request, left>>
  BY DEF Signin
<1>2. instant \in Nat /\ left \in Nat /\ instant <= MaxInstant
  BY Ranges DEF IInv
<1>3. until \in AccessTimes /\ instant + RefreshLife \in RefreshTimes
  BY <1>2, Numbers DEF AccessTimes, RefreshTimes
<1>4. written \in Rows /\ [session |-> s, until |-> until] \in Token
  BY <1>3 DEF Rows, Token
<1>5. SessionTypeOK'
  BY <1>1, <1>4 DEF IInv, SessionTypeOK, Rows, Tokens
<1>6. row'[s] = written /\ \A q \in Sessions \ {s} : row'[q] = row[q]
  BY <1>1 DEF IInv, SessionTypeOK
<1>7. ~Made(s) /\ \A q \in Sessions : ~Current(q)
  BY <1>1 DEF Made, NoRow, Current
<1>8. tab' # Nothing
  BY <1>1, <1>4, NoneAssumption DEF Tokens
<1>9. RowInv'
  <2>1. /\ written.refreshUntil <= instant + RefreshLife
        /\ written.until + RefreshLife >= written.refreshUntil + AccessLife
        /\ written.until <= instant + AccessLife /\ written.until <= written.refreshUntil
    BY <1>2, Numbers
  <2> HIDE DEF written
  <2> QED
    BY <1>1, <1>6, <2>1 DEF IInv, RowInv, Made
<1>10. TabInv'
  <2>1. tab'.access.session = s /\ tab'.refresh = s /\ tab'.access.until = instant + AccessLife
    BY <1>1
  <2>2. row'[s].refreshUntil = instant + RefreshLife
    BY <1>6
  <2>3. row'[s].refreshUntil > 0 /\ row'[s].refreshUntil > left + RefreshLife
    BY <1>1, <1>2, <2>2, Numbers
  <2>4. tab'.access.until + RefreshLife >= row'[s].refreshUntil + AccessLife
    BY <1>2, <2>1, <2>2, Numbers
  <2> QED
    BY <1>1, <1>2, <2>1, <2>3, <2>4 DEF TabInv, Made
<1>11. \A q \in Sessions : Current(q)' <=> q = s
  BY <1>1, <1>8 DEF Current
<1>12. PastInv'
  BY <1>1, <1>6, <1>7, <1>11 DEF IInv, PastInv, Made
<1>13. Locks'
  BY <1>1 DEF IInv, Locks
<1>14. ASSUME NEW q \in Requests, request[q].at # "idle"
       PROVE  request[q].access.session \in Sessions \ {s}
  BY <1>7, <1>14, Ranges DEF IInv, Sound
<1>15. \A q \in Requests : Sound(request[q])'
  BY <1>1, <1>6, <1>14 DEF IInv, Sound, Made
<1>16. \A q \in Requests : Past(request[q])'
  BY <1>1, <1>6, <1>7, <1>14 DEF IInv, Past
<1> QED
  BY <1>5, <1>9, <1>10, <1>12, <1>13, <1>15, <1>16 DEF IInv

\* The token of an answer in time that supersedes the tab's is one of its session.
LEMMA NoMixing ==
  ASSUME IInv, NEW r \in Requests, request[r].at # "idle", Awaited(r),
         tab # Nothing, request[r].header # Nothing, Supersedes(request[r].header)
  PROVE  request[r].header.session = tab.refresh
<1> DEFINE s == request[r].access.session
           token == request[r].header
<1>1. Sound(request[r]) /\ Past(request[r]) /\ request[r] \in Records
  BY Ranges DEF IInv
<1>2. token.session = s /\ token.until \in Nat /\ request[r].sent \in Nat
  BY <1>1, Ranges DEF Sound, IInv, Records
<1>3. SUFFICES ASSUME ~Current(s) PROVE FALSE
  BY <1>2 DEF Current
<1>4. token.until <= left + AccessLife
  BY <1>1, <1>3 DEF Past, Awaited
<1>5. tab.access.until \in Nat /\ row[tab.refresh].refreshUntil \in Nat /\ left \in Nat
  BY Ranges DEF IInv
<1>6. /\ tab.access.until + RefreshLife >= row[tab.refresh].refreshUntil + AccessLife
      /\ row[tab.refresh].refreshUntil > left + RefreshLife
  BY DEF IInv, TabInv
<1>7. tab.access.until > left + AccessLife
  BY ONLY <1>5, <1>6, Numbers
<1>8. token.until >= tab.access.until
  BY DEF Supersedes
<1> HIDE DEF token
<1> QED
  BY <1>2, <1>4, <1>5, <1>7, <1>8, Numbers

\* The tab's session is lost by an answer in time: what that says of its requests.
LEMMA LostEarly ==
  ASSUME IInv, NEW r \in Requests, Awaited(r), tab # Nothing,
         request[r].at = "refused" \/ (request[r].at = "done" /\ request[r].kind = "signout"),
         NEW sent \in Nat, sent <= instant
  PROVE  \/ row[tab.refresh].revoked
         \/ row[tab.refresh].refreshUntil <= instant + AccessLife
         \/ sent + RefreshLife <= row[tab.refresh].refreshUntil + RequestLife
<1> DEFINE s == request[r].access.session
<1>1. Sound(request[r]) /\ Past(request[r]) /\ request[r] \in Records /\ request[r].sent \in Nat
  BY Ranges DEF IInv, Records
<1>2. instant \in Nat /\ left \in Nat /\ row[tab.refresh].refreshUntil \in Nat
  BY Ranges DEF IInv
<1>3. CASE Current(s)
  <2>1. s = tab.refresh
    BY <1>3 DEF Current
  <2>2. row[s].revoked \/ row[s].refreshUntil < instant + Second
    BY <1>1 DEF Sound
  <2> QED
    BY <1>2, <2>1, <2>2, Numbers
<1>4. CASE ~Current(s)
  <2>1. request[r].sent <= left /\ instant <= request[r].sent + RequestLife
    BY <1>1, <1>4 DEF Past, Awaited
  <2>2. row[tab.refresh].refreshUntil > left + RefreshLife
    BY DEF IInv, TabInv
  <2> QED
    BY <1>1, <1>2, <2>1, <2>2, Numbers
<1> QED
  BY <1>3, <1>4

LEMMA ArriveKeeps ==
  ASSUME IInv, NEW r \in Requests, Arrive(r)
  PROVE  IInv'
<1>1. /\ request' = [request EXCEPT ![r] = Idle] /\ UNCHANGED <<instant, row>>
      /\ request[r].at \in {"done", "failed", "refused"} /\ Awaited(r)
  BY DEF Arrive
<1>2. Idle \in Records /\ Idle.at = "idle"
  BY Numbers DEF Records, Places, Idle
<1>3. /\ request' \in [Requests -> Records] /\ request'[r].at = "idle"
      /\ \A q \in Requests : request'[q].at # "idle" => request'[q] = request[q] /\ request[q].at # "idle"
  BY <1>1, <1>2, Ranges DEF IInv, SessionTypeOK, Records, Places
<1>4. Locks' /\ RowInv'
  BY <1>1, <1>3 DEF IInv, Locks, RowInv, Made
<1>5. \A q \in Requests : Sound(request[q])'
  BY <1>1, <1>3 DEF IInv, Sound, Made
<1>6. instant \in Nat /\ left \in Nat /\ left <= instant
  BY Ranges DEF IInv, TabInv
<1>7. CASE request[r].at = "refused" \/ <<request[r].at, request[r].kind>> = <<"done", "signout">>
  <2>1. tab' = Nothing /\ left' = instant /\ \A s \in Sessions : ~Current(s)'
    BY <1>7 DEF Arrive, Lose, Current
  <2>2. SessionTypeOK'
    BY <1>1, <1>3, <2>1 DEF IInv, SessionTypeOK, Records, Places
  <2>3. TabInv'
    BY <1>1, <1>6, <2>1 DEF TabInv
  <2>4. PastInv'
    <3>1. ASSUME NEW s \in Sessions, Made(s) PROVE row[s].refreshUntil <= instant + RefreshLife
      BY <3>1 DEF IInv, RowInv
    <3> QED
      BY <1>1, <2>1, <3>1 DEF PastInv, Made
  <2>5. \A q \in Requests : Past(request[q])'
    <3> SUFFICES ASSUME NEW q \in Requests, request'[q].at # "idle" PROVE Past(request[q])'
      BY DEF Past
    <3> DEFINE s == request[q].access.session
    <3>1. /\ request'[q] = request[q] /\ request[q].at # "idle"
          /\ Sound(request[q]) /\ Past(request[q]) /\ request[q] \in Records
      BY <1>3, Ranges DEF IInv
    <3>2. /\ s \in Sessions /\ request[q].sent \in Nat /\ request[q].sent <= instant
          /\ row[s].refreshUntil \in Nat
      BY <3>1, Ranges DEF Sound, Records, IInv
    <3>3. /\ row[s].revoked \/ row[s].refreshUntil <= instant + AccessLife
             \/ request[q].sent + RefreshLife <= row[s].refreshUntil + RequestLife
      <4>1. CASE Current(s)
        BY <1>1, <1>7, <3>2, <4>1, LostEarly DEF Current
      <4>2. CASE ~Current(s)
        BY <1>6, <3>1, <3>2, <4>2, Numbers DEF Past
      <4> QED
        BY <4>1, <4>2
    <3>4. request[q].header # Nothing => request[q].header.until <= instant + AccessLife
      BY <3>1 DEF Sound
    <3> QED
      BY <1>1, <2>1, <3>1, <3>2, <3>3, <3>4 DEF Past
  <2> QED
    BY <1>4, <1>5, <2>2, <2>3, <2>4, <2>5 DEF IInv
<1>8. CASE ~(request[r].at = "refused" \/ <<request[r].at, request[r].kind>> = <<"done", "signout">>)
  <2>1. tab' = Renewed(request[r].header) /\ left' = left
    BY <1>8 DEF Arrive
  <2>2. ASSUME tab' = tab PROVE IInv'
    <3>1. SessionTypeOK' /\ TabInv' /\ PastInv'
      BY <1>1, <1>3, <2>1, <2>2 DEF IInv, SessionTypeOK, TabInv, PastInv, Made, Current, Records, Places
    <3>2. \A q \in Requests : Past(request[q])'
      BY <1>1, <1>3, <2>1, <2>2 DEF IInv, Past, Current
    <3> QED
      BY <1>4, <1>5, <3>1, <3>2 DEF IInv
  <2>3. CASE tab # Nothing /\ request[r].header # Nothing /\ Supersedes(request[r].header)
    <3> DEFINE token == request[r].header
    <3>1. tab' = [tab EXCEPT !.access = token]
      BY <2>1, <2>3 DEF Renewed
    <3>2. /\ token \in Token /\ token.session = tab.refresh /\ token.until >= tab.access.until
          /\ tab \in Tokens
      BY <1>1, <2>3, NoMixing, Ranges DEF Supersedes, IInv, Records
    <3>3. tab' \in Tokens /\ tab'.access = token /\ tab'.refresh = tab.refresh
      BY <3>1, <3>2 DEF Tokens
    <3>4. tab' # Nothing /\ \A s \in Sessions : Current(s)' <=> Current(s)
      BY <2>3, <3>3, NoneAssumption DEF Current
    <3>5. SessionTypeOK'
      BY <1>1, <1>3, <2>1, <3>3 DEF IInv, SessionTypeOK, Records, Places
    <3>6. TabInv'
      <4>1. tab.access.until \in Nat /\ token.until \in Nat /\ row[tab.refresh].refreshUntil \in Nat
        BY <2>3, <3>2, Ranges DEF IInv
      <4>2. token.until + RefreshLife >= row[tab.refresh].refreshUntil + AccessLife
        BY <2>3, <3>2, <4>1, Numbers DEF IInv, TabInv
      <4> HIDE DEF token
      <4> QED
        BY <1>1, <2>1, <2>3, <3>2, <3>3, <4>2 DEF IInv, TabInv, Made
    <3>7. PastInv'
      BY <1>1, <2>1, <3>4 DEF IInv, PastInv, Made
    <3>8. \A q \in Requests : Past(request[q])'
      <4>1. \A q \in Requests : request[q].at # "idle" => request[q].access.session \in Sessions
        BY Ranges DEF IInv, Sound
      <4> QED
        BY <1>1, <1>3, <2>1, <3>4, <4>1 DEF IInv, Past
    <3> QED
      BY <1>4, <1>5, <3>5, <3>6, <3>7, <3>8 DEF IInv
  <2> QED
    BY <2>1, <2>2, <2>3 DEF Renewed
<1> QED
  BY <1>7, <1>8

LEMMA NextKeeps == IInv /\ [SessionNext]_sessionVars => IInv'
<1> SUFFICES ASSUME IInv, [SessionNext]_sessionVars PROVE IInv'
  OBVIOUS
<1>1. ASSUME NEW s \in Sessions, Signin(s) PROVE IInv'
  BY <1>1, SigninKeeps
<1>2. ASSUME NEW r \in Requests, NEW kind \in {"call", "signout"}, Send(r, kind) PROVE IInv'
  BY <1>2, SendKeeps
<1>3. ASSUME NEW r \in Requests,
             Check(r) \/ Renew(r) \/ CommitRenewal(r) \/ Handle(r) \/ Fail(r) \/ Arrive(r) \/ Miss(r)
      PROVE  IInv'
  BY <1>3, CheckKeeps, RenewKeeps, CommitKeeps, HandleKeeps, FailKeeps, ArriveKeeps, ForgetKeeps
<1>4. CASE UNCHANGED sessionVars
  BY <1>4 DEF sessionVars, IInv, SessionTypeOK, RowInv, Locks, TabInv, PastInv, Sound, Past, Made, Current
<1> QED
  BY <1>1, <1>2, <1>3, <1>4, TickKeeps DEF SessionNext

-----------------------------------------------------------------------------
LEMMA Invariance == SessionSpec => []IInv
BY InitIInv, NextKeeps, PTL DEF SessionSpec

\* Rows, requests and tokens have their types at all times.
THEOREM TypeCorrect == SessionSpec => []SessionTypeOK
<1>1. IInv => SessionTypeOK
  BY DEF IInv
<1> QED
  BY <1>1, Invariance, PTL

\* The tab never holds the tokens of two sessions.
THEOREM Matching == SessionSpec => []TokensMatch
<1>1. IInv => TokensMatch
  BY DEF IInv, TabInv, TokensMatch
<1> QED
  BY <1>1, Invariance, PTL

\* No access token outlives its session.
THEOREM Ends == SessionSpec => []AccessEndsWithSession
<1>1. IInv => AccessEndsWithSession
  <2> SUFFICES ASSUME IInv, NEW s \in Sessions PROVE row[s].until <= row[s].refreshUntil
    BY DEF AccessEndsWithSession
  <2> QED
    BY DEF IInv, RowInv
<1> QED
  BY <1>1, Invariance, PTL

\* A refusal means that the session has ended, or ends within this second.
THEOREM LiveServed == SessionSpec => LiveIsNotRefused
<1>1. IInv /\ [SessionNext]_sessionVars =>
        \A r \in Requests :
          request[r].at # "refused" /\ request'[r].at = "refused" =>
              LET s == request[r].refresh IN
              row[s].revoked \/ Exp(row[s].refreshUntil) <= Exp(instant)
  <2> SUFFICES ASSUME IInv, [SessionNext]_sessionVars, NEW r \in Requests,
                      request[r].at # "refused", request'[r].at = "refused"
               PROVE  row[request[r].refresh].revoked
                        \/ Exp(row[request[r].refresh].refreshUntil) <= Exp(instant)
    OBVIOUS
  <2>1. ASSUME request[r].at \in {"sent", "expired"},
               ~RefreshVerified(request[r].refresh) \/ request[r].access.session # request[r].refresh
                   \/ ~StillValid(request[r].access.session)
        PROVE  row[request[r].refresh].revoked
                 \/ Exp(row[request[r].refresh].refreshUntil) <= Exp(instant)
    <3> DEFINE s == request[r].access.session
    <3>1. s \in Sessions /\ request[r].refresh = s
      BY <2>1, Ranges DEF IInv, Sound
    <3>2. row[s].refreshUntil \in Nat /\ instant \in Nat
      BY <3>1, Ranges DEF IInv
    <3>3. Exp(row[s].refreshUntil) \in Nat /\ Exp(instant) \in Nat
      BY <3>2, WholeSeconds
    <3>4. ~RefreshVerified(s) => Exp(row[s].refreshUntil) <= Exp(instant)
      BY <3>3 DEF RefreshVerified
    <3>5. ~StillValid(s) => row[s].revoked \/ Exp(row[s].refreshUntil) <= Exp(instant)
      BY <3>2, SecondsGrow DEF StillValid
    <3> QED
      BY <2>1, <3>1, <3>4, <3>5
  <2>2. \A q \in Requests : request[q] \in Records
    BY Ranges DEF IInv
  <2>3. ASSUME NEW q \in Requests, NEW new, new.at # "refused", request' = [request EXCEPT ![q] = new]
        PROVE  FALSE
    BY <2>3 DEF IInv, SessionTypeOK
  <2>4. ASSUME NEW q \in Requests, NEW place \in Places, place # "refused", Proceed(q, place) PROVE FALSE
    <3> DEFINE new == [request[q] EXCEPT !.at = place]
    <3>1. new.at # "refused" /\ request' = [request EXCEPT ![q] = new]
      BY <2>2, <2>4 DEF Proceed, Records
    <3> QED
      BY <2>3, <3>1
  <2>5. ASSUME NEW q \in Requests, Check(q)
        PROVE  /\ q = r /\ request[r].at = "sent"
               /\ ~RefreshVerified(request[r].refresh) \/ request[r].access.session # request[r].refresh
                   \/ ~StillValid(request[r].access.session)
    <3>1. request[q].at = "sent"
      BY <2>5 DEF Check
    <3>2. q = r
      BY <2>5 DEF Check, Proceed, IInv, SessionTypeOK
    <3>3. CASE ~(~RefreshVerified(request[q].refresh) \/ request[q].access.session # request[q].refresh
                   \/ ~StillValid(request[q].access.session))
      <4>1. Proceed(q, "expired") \/ Proceed(q, "passed")
        BY <2>5, <3>3 DEF Check
      <4> QED
        BY <2>4, <4>1 DEF Places
    <3> QED
      BY <3>1, <3>2, <3>3
  <2>6. ASSUME NEW q \in Requests, Renew(q)
        PROVE  q = r /\ request[r].at = "expired" /\ ~StillValid(request[r].access.session)
    <3>1. request[q].at = "expired"
      BY <2>6 DEF Renew
    <3>2. q = r
      BY <2>6 DEF Renew, IInv, SessionTypeOK
    <3>3. CASE StillValid(request[q].access.session)
      <4>1. PICK token : request' = [request EXCEPT ![q] = [request[q] EXCEPT !.at = "locked", !.header = token]]
        BY <2>6, <3>3 DEF Renew
      <4>2. [request[q] EXCEPT !.at = "locked", !.header = token].at = "locked"
        BY <2>2 DEF Records
      <4> QED
        BY <2>3, <4>1, <4>2
    <3> QED
      BY <3>1, <3>2, <3>3
  <2>7. ASSUME NEW q \in Requests, Fail(q) PROVE FALSE
    <3> DEFINE new == [request[q] EXCEPT !.at = "failed",
                           !.header = IF request[q].at = "passed" THEN @ ELSE Nothing]
    <3>1. request' = [request EXCEPT ![q] = new]
      BY <2>2, <2>7 DEF Fail, IInv, SessionTypeOK
    <3>2. new.at = "failed"
      BY <2>2 DEF Records, Places
    <3> QED
      BY <2>3, <3>1, <3>2
  <2>8. ASSUME NEW q \in Requests, NEW kind \in {"call", "signout"},
               Send(q, kind) \/ Arrive(q) \/ Miss(q)
        PROVE  FALSE
    <3>1. CASE Send(q, kind)
      <4> DEFINE new == [at |-> "sent", kind |-> kind, access |-> tab.access, refresh |-> tab.refresh,
                         header |-> Nothing, sent |-> instant]
      <4>1. request' = [request EXCEPT ![q] = new] /\ new.at # "refused"
        BY <3>1 DEF Send
      <4> QED
        BY <2>3, <4>1
    <3>2. CASE Arrive(q) \/ Miss(q)
      <4>1. request' = [request EXCEPT ![q] = Idle] /\ Idle.at # "refused"
        BY <3>2 DEF Arrive, Miss, Idle
      <4> QED
        BY <2>3, <4>1
    <3> QED
      BY <2>8, <3>1, <3>2
  <2>9. ASSUME NEW q \in Requests, CommitRenewal(q) \/ Handle(q) PROVE FALSE
    BY <2>4, <2>9 DEF CommitRenewal, Handle, Places
  <2>10. ASSUME NEW s \in Sessions, Signin(s) PROVE FALSE
    BY <2>10 DEF Signin
  <2>11. Tick => FALSE
    BY DEF Tick
  <2>12. UNCHANGED sessionVars => FALSE
    BY DEF sessionVars
  <2> QED
    BY <2>1, <2>5, <2>6, <2>7, <2>8, <2>9, <2>10, <2>11, <2>12 DEF SessionNext
<1>2. [][\A r \in Requests :
           request[r].at # "refused" /\ request'[r].at = "refused" =>
               LET s == request[r].refresh IN
               row[s].revoked \/ Exp(row[s].refreshUntil) <= Exp(instant)]_sessionVars => LiveIsNotRefused
  BY PTL DEF LiveIsNotRefused
<1> QED
  BY <1>1, <1>2, Invariance, PTL DEF SessionSpec

\* What a request can be after a step, if it was waiting to be let in.
LEMMA WaitingMoves ==
  ASSUME IInv, [SessionNext]_sessionVars, NEW r \in Requests, request[r].at \in {"sent", "expired"}
  PROVE  request'[r] = request[r] \/ Check(r) \/ Renew(r) \/ Fail(r)
<1>1. ASSUME NEW q \in Requests, q # r, NEW new, request' = [request EXCEPT ![q] = new]
      PROVE  request'[r] = request[r]
  BY <1>1 DEF IInv, SessionTypeOK
<1>2. ASSUME NEW q \in Requests, NEW kind \in {"call", "signout"}, Send(q, kind)
      PROVE  request'[r] = request[r]
  <2>1. q # r
    BY <1>2 DEF Send
  <2> QED
    BY <1>1, <1>2, <2>1 DEF Send
<1>3. ASSUME NEW q \in Requests, Arrive(q) \/ Miss(q) PROVE request'[r] = request[r]
  <2>1. q # r
    BY <1>3 DEF Arrive, Miss
  <2> QED
    BY <1>1, <1>3, <2>1 DEF Arrive, Miss
<1>4. ASSUME NEW q \in Requests, CommitRenewal(q) \/ Handle(q) PROVE request'[r] = request[r]
  <2>1. q # r
    BY <1>4 DEF CommitRenewal, Handle
  <2> QED
    BY <1>4, <2>1 DEF CommitRenewal, Handle, Proceed, IInv, SessionTypeOK
<1>5. ASSUME NEW q \in Requests, q # r, Check(q) \/ Renew(q) \/ Fail(q) PROVE request'[r] = request[r]
  <2>1. CASE Check(q)
    BY <1>5, <2>1 DEF Check, Proceed, IInv, SessionTypeOK
  <2>2. CASE Renew(q)
    BY <1>5, <2>2 DEF Renew, IInv, SessionTypeOK
  <2>3. CASE Fail(q)
    BY <1>5, <2>3 DEF Fail, IInv, SessionTypeOK
  <2> QED
    BY <1>5, <2>1, <2>2, <2>3
<1>6. ASSUME NEW s \in Sessions, Signin(s) PROVE request'[r] = request[r]
  BY <1>6 DEF Signin
<1>7. Tick \/ UNCHANGED sessionVars => request'[r] = request[r]
  BY DEF Tick, sessionVars
<1> QED
  BY <1>2, <1>3, <1>4, <1>5, <1>6, <1>7 DEF SessionNext

\* Only a sign-in, the commit of a renewal and a sign-out change a row.
LEMMA RowMoves ==
  ASSUME IInv, [SessionNext]_sessionVars, NEW s \in Sessions, row'[s] # row[s]
  PROVE  \/ row[s] = NoRow
         \/ \E r \in Requests :
              /\ request[r].at = "locked" /\ request[r].header \in Token /\ request[r].access.session = s
              /\ Sound(request[r])
              /\ row'[s] = [row[s] EXCEPT !.until = request[r].header.until]
         \/ row'[s] = [row[s] EXCEPT !.revoked = TRUE]
<1>1. ASSUME NEW t \in Sessions, Signin(t) PROVE row[s] = NoRow
  BY <1>1 DEF Signin, IInv, SessionTypeOK
<1>2. ASSUME NEW r \in Requests, CommitRenewal(r)
      PROVE  /\ request[r].at = "locked" /\ request[r].header \in Token /\ request[r].access.session = s
             /\ Sound(request[r])
             /\ row'[s] = [row[s] EXCEPT !.until = request[r].header.until]
  <2>1. request[r].at = "locked" /\ request[r] \in Records /\ Sound(request[r])
    BY <1>2, Ranges DEF CommitRenewal, IInv
  <2>2. request[r].header \in Token /\ request[r].header.session = request[r].access.session
    BY <2>1 DEF Sound, Records
  <2>3. row' = [row EXCEPT ![request[r].header.session] =
                   [row[request[r].header.session] EXCEPT !.until = request[r].header.until]]
    BY <1>2 DEF CommitRenewal
  <2>4. request[r].header.session = s
    BY <2>3 DEF IInv, SessionTypeOK
  <2> QED
    BY <2>1, <2>2, <2>3, <2>4 DEF IInv, SessionTypeOK
<1>3. ASSUME NEW r \in Requests, Handle(r) PROVE row'[s] = [row[s] EXCEPT !.revoked = TRUE]
  <2> DEFINE t == request[r].access.session
  <2>1. row' = [row EXCEPT ![t] = [row[t] EXCEPT !.revoked = TRUE]]
    BY <1>3 DEF Handle
  <2> QED
    BY <2>1 DEF IInv, SessionTypeOK
<1>4. ASSUME NEW r \in Requests, NEW kind \in {"call", "signout"},
             Send(r, kind) \/ Check(r) \/ Renew(r) \/ Fail(r) \/ Arrive(r) \/ Miss(r)
      PROVE  FALSE
  BY <1>4 DEF Send, Check, Renew, Fail, Arrive, Miss
<1>5. Tick \/ UNCHANGED sessionVars => FALSE
  BY DEF Tick, sessionVars
<1> QED
  BY <1>1, <1>2, <1>3, <1>4, <1>5 DEF SessionNext

\* A signed-out session stays signed out.
THEOREM StaysOut == SessionSpec => SignedOutStaysOut
<1>1. IInv /\ [SessionNext]_sessionVars =>
        \A s \in Sessions : row[s].revoked =>
          /\ row'[s] = row[s]
          /\ \A r \in Requests :
               request[r].access # Nothing /\ request[r].access.session = s
               /\ request[r].at \in {"sent", "expired"}
                   => request'[r].at \in {"sent", "expired", "refused", "failed"}
  <2> SUFFICES ASSUME IInv, [SessionNext]_sessionVars, NEW s \in Sessions, row[s].revoked
               PROVE  /\ row'[s] = row[s]
                      /\ \A r \in Requests :
                           request[r].access # Nothing /\ request[r].access.session = s
                           /\ request[r].at \in {"sent", "expired"}
                               => request'[r].at \in {"sent", "expired", "refused", "failed"}
    OBVIOUS
  <2>1. row'[s] = row[s]
    <3>1. SUFFICES ASSUME row'[s] # row[s] PROVE FALSE
      OBVIOUS
    <3>2. row[s] # NoRow
      BY DEF NoRow
    <3>3. ASSUME NEW r \in Requests, request[r].at = "locked", request[r].access.session = s,
                 Sound(request[r])
          PROVE  FALSE
      BY <3>3 DEF Sound
    <3>4. [row[s] EXCEPT !.revoked = TRUE] = row[s]
      BY DEF IInv, SessionTypeOK
    <3> QED
      BY <3>1, <3>2, <3>3, <3>4, RowMoves
  <2>2. ASSUME NEW r \in Requests, request[r].access.session = s, request[r].at \in {"sent", "expired"}
        PROVE  request'[r].at \in {"sent", "expired", "refused", "failed"}
    <3>1. ~StillValid(request[r].access.session)
      BY <2>2 DEF StillValid
    <3>2. request[r] \in Records
      BY Ranges DEF IInv
    <3>3. CASE Check(r)
      <4>1. request'[r] = [request[r] EXCEPT !.at = "refused"]
        BY <3>1, <3>3 DEF Check, Proceed, IInv, SessionTypeOK
      <4> QED
        BY <3>2, <4>1 DEF Records
    <3>4. CASE Renew(r)
      <4>1. request'[r] = [request[r] EXCEPT !.at = "refused"]
        BY <3>1, <3>4 DEF Renew, IInv, SessionTypeOK
      <4> QED
        BY <3>2, <4>1 DEF Records
    <3>5. CASE Fail(r)
      <4> DEFINE new == [request[r] EXCEPT !.at = "failed",
                           !.header = IF request[r].at = "passed" THEN @ ELSE Nothing]
      <4>1. request' = [request EXCEPT ![r] = new]
        BY <3>2, <3>5 DEF Fail, IInv, SessionTypeOK
      <4>2. new.at = "failed"
        BY <3>2 DEF Records, Places
      <4> QED
        BY <4>1, <4>2 DEF IInv, SessionTypeOK
    <3> QED
      BY <2>2, <3>3, <3>4, <3>5, WaitingMoves
  <2> QED
    BY <2>1, <2>2
<1>2. [][\A s \in Sessions : row[s].revoked =>
          /\ row'[s] = row[s]
          /\ \A r \in Requests :
               request[r].access # Nothing /\ request[r].access.session = s
               /\ request[r].at \in {"sent", "expired"}
                   => request'[r].at \in {"sent", "expired", "refused", "failed"}]_sessionVars => SignedOutStaysOut
  BY PTL DEF SignedOutStaysOut
<1> QED
  BY <1>1, <1>2, Invariance, PTL DEF SessionSpec

\* A time more than a second ahead is still ahead in whole seconds.
LEMMA WholeSecondAhead ==
  ASSUME NEW t \in Nat, NEW now \in Nat, now + Second < t
  PROVE  Exp(t) * Second > now
<1>1. Exp(t) * Second \in Nat
  BY WholeSeconds, Numbers
<1> QED
  BY <1>1, WholeSeconds, Numbers

\* Renewals under way at once agree on the access token.
THEOREM Converges == SessionSpec => RenewalsConverge
<1>1. IInv /\ [SessionNext]_sessionVars =>
        /\ \A s \in Sessions : row[s] # NoRow /\ row'[s].until # row[s].until
               => row[s].until <= instant + Second
        /\ \A r \in Requests : request[r].at = "expired" /\ request'[r].at = "locked" =>
               LET token == request'[r].header IN
               \/ Exp(token.until) * Second > instant
               \/ token.until = row[token.session].refreshUntil
  <2> SUFFICES ASSUME IInv, [SessionNext]_sessionVars
               PROVE  /\ \A s \in Sessions : row[s] # NoRow /\ row'[s].until # row[s].until
                             => row[s].until <= instant + Second
                      /\ \A r \in Requests : request[r].at = "expired" /\ request'[r].at = "locked" =>
                             \/ Exp(request'[r].header.until) * Second > instant
                             \/ request'[r].header.until = row[request'[r].header.session].refreshUntil
    OBVIOUS
  <2>1. ASSUME NEW s \in Sessions, row[s] # NoRow, row'[s].until # row[s].until
        PROVE  row[s].until <= instant + Second
    <3>1. row'[s] # row[s]
      BY <2>1
    <3>2. row'[s] # [row[s] EXCEPT !.revoked = TRUE]
      BY <2>1 DEF IInv, SessionTypeOK
    <3>3. PICK r \in Requests :
            /\ request[r].at = "locked" /\ request[r].header \in Token /\ request[r].access.session = s
            /\ Sound(request[r])
            /\ row'[s] = [row[s] EXCEPT !.until = request[r].header.until]
      BY <2>1, <3>1, <3>2, RowMoves
    <3>4. row'[s].until = request[r].header.until
      BY <3>3 DEF IInv, SessionTypeOK
    <3> QED
      BY <2>1, <3>3, <3>4 DEF Sound
  <2>2. ASSUME NEW r \in Requests, request[r].at = "expired", request'[r].at = "locked"
        PROVE  \/ Exp(request'[r].header.until) * Second > instant
               \/ request'[r].header.until = row[request'[r].header.session].refreshUntil
    <3> DEFINE s == request[r].access.session
               until == IF Spent(row[s].until) THEN NextExpiry(s) ELSE row[s].until
    <3>1. request[r] \in Records /\ Sound(request[r])
      BY Ranges DEF IInv
    <3>2. s \in Sessions /\ instant \in Nat /\ row[s].until \in Nat /\ row[s].refreshUntil \in Nat
      BY <2>2, <3>1, Ranges DEF Sound, IInv
    <3>3. ~Fail(r) /\ ~Check(r)
      <4>1. ~Check(r)
        BY <2>2 DEF Check
      <4>2. ASSUME Fail(r) PROVE FALSE
        <5> DEFINE new == [request[r] EXCEPT !.at = "failed",
                             !.header = IF request[r].at = "passed" THEN @ ELSE Nothing]
        <5>1. request' = [request EXCEPT ![r] = new]
          BY <3>1, <4>2 DEF Fail, IInv, SessionTypeOK
        <5>2. new.at = "failed"
          BY <3>1 DEF Records, Places
        <5> QED
          BY <2>2, <5>1, <5>2 DEF IInv, SessionTypeOK
      <4> QED
        BY <4>1, <4>2
    <3>4. Renew(r)
      BY <2>2, <3>3, WaitingMoves
    <3>5. request'[r].header = [session |-> s, until |-> until]
      <4>1. CASE StillValid(s)
        <5>1. request' = [request EXCEPT ![r] =
                 [request[r] EXCEPT !.at = "locked", !.header = [session |-> s, until |-> until]]]
          BY <3>1, <3>4, <4>1 DEF Renew, IInv, SessionTypeOK
        <5>2. [request[r] EXCEPT !.at = "locked", !.header = [session |-> s, until |-> until]].header
                = [session |-> s, until |-> until]
          BY <3>1 DEF Records
        <5> QED
          BY <5>1, <5>2 DEF IInv, SessionTypeOK
      <4>2. CASE ~StillValid(s)
        <5>1. request'[r] = [request[r] EXCEPT !.at = "refused"]
          BY <3>4, <4>2 DEF Renew, IInv, SessionTypeOK
        <5> QED
          BY <2>2, <3>1, <5>1 DEF Records
      <4> QED
        BY <4>1, <4>2
    <3>6. until \in Nat /\ (until > instant + Second \/ until = row[s].refreshUntil)
      BY <3>2, Numbers DEF Spent, NextExpiry, Smaller
    <3> HIDE DEF s, until
    <3> QED
      BY <3>2, <3>5, <3>6, WholeSecondAhead
  <2> QED
    BY <2>1, <2>2
<1>2. [][/\ \A s \in Sessions : row[s] # NoRow /\ row'[s].until # row[s].until
               => row[s].until <= instant + Second
         /\ \A r \in Requests : request[r].at = "expired" /\ request'[r].at = "locked" =>
               LET token == request'[r].header IN
               \/ Exp(token.until) * Second > instant
               \/ token.until = row[token.session].refreshUntil]_sessionVars => RenewalsConverge
  BY PTL DEF RenewalsConverge
<1> QED
  BY <1>1, <1>2, Invariance, PTL DEF SessionSpec

-----------------------------------------------------------------------------
(* The bucket of the rate limiter, for every capacity, refill and window. *)

\* What has run in since the last call, had the key never expired.
Level == Capped(tokens + Elapsed * Refill)

\* A key that is gone was full, or had the time to fill.
ExpiresFull == tokens = FullBucket \/ Refill * (expires - time) >= FullBucket

\* Calls admitted and tokens left together never exceed what came in.
Balance == Window * admitted + Level <= FullBucket + Refill * (clock - since)

LimiterInv == LimiterTypeOK /\ since <= clock /\ ExpiresFull /\ Balance

\* What the script returns is, in milliseconds, what the bucket needs for one token.
DelayIsExact ==
    delay > 0 =>
        /\ tokens + delay * Refill >= Window
        /\ tokens + (delay - 1) * Refill < Window

\* The arithmetic of math.ceil.
LEMMA CeilingAbove ==
  ASSUME NEW units \in Nat
  PROVE  /\ Wait(units) \in Nat
         /\ Refill * Wait(units) >= units
         /\ Refill * Wait(units) < units + Refill
<1> DEFINE n == units + Refill - 1
<1>1. Refill \in Nat /\ Refill > 0 /\ n \in Nat
  BY LimiterAssumption DEF LimiterAssumption
<1>2. Refill * (n \div Refill) <= n /\ n < Refill * (n \div Refill) + Refill /\ n \div Refill \in Nat
  BY <1>1, SMTT(30)
<1> QED
  BY <1>1, <1>2 DEF Wait

LEMMA Cap ==
  ASSUME NEW units \in Nat
  PROVE  /\ Capped(units) \in 0 .. FullBucket
         /\ Capped(units) <= units
         /\ units <= FullBucket => Capped(units) = units
         /\ \A more \in Nat : Capped(units + more) <= Capped(units) + more
<1>1. FullBucket \in Nat
  BY LimiterAssumption DEF LimiterAssumption, FullBucket
<1> QED
  BY <1>1 DEF Capped

\* Multiplication is monotone.
LEMMA Products ==
  ASSUME NEW factor \in Nat, NEW a \in Int, NEW b \in Int, a <= b
  PROVE  factor * a <= factor * b /\ a * factor <= b * factor
<1>1. b - a \in Nat
  OBVIOUS
<1>2. factor * (b - a) \in Nat
  BY <1>1
<1>3. factor * (b - a) = factor * b - factor * a
  OBVIOUS
<1>4. factor * a = a * factor /\ factor * b = b * factor /\ factor * a \in Int /\ factor * b \in Int
  OBVIOUS
<1> QED
  BY <1>2, <1>3, <1>4

LEMMA FillRange ==
  ASSUME NEW units \in 0 .. FullBucket, NEW e \in Nat
  PROVE  Capped(units + e * Refill) \in 0 .. FullBucket
<1>1. Refill \in Nat /\ FullBucket \in Nat
  BY LimiterAssumption DEF LimiterAssumption, FullBucket
<1>2. units + e * Refill \in Nat
  BY <1>1
<1> QED
  BY <1>2, Cap

\* What the cap leaves of a stretch of f instead of e milliseconds.
LEMMA Fill ==
  ASSUME NEW units \in 0 .. FullBucket, NEW e \in Nat, NEW f \in Nat, NEW n \in Nat, f <= e + n
  PROVE  /\ Capped(units + f * Refill) \in 0 .. FullBucket
         /\ Capped(units + f * Refill) <= Capped(units + e * Refill) + n * Refill
         /\ n * Refill \in Nat
         /\ Capped(units + 0 * Refill) = units
<1>1. Refill \in Nat /\ FullBucket \in Nat
  BY LimiterAssumption DEF LimiterAssumption, FullBucket
<1>2. f * Refill <= (e + n) * Refill
  BY <1>1, Products
<1>3. (e + n) * Refill = e * Refill + n * Refill
  BY <1>1
<1>4. e * Refill \in Nat /\ f * Refill \in Nat /\ n * Refill \in Nat /\ 0 * Refill = 0
  BY <1>1
<1>5. units \in Nat /\ units <= FullBucket
  BY <1>1
<1> QED
  BY ONLY <1>1, <1>2, <1>3, <1>4, <1>5 DEF Capped

\* The key goes away only after Level has reached FullBucket: its loss changes nothing.
LEMMA AvailableIsLevel ==
  ASSUME LimiterInv
  PROVE  Available = Level /\ Level \in 0 .. FullBucket
<1>1. FullBucket \in Nat /\ Refill \in Nat /\ Elapsed \in Nat
  BY LimiterAssumption DEF LimiterAssumption, LimiterInv, LimiterTypeOK, Elapsed, FullBucket
<1>2. tokens \in 0 .. FullBucket /\ Elapsed * Refill \in Nat
  BY <1>1 DEF LimiterInv, LimiterTypeOK
<1>3. Level \in 0 .. FullBucket
  BY <1>1, <1>2 DEF Level, Capped
<1>4. ASSUME clock >= expires PROVE tokens + Elapsed * Refill >= FullBucket
  <2>1. CASE tokens = FullBucket
    BY <1>1, <1>2, <2>1
  <2>2. CASE Refill * (expires - time) >= FullBucket
    <3>1. CASE expires - time <= 0
      <4>1. expires - time \in Int /\ 0 \in Int
        BY DEF LimiterInv, LimiterTypeOK
      <4>2. Refill * (expires - time) <= Refill * 0
        BY ONLY <1>1, <3>1, <4>1, Products
      <4>3. Refill * 0 = 0 /\ Refill * (expires - time) \in Int
        BY <1>1, <4>1
      <4>4. FullBucket <= 0
        BY <1>1, <2>2, <4>2, <4>3
      <4> HIDE DEF FullBucket
      <4> QED
        BY <1>1, <1>2, <4>4
    <3>2. CASE expires - time > 0
      <4>1. Elapsed = clock - time /\ Elapsed >= expires - time
        BY <1>4, <3>2 DEF Elapsed, LimiterInv, LimiterTypeOK
      <4>2. Refill * Elapsed >= Refill * (expires - time)
        BY <1>1, <4>1, SMTT(30) DEF LimiterInv, LimiterTypeOK
      <4> QED
        BY <1>1, <1>2, <2>2, <4>2 DEF LimiterInv, LimiterTypeOK
    <3> QED
      BY <3>1, <3>2 DEF LimiterInv, LimiterTypeOK
  <2> QED
    BY <2>1, <2>2 DEF LimiterInv, ExpiresFull
<1>5. CASE clock >= expires
  <2>1. Level = FullBucket
    BY <1>1, <1>2, <1>4, <1>5 DEF Level, Capped
  <2> QED
    BY <1>3, <1>5, <2>1 DEF Available
<1>6. CASE ~(clock >= expires)
  BY <1>3, <1>6 DEF Available, Level
<1> QED
  BY <1>5, <1>6

LEMMA LimiterStarts == LimiterInit => LimiterInv /\ DelayIsExact
<1> SUFFICES ASSUME LimiterInit PROVE LimiterInv /\ DelayIsExact
  OBVIOUS
<1> USE LimiterAssumption DEF LimiterAssumption, LimiterInit
<1>1. FullBucket \in Nat /\ FullBucket \in 0 .. FullBucket /\ Elapsed = 0
  BY DEF FullBucket, Elapsed
<1>2. LimiterTypeOK
  BY <1>1 DEF LimiterTypeOK
<1>3. Level = FullBucket /\ Window * admitted = 0 /\ Refill * (clock - since) = 0
  BY <1>1 DEF Level, Capped
<1>4. Balance
  BY <1>1, <1>3 DEF Balance
<1> QED
  BY <1>2, <1>4 DEF LimiterInv, ExpiresFull, DelayIsExact

-----------------------------------------------------------------------------
(* One lemma per action. *)

LEMMA ConsumeKeeps ==
  ASSUME LimiterInv, Consume
  PROVE  LimiterInv' /\ DelayIsExact'
<1> USE LimiterAssumption DEF LimiterAssumption
<1>1. FullBucket \in Nat /\ FullBucket' = FullBucket
  BY DEF FullBucket
<1>2. Available \in 0 .. FullBucket /\ Window * admitted + Available <= FullBucket + Refill * (clock - since)
  BY AvailableIsLevel DEF LimiterInv, Balance
<1>3. /\ clock \in Nat /\ since \in Nat /\ admitted \in Nat /\ since <= clock
      /\ clock' = clock /\ since' = since /\ time' = clock /\ expires' = Expiry(clock)
  BY DEF LimiterInv, LimiterTypeOK, Consume
<1>4. Expiry(clock) \in Nat /\ Refill * (Expiry(clock) - clock) >= FullBucket
  <2>1. 2 * FullBucket \in Nat
    BY <1>1
  <2>2. Wait(2 * FullBucket) \in Nat /\ Refill * Wait(2 * FullBucket) >= 2 * FullBucket
    BY <2>1, CeilingAbove
  <2>3. Expiry(clock) - clock = Wait(2 * FullBucket)
    BY <1>3, <2>2 DEF Expiry
  <2>4. Expiry(clock) \in Nat
    BY <1>3, <2>2 DEF Expiry
  <2> QED
    BY <1>1, <2>2, <2>3, <2>4
<1>5. ExpiresFull'
  BY <1>1, <1>3, <1>4 DEF ExpiresFull
<1>6. Elapsed' = 0
  BY <1>3 DEF Elapsed
<1>7. ASSUME tokens' \in 0 .. FullBucket PROVE Level' = tokens'
  <2>1. Level' = Capped(tokens' + 0 * Refill)
    BY <1>6 DEF Level
  <2>2. 0 \in Nat /\ 0 <= 0 + 0
    OBVIOUS
  <2> QED
    BY ONLY <1>7, <2>1, <2>2, Fill
<1>8. CASE Available >= Window
  <2>1. tokens' = Available - Window /\ delay' = 0 /\ admitted' = admitted + 1
    BY <1>8 DEF Consume
  <2>2. tokens' \in 0 .. FullBucket
    BY <1>1, <1>2, <1>8, <2>1
  <2>3. Window * admitted' = Window * admitted + Window
    BY <1>3, <2>1
  <2>4. Balance'
    BY <1>1, <1>2, <1>3, <1>7, <2>1, <2>2, <2>3 DEF Balance
  <2>5. LimiterTypeOK'
    BY <1>1, <1>3, <1>4, <2>1, <2>2 DEF LimiterTypeOK
  <2> QED
    BY <1>3, <1>5, <2>1, <2>4, <2>5 DEF LimiterInv, DelayIsExact
<1>9. CASE ~(Available >= Window)
  <2>1. tokens' = Available /\ delay' = Wait(Window - Available) /\ admitted' = admitted
    BY <1>9 DEF Consume
  <2>2. Window - Available \in Nat
    BY <1>1, <1>2, <1>9
  <2>3. /\ delay' \in Nat
        /\ Refill * delay' >= Window - Available
        /\ Refill * delay' < Window - Available + Refill
    BY <2>1, <2>2, CeilingAbove
  <2>4. Balance'
    BY <1>1, <1>2, <1>3, <1>7, <2>1 DEF Balance
  <2>5. LimiterTypeOK'
    BY <1>1, <1>2, <1>3, <1>4, <2>1, <2>3 DEF LimiterTypeOK
  <2>6. DelayIsExact'
    BY <1>1, <1>2, <2>1, <2>3 DEF DelayIsExact
  <2> QED
    BY <1>3, <1>5, <2>4, <2>5, <2>6 DEF LimiterInv
<1> QED
  BY <1>8, <1>9

LEMMA LimiterTickKeeps ==
  ASSUME LimiterInv, DelayIsExact, NEW n \in Steps, Advance(n)
  PROVE  LimiterInv' /\ DelayIsExact'
<1> USE LimiterAssumption DEF LimiterAssumption
<1>1. /\ n \in Nat /\ clock' = clock + n
      /\ UNCHANGED <<tokens, time, expires, delay, since, admitted>>
  BY DEF Advance
<1>2. /\ clock \in Nat /\ since \in Nat /\ time \in Nat /\ since <= clock
      /\ tokens \in 0 .. FullBucket /\ admitted \in Nat /\ FullBucket \in Nat /\ FullBucket' = FullBucket
  BY DEF LimiterInv, LimiterTypeOK, FullBucket
<1>3. Level' <= Level + n * Refill /\ Level' \in Nat /\ Level \in Nat
  <2>1. Elapsed \in Nat /\ Elapsed' \in Nat /\ Elapsed' <= Elapsed + n
    BY <1>1, <1>2 DEF Elapsed
  <2>2. Capped(tokens + Elapsed' * Refill) <= Capped(tokens + Elapsed * Refill) + n * Refill
    BY <1>1, <1>2, <2>1, Fill
  <2>3. Capped(tokens + Elapsed' * Refill) \in 0 .. FullBucket /\ Capped(tokens + Elapsed * Refill) \in 0 .. FullBucket
    BY <1>2, <2>1, FillRange
  <2>4. Level' = Capped(tokens + Elapsed' * Refill) /\ Level = Capped(tokens + Elapsed * Refill)
    BY <1>1 DEF Level
  <2> QED
    BY <1>2, <2>2, <2>3, <2>4
<1>4. Refill * (clock' - since') = Refill * (clock - since) + n * Refill
  BY <1>1, <1>2
<1>5. Balance'
  <2>1. Window * admitted + Level <= FullBucket + Refill * (clock - since)
    BY DEF LimiterInv, Balance
  <2>2. Window * admitted \in Nat /\ Refill * (clock - since) \in Nat /\ n * Refill \in Nat
    BY <1>1, <1>2
  <2>3. Window * admitted + Level' <= FullBucket + (Refill * (clock - since) + n * Refill)
    BY ONLY <1>2, <1>3, <2>1, <2>2
  <2> QED
    BY <1>1, <1>2, <1>4, <2>3 DEF Balance
<1>6. ExpiresFull' /\ DelayIsExact'
  BY <1>1 DEF LimiterInv, ExpiresFull, DelayIsExact, FullBucket
<1> QED
  BY <1>1, <1>2, <1>5, <1>6 DEF LimiterInv, LimiterTypeOK, FullBucket

LEMMA MarkKeeps ==
  ASSUME LimiterInv, DelayIsExact, NEW n \in Steps \cup {0}, Mark(n)
  PROVE  LimiterInv' /\ DelayIsExact'
<1> USE LimiterAssumption DEF LimiterAssumption
<1>1. /\ n \in Nat /\ n <= clock /\ clock' = clock - n /\ since' = clock - n /\ admitted' = 0
      /\ UNCHANGED <<tokens, time, expires, delay>>
  BY DEF Mark
<1>2. LimiterTypeOK'
  BY <1>1 DEF LimiterInv, LimiterTypeOK, FullBucket
<1>3. FullBucket \in Nat
  BY DEF FullBucket
<1>4. Elapsed' \in Nat
  <2>1. clock \in Nat /\ time \in Nat /\ time' = time
    BY <1>1 DEF LimiterInv, LimiterTypeOK
  <2> QED
    BY <1>1, <2>1 DEF Elapsed
<1>5. Level' \in 0 .. FullBucket
  <2>1. tokens' \in 0 .. FullBucket
    BY <1>1 DEF LimiterInv, LimiterTypeOK
  <2>2. Capped(tokens' + Elapsed' * Refill) \in 0 .. FullBucket
    BY <1>4, <2>1, FillRange
  <2> QED
    BY <2>2 DEF Level
<1>6. Refill * (clock' - since') = 0 /\ Window * admitted' = 0
  BY <1>1 DEF LimiterInv, LimiterTypeOK
<1>8. Balance'
  BY <1>3, <1>5, <1>6 DEF Balance
<1>9. ExpiresFull' /\ DelayIsExact'
  BY <1>1 DEF LimiterInv, ExpiresFull, DelayIsExact, FullBucket
<1> QED
  BY <1>1, <1>2, <1>8, <1>9 DEF LimiterInv, LimiterTypeOK

LEMMA LoseKeeps ==
  ASSUME LimiterInv, LoseKey
  PROVE  LimiterInv' /\ DelayIsExact'
<1> USE LimiterAssumption DEF LimiterAssumption
<1>1. /\ tokens' = FullBucket /\ time' = clock /\ expires' = clock /\ since' = clock
      /\ admitted' = 0 /\ delay' = 0 /\ clock' = clock /\ clock \in Nat
  BY DEF LoseKey, LimiterInv, LimiterTypeOK
<1>2. FullBucket \in Nat /\ FullBucket' = FullBucket /\ Elapsed' = 0
  BY <1>1 DEF FullBucket, Elapsed
<1>3. LimiterTypeOK'
  BY <1>1, <1>2 DEF LimiterTypeOK
<1>4. Level' = FullBucket /\ Window * admitted' = 0 /\ Refill * (clock' - since') = 0
  BY <1>1, <1>2 DEF Level, Capped
<1>5. Balance'
  BY <1>1, <1>2, <1>4 DEF Balance
<1> QED
  BY <1>1, <1>2, <1>3, <1>5 DEF LimiterInv, ExpiresFull, DelayIsExact

LEMMA LimiterNextKeeps == LimiterInv /\ DelayIsExact /\ [LimiterNext]_limiterVars => LimiterInv' /\ DelayIsExact'
<1> SUFFICES ASSUME LimiterInv, DelayIsExact, [LimiterNext]_limiterVars PROVE LimiterInv' /\ DelayIsExact'
  OBVIOUS
<1>1. CASE LimiterNext
  BY <1>1, ConsumeKeeps, LimiterTickKeeps, MarkKeeps, LoseKeeps DEF LimiterNext
<1>2. CASE UNCHANGED limiterVars
  BY <1>2 DEF limiterVars, LimiterInv, LimiterTypeOK, ExpiresFull, Balance, Level, Capped, Elapsed, FullBucket, DelayIsExact
<1> QED
  BY <1>1, <1>2

-----------------------------------------------------------------------------
LEMMA LimiterInvariance == LimiterSpec => [](LimiterInv /\ DelayIsExact)
BY LimiterStarts, LimiterNextKeeps, PTL DEF LimiterSpec

\* The stored tokens stay between an empty and a full bucket.
THEOREM LimiterTypeCorrect == LimiterSpec => []LimiterTypeOK
<1>1. LimiterInv => LimiterTypeOK
  BY DEF LimiterInv
<1> QED
  BY <1>1, LimiterInvariance, PTL

\* In any stretch of time the calls admitted are at most a full bucket and its refill.
THEOREM RateHolds == LimiterSpec => []AdmitsWithinRate
<1>1. LimiterInv => AdmitsWithinRate
  <2> SUFFICES ASSUME LimiterInv PROVE AdmitsWithinRate
    OBVIOUS
  <2>1. Level \in 0 .. FullBucket /\ FullBucket \in Nat
    BY AvailableIsLevel, LimiterAssumption DEF LimiterAssumption, FullBucket
  <2>2. Window * admitted \in Nat /\ Refill * (clock - since) \in Nat
    BY LimiterAssumption DEF LimiterAssumption, LimiterInv, LimiterTypeOK
  <2> QED
    BY <2>1, <2>2 DEF LimiterInv, Balance, AdmitsWithinRate
<1> QED
  BY <1>1, LimiterInvariance, PTL

\* The arithmetic of the header.
LEMMA HeaderRounds ==
  ASSUME NEW ms \in Nat, ms > 0
  PROVE  /\ RetryAfter(ms) \in Nat \ {0}
         /\ RetryAfter(ms) * PerSecond >= ms
         /\ (RetryAfter(ms) - 1) * PerSecond \in Nat
         /\ (RetryAfter(ms) - 1) * PerSecond <= ms - 1
<1> DEFINE n == ms + PerSecond - 1
           q == n \div PerSecond
<1>1. PerSecond \in Nat /\ PerSecond > 0 /\ n \in Nat /\ n >= PerSecond
  BY LimiterAssumption DEF LimiterAssumption
<1>2. PerSecond * q <= n /\ n < PerSecond * q + PerSecond /\ q \in Nat
  BY <1>1, SMTT(30)
<1>3. q # 0
  <2> SUFFICES ASSUME q = 0 PROVE FALSE
    OBVIOUS
  <2>1. PerSecond * q = 0
    BY <1>1
  <2> QED
    BY <1>1, <1>2, <2>1
<1>4. RetryAfter(ms) = q
  BY <1>2, <1>3 DEF RetryAfter
<1> HIDE DEF q
<1>5. q * PerSecond = PerSecond * q /\ (q - 1) * PerSecond = PerSecond * q - PerSecond /\ PerSecond * q \in Nat
  BY <1>1, <1>2
<1>6. q - 1 \in Nat
  BY <1>2, <1>3
<1>7. (q - 1) * PerSecond \in Nat
  BY <1>1, <1>6
<1> QED
  BY <1>1, <1>2, <1>3, <1>4, <1>5, <1>7

\* Whoever comes back after the seconds of the header is admitted, a second sooner refused.
THEOREM WaitsAreExact == LimiterSpec => []RetryAfterIsLeast
<1>1. LimiterInv /\ DelayIsExact => RetryAfterIsLeast
  <2> SUFFICES ASSUME LimiterInv, DelayIsExact, delay > 0 PROVE RetryAfterIsLeast
    BY DEF RetryAfterIsLeast
  <2> DEFINE after == RetryAfter(delay) * PerSecond
             before == (RetryAfter(delay) - 1) * PerSecond
  <2>1. /\ delay \in Nat /\ clock \in Nat /\ time \in Nat /\ tokens \in Nat /\ tokens <= FullBucket
        /\ Refill \in Nat /\ Window \in Nat
    BY LimiterAssumption DEF LimiterAssumption, LimiterInv, LimiterTypeOK, FullBucket
  <2>2. FullBucket \in Nat /\ Window <= FullBucket
    <3>1. Capacity \in Nat /\ 1 <= Capacity
      BY LimiterAssumption DEF LimiterAssumption
    <3>2. 1 * Window <= Capacity * Window /\ 1 * Window = Window /\ Capacity * Window \in Nat
      BY <2>1, <3>1, Products
    <3> QED
      BY <3>2 DEF FullBucket
  <2>3. after >= delay /\ before \in Nat /\ before <= delay - 1 /\ after \in Int
    BY <2>1, HeaderRounds, LimiterAssumption DEF LimiterAssumption
  <2>4. tokens + delay * Refill >= Window /\ tokens + (delay - 1) * Refill < Window
    BY DEF DelayIsExact
  <2>5. Available = Level /\ Level = Capped(tokens + Elapsed * Refill)
    BY AvailableIsLevel DEF Level
  <2> HIDE DEF after, before
  <2>6. ASSUME clock >= time + after PROVE Available >= Window
    <3>1. Elapsed \in Nat /\ delay <= Elapsed
      BY <2>1, <2>3, <2>6 DEF Elapsed
    <3>2. delay * Refill <= Elapsed * Refill
      BY <2>1, <3>1, Products
    <3>3. delay * Refill \in Nat /\ Elapsed * Refill \in Nat
      BY <2>1, <3>1
    <3>4. tokens + Elapsed * Refill >= Window
      BY <2>1, <2>4, <3>2, <3>3
    <3> QED
      BY <2>1, <2>2, <2>5, <3>3, <3>4 DEF Capped
  <2>7. ASSUME clock \in time .. time + before PROVE Available < Window
    <3>1. Elapsed \in Nat /\ Elapsed <= delay - 1 /\ delay - 1 \in Int
      BY <2>1, <2>3, <2>7 DEF Elapsed
    <3>2. Elapsed * Refill <= (delay - 1) * Refill
      BY <2>1, <3>1, Products
    <3>3. (delay - 1) * Refill \in Int /\ Elapsed * Refill \in Nat
      BY <2>1, <3>1
    <3>4. tokens + Elapsed * Refill < Window
      BY <2>1, <2>4, <3>2, <3>3
    <3> QED
      BY <2>1, <2>2, <2>5, <3>3, <3>4 DEF Capped
  <2> QED
    BY <2>6, <2>7 DEF RetryAfterIsLeast, after, before
<1> QED
  BY <1>1, LimiterInvariance, PTL
=============================================================================
