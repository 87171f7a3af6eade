------------------------------ MODULE Sessions ------------------------------
(***************************************************************************)
(* Sessions: the rows AuthService keeps, the requests it authenticates, and*)
(* the tokens one browser tab holds.  A request carries the tokens the tab *)
(* had when it was sent; its answer is applied to those the tab has when   *)
(* it arrives.                                                             *)
(*                                                                         *)
(* Time is in ticks, Second of them to the second: rows hold ticks, tokens *)
(* whole seconds.  Signatures, issuer and types are taken to be right, and *)
(* every session has its own user.                                         *)
(***************************************************************************)
EXTENDS Naturals

CONSTANTS
    Sessions,      \* session ids
    Requests,      \* requests in flight
    Second,        \* ticks in a second
    AccessLife,    \* 15 minutes in the code
    RefreshLife,   \* 7 days in the code
    RequestLife,   \* how long the tab waits for an answer: 15 seconds in the code
    MaxInstant,    \* bound on the clock
    Nothing        \* no token, no session

ASSUME SessionsAssumption ==
    /\ Second \in Nat \ {0}
    /\ AccessLife \in Nat /\ RefreshLife \in Nat
    /\ RequestLife \in Nat \ {0} /\ MaxInstant \in Nat \ {0}
    /\ AccessLife >= 2 * Second /\ AccessLife >= 2 * RequestLife + Second
    /\ RefreshLife >= AccessLife

VARIABLES
    instant,   \* the clock
    row,       \* session rows: current access token, expiries, revoked
    request,   \* requests in flight
    tab,       \* the tab's tokens, or Nothing
    left       \* when the tab last lost its tokens

sessionVars == <<instant, row, request, tab, left>>

AccessTimes == 0 .. MaxInstant + AccessLife
RefreshTimes == 0 .. MaxInstant + RefreshLife

\* An access token: its session and the time its exp claim was made from.
Token == [session : Sessions, until : AccessTimes]
Exp(time) == time \div Second

\* What the tab keeps in its session storage.
Tokens == [access : Token, refresh : Sessions]

ASSUME NoneAssumption == Nothing \notin Sessions /\ Nothing \notin Token /\ Nothing \notin Tokens

NoRow == [until |-> 0, refreshUntil |-> 0, revoked |-> FALSE]
Idle == [at |-> "idle", kind |-> "call", access |-> Nothing, refresh |-> Nothing,
         header |-> Nothing, sent |-> 0]

SessionTypeOK ==
    /\ instant \in 0 .. MaxInstant
    /\ row \in [Sessions -> [until : AccessTimes, refreshUntil : RefreshTimes,
                            revoked : BOOLEAN]]
    /\ request \in [Requests ->
           [at : {"idle", "sent", "expired", "locked", "passed", "done", "failed", "refused"},
            kind : {"call", "signout"}, access : Token \cup {Nothing},
            refresh : Sessions \cup {Nothing}, header : Token \cup {Nothing}, sent : 0 .. MaxInstant]]
    /\ tab \in Tokens \cup {Nothing}
    /\ left \in 0 .. MaxInstant

SessionInit ==
    /\ instant = 1
    /\ row = [s \in Sessions |-> NoRow]
    /\ request = [r \in Requests |-> Idle]
    /\ tab = Nothing
    /\ left = 0

-----------------------------------------------------------------------------
(* Deliberately wrong variants, one step away from the code: a run in which  *)
(* one of them takes the place of its original must fail.                    *)

NoSlack(until) == until <= instant                           \* for Spent
AnyToken(token) == TRUE                                      \* for Supersedes
Patient(r) == TRUE                                           \* for Awaited
NoRowLock(s) == FALSE                                        \* for RowLocked

-----------------------------------------------------------------------------
Smaller(a, b) == IF a < b THEN a ELSE b

\* valid(): the row is there, not revoked, and the refresh token has not expired.
StillValid(s) == ~row[s].revoked /\ row[s].refreshUntil > instant

\* jwt.verify of the refresh token, in whole seconds.
RefreshVerified(s) == Exp(row[s].refreshUntil) > Exp(instant)

RowLocked(s) ==
    \E r \in Requests : request[r].at = "locked" /\ request[r].access.session = s

-----------------------------------------------------------------------------
(* The tab. *)

Lose == tab' = Nothing /\ left' = instant

\* An email is typed, so at least a tick has passed; the answer is awaited.
Signin(s) ==
    LET until == instant + AccessLife IN
    /\ tab = Nothing /\ instant > left
    /\ row[s] = NoRow
    /\ row' = [row EXCEPT ![s] = [until |-> until, refreshUntil |-> instant + RefreshLife,
                                  revoked |-> FALSE]]
    /\ tab' = [access |-> [session |-> s, until |-> until], refresh |-> s]
    /\ UNCHANGED <<instant, request, left>>

Send(r, kind) ==
    /\ tab # Nothing
    /\ request[r].at = "idle"
    /\ request' = [request EXCEPT ![r] =
           [at |-> "sent", kind |-> kind, access |-> tab.access, refresh |-> tab.refresh,
            header |-> Nothing, sent |-> instant]]
    /\ UNCHANGED <<instant, row, tab, left>>

\* renew(): the token of an answer replaces the tab's unless it expires sooner.
Supersedes(token) == token.until >= tab.access.until

Renewed(token) ==
    IF tab # Nothing /\ token # Nothing /\ Supersedes(token)
    THEN [tab EXCEPT !.access = token] ELSE tab

\* The tab still waits for the answer.
Awaited(r) == instant <= request[r].sent + RequestLife

\* request(): renew, then a 401 ends the session of the tab; so does a sign-out.
Arrive(r) ==
    /\ request[r].at \in {"done", "failed", "refused"} /\ Awaited(r)
    /\ IF request[r].at = "refused" \/ <<request[r].at, request[r].kind>> = <<"done", "signout">>
       THEN Lose
       ELSE tab' = Renewed(request[r].header) /\ UNCHANGED left
    /\ request' = [request EXCEPT ![r] = Idle]
    /\ UNCHANGED <<instant, row>>

\* The answer is lost, or nobody waits for it any more.
Miss(r) ==
    /\ request[r].at \in {"done", "failed", "refused"}
    /\ request' = [request EXCEPT ![r] = Idle]
    /\ UNCHANGED <<instant, row, tab, left>>

-----------------------------------------------------------------------------
(* AuthService.authenticate, one action per wait. *)

Proceed(r, at) == request' = [request EXCEPT ![r].at = at]

\* Both tokens are verified, and the row is read with no lock.
Check(r) ==
    LET access == request[r].access
        refresh == request[r].refresh
    IN
    /\ request[r].at = "sent"
    /\ Proceed(r, IF ~RefreshVerified(refresh) \/ access.session # refresh
                  \/ ~StillValid(access.session) THEN "refused"
               ELSE IF Exp(access.until) * Second <= instant THEN "expired"
               ELSE "passed")
    /\ UNCHANGED <<instant, row, tab, left>>

\* The stored access token ends within a second.
Spent(until) == until <= instant + Second

NextExpiry(s) == Smaller(instant + AccessLife, row[s].refreshUntil)

\* The row is read again FOR UPDATE; a spent access token is replaced by a new one,
\* otherwise the stored one is handed out.
Renew(r) ==
    LET s == request[r].access.session
        until == IF Spent(row[s].until) THEN NextExpiry(s) ELSE row[s].until
    IN
    /\ request[r].at = "expired"
    /\ ~RowLocked(s)
    /\ request' = IF StillValid(s)
                  THEN [request EXCEPT ![r].at = "locked",
                                       ![r].header = [session |-> s, until |-> until]]
                  ELSE [request EXCEPT ![r].at = "refused"]
    /\ UNCHANGED <<instant, row, tab, left>>

CommitRenewal(r) ==
    LET token == request[r].header IN
    /\ request[r].at = "locked"
    /\ row' = [row EXCEPT ![token.session].until = token.until]
    /\ Proceed(r, "passed")
    /\ UNCHANGED <<instant, tab, left>>

\* The handler runs; sign-out is an UPDATE of the row.
Handle(r) ==
    LET s == request[r].access.session IN
    /\ request[r].at = "passed"
    /\ IF request[r].kind = "signout"
       THEN /\ ~RowLocked(s)
            /\ row' = [row EXCEPT ![s].revoked = TRUE]
       ELSE UNCHANGED row
    /\ Proceed(r, "done")
    /\ UNCHANGED <<instant, tab, left>>

\* The database fails the request: a transaction rolls back, the answer is a 500.
Fail(r) ==
    /\ request[r].at \in {"sent", "expired", "locked", "passed"}
    /\ request' = [request EXCEPT
           ![r].at = "failed",
           ![r].header = IF request[r].at = "passed" THEN @ ELSE Nothing]
    /\ UNCHANGED <<instant, row, tab, left>>

Tick ==
    /\ instant < MaxInstant
    /\ instant' = instant + 1
    /\ UNCHANGED <<row, request, tab, left>>

SessionNext ==
    \/ \E s \in Sessions : Signin(s)
    \/ \E r \in Requests :
         \/ \E kind \in {"call", "signout"} : Send(r, kind)
         \/ Check(r) \/ Renew(r) \/ CommitRenewal(r) \/ Handle(r)
         \/ Fail(r) \/ Arrive(r) \/ Miss(r)
    \/ Tick

SessionSpec == SessionInit /\ [][SessionNext]_sessionVars

-----------------------------------------------------------------------------
(* Properties. *)

\* The tab never mixes tokens of two sessions, whatever answers of an earlier
\* session come in after a new sign-in.
TokensMatch == tab # Nothing => tab.access.session = tab.refresh

\* A request of a live session is never refused for the state of its tokens: 401
\* means that its session has ended, or ends within this second.
LiveIsNotRefused ==
    [][\A r \in Requests :
         request[r].at # "refused" /\ request'[r].at = "refused" =>
             LET s == request[r].refresh IN
             row[s].revoked \/ Exp(row[s].refreshUntil) <= Exp(instant)]_sessionVars

\* A signed-out session stays signed out: no renewal under way revives it, gives
\* it another access token, or lets through a request sent after the sign-out.
SignedOutStaysOut ==
    [][\A s \in Sessions : row[s].revoked =>
         /\ row'[s] = row[s]
         /\ \A r \in Requests :
              request[r].access # Nothing /\ request[r].access.session = s
              /\ request[r].at \in {"sent", "expired"}
                  => request'[r].at \in {"sent", "expired", "refused", "failed"}]_sessionVars

\* Concurrent renewals agree: while the stored access token lasts, nobody replaces
\* it, and a token handed out lasts as well, but for the end of the session.
RenewalsConverge ==
    [][/\ \A s \in Sessions : row[s] # NoRow /\ row'[s].until # row[s].until
              => row[s].until <= instant + Second
       /\ \A r \in Requests : request[r].at = "expired" /\ request'[r].at = "locked" =>
              LET token == request'[r].header IN
              \/ Exp(token.until) * Second > instant
              \/ token.until = row[token.session].refreshUntil]_sessionVars

\* No access token outlives its session.
AccessEndsWithSession == \A s \in Sessions : row[s].until <= row[s].refreshUntil
=============================================================================
