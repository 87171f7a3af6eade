------------------------------ MODULE LiveView ------------------------------
(***************************************************************************)
(* What one signed-in tab shows of a server that changes: the dashboard    *)
(* snapshots of its stream (lib/dashboard.ts), the profile with the status *)
(* catalogue, and a list page with its notice (refresh-notice.tsx).  The   *)
(* query cache is that of TanStack Query 5 as the code uses it: asking for *)
(* a value that is cached replaces a request under way, and whoever waited *)
(* for that waits for the new one; asking for one that is not cached joins *)
(* the request under way.                                                  *)
(*                                                                         *)
(* The server is its revision, which every change raises, and the version  *)
(* of its catalogue; a cached value is the one its answer was read at.     *)
(***************************************************************************)
EXTENDS Integers

CONSTANTS MaxRevision     \* bound on the changes of the server

ASSUME LiveViewAssumption == MaxRevision \in Nat

NotYet == -1
Revisions == 0 .. MaxRevision
Maybe == Revisions \cup {NotYet}
NoSnapshot == [revision |-> NotYet, catalog |-> NotYet]
NoFetch == [at |-> "idle", value |-> NotYet]

VARIABLES
    server,     \* revision and catalogue version
    stream,     \* the connection, the snapshot on its way and the last one sent
    dash,       \* cache: the snapshot shown
    me,         \* cache: the catalogue version of the profile
    meFetch,    \* a request for the profile
    list,       \* cache: the revision of the list, whether its last fetch failed, and
                \* whether its first page was evicted
    listFetch,  \* a request for it; shown: the revision captured by the refresh button
                \* that waits for it; joined: that one was pressed after it was sent
    notice      \* the list page: whether it is open, its revision, what set that

viewVars == <<server, stream, dash, me, meFetch, list, listFetch, notice>>

Snapshots == [revision : Maybe, catalog : Maybe]

ViewTypeOK ==
    /\ server \in [revision : Revisions, catalog : Revisions]
    /\ stream \in [open : BOOLEAN, wire : Snapshots, sent : Maybe]
    /\ dash \in Snapshots
    /\ me \in Maybe
    /\ meFetch \in [at : {"idle", "asked"}, value : {NotYet}] \cup [at : {"read"}, value : Revisions]
    /\ list \in [revision : Maybe, error : BOOLEAN, cut : BOOLEAN]
    /\ listFetch \in [at : {"idle", "asked"}, value : {NotYet}, shown : Maybe, joined : BOOLEAN]
                    \cup [at : {"read"}, value : Revisions, shown : Maybe, joined : BOOLEAN]
    /\ notice \in [open : BOOLEAN, revision : Maybe, by : {"nothing", "mount", "joined", "refresh"}]

NoList == [revision |-> NotYet, error |-> FALSE, cut |-> FALSE]
NoListFetch == [at |-> "idle", value |-> NotYet, shown |-> NotYet, joined |-> FALSE]
Closed == [open |-> FALSE, revision |-> NotYet, by |-> "nothing"]

\* The page is loaded with a session: Shell asks for the profile and opens the stream.
ViewInit ==
    /\ server = [revision |-> 0, catalog |-> 0]
    /\ stream = [open |-> FALSE, wire |-> NoSnapshot, sent |-> NotYet]
    /\ dash = NoSnapshot
    /\ me = NotYet /\ meFetch = [NoFetch EXCEPT !.at = "asked"]
    /\ list = NoList /\ listFetch = NoListFetch
    /\ notice = Closed

-----------------------------------------------------------------------------
(* Deliberately wrong variants, one step away from the code: a run in which  *)
(* one of them takes the place of its original must fail.                    *)

ByLastSnapshot(snapshot) == dash.catalog # NotYet /\ dash.catalog # snapshot.catalog \* for Outdated
LatestNow(fetch) == dash.revision                        \* for Captured

-----------------------------------------------------------------------------
(* The server and the stream. *)

\* A lead or an activity, or a change of the catalogue.
ServerChanges(ofCatalog) ==
    /\ server.revision < MaxRevision
    /\ server' = [revision |-> server.revision + 1,
                  catalog |-> server.catalog + (IF ofCatalog THEN 1 ELSE 0)]
    /\ UNCHANGED <<stream, dash, me, meFetch, list, listFetch, notice>>

\* connect, onopen.
Connect ==
    /\ ~stream.open
    /\ stream' = [open |-> TRUE, wire |-> NoSnapshot, sent |-> NotYet]
    /\ UNCHANGED <<server, dash, me, meFetch, list, listFetch, notice>>

Push ==
    /\ stream.open /\ stream.wire = NoSnapshot /\ stream.sent # server.revision
    /\ stream' = [stream EXCEPT !.wire = server, !.sent = server.revision]
    /\ UNCHANGED <<server, dash, me, meFetch, list, listFetch, notice>>

\* The stream ends (lease, network, a refused write) and is opened again by a timer.
Cut ==
    /\ stream.open
    /\ stream' = [open |-> FALSE, wire |-> NoSnapshot, sent |-> NotYet]
    /\ UNCHANGED <<server, dash, me, meFetch, list, listFetch, notice>>

\* A profile whose catalogue is not that of the snapshot is asked for again; one that
\* is not there yet is not compared.
Outdated(snapshot) == me # NotYet /\ me # snapshot.catalog

\* invalidateQueries: a request under way is given up for a new one.
Asked(fetch) == [at |-> "asked", value |-> NotYet]

\* The effect by which an open page without a revision takes that of a snapshot.
Adopted(snapshot) ==
    IF notice.open /\ notice.revision = NotYet
    THEN [notice EXCEPT !.revision = snapshot.revision] ELSE notice

\* onmessage
Deliver ==
    /\ stream.wire # NoSnapshot
    /\ dash' = stream.wire
    /\ stream' = [stream EXCEPT !.wire = NoSnapshot]
    /\ meFetch' = IF Outdated(stream.wire) THEN Asked(meFetch) ELSE meFetch
    /\ notice' = Adopted(stream.wire)
    /\ UNCHANGED <<server, me, list, listFetch>>

-----------------------------------------------------------------------------
(* The profile. *)

\* A page that is mounted, a saved setting, or the retry button asks for it.
AskMe ==
    /\ meFetch.at = "idle"
    /\ meFetch' = Asked(NoFetch)
    /\ UNCHANGED <<server, stream, dash, me, list, listFetch, notice>>

ReadMe ==
    /\ meFetch.at = "asked"
    /\ meFetch' = [at |-> "read", value |-> server.catalog]
    /\ UNCHANGED <<server, stream, dash, me, list, listFetch, notice>>

\* The list once it is asked for: with one that is not cached the error goes, with a
\* cached one it stays until an answer comes.
Awaited == [list EXCEPT !.error = @ /\ list.revision # NotYet]

AskList ==
    /\ listFetch' = [NoListFetch EXCEPT !.at = "asked"]
    /\ list' = Awaited

\* With the first profile Shell prefetches the list.
MeArrives ==
    /\ meFetch.at = "read"
    /\ me' = meFetch.value /\ meFetch' = NoFetch
    /\ IF me = NotYet /\ list.revision = NotYet /\ listFetch = NoListFetch
       THEN AskList ELSE UNCHANGED <<list, listFetch>>
    /\ UNCHANGED <<server, stream, dash, notice>>

\* After its retries; the profile stays as it is.
MeFails ==
    /\ meFetch.at # "idle"
    /\ meFetch' = NoFetch
    /\ UNCHANGED <<server, stream, dash, me, list, listFetch, notice>>

-----------------------------------------------------------------------------
(* The list page. *)

\* The page asks for a list that is not cached, unless a request is under way. A cached
\* one it shows as it is (staleTime Infinity), but asks again for one that a mutation has
\* invalidated or whose last fetch failed; any may be one.
OpenPage ==
    /\ ~notice.open /\ me # NotYet
    /\ notice' = [open |-> TRUE, revision |-> dash.revision, by |-> "mount"]
    /\ \/ listFetch = NoListFetch /\ AskList
       \/ /\ list.revision # NotYet \/ listFetch # NoListFetch
          /\ UNCHANGED <<list, listFetch>>
    /\ UNCHANGED <<server, stream, dash, me, meFetch>>

\* A request that nobody waits for any more is aborted.
ClosePage ==
    /\ notice.open
    /\ notice' = Closed
    /\ listFetch' = NoListFetch
    /\ UNCHANGED <<server, stream, dash, me, meFetch, list>>

\* gcTime: five minutes after nothing showed it.
ForgetList ==
    /\ ~notice.open /\ list # NoList /\ listFetch = NoListFetch
    /\ list' = NoList
    /\ UNCHANGED <<server, stream, dash, me, meFetch, listFetch, notice>>

\* The user scrolls: a further page evicts the first one (maxPages), or fails to come.
ReadOn ==
    /\ notice.open /\ list.revision # NotYet /\ ~list.error /\ listFetch = NoListFetch
    /\ \/ ~list.cut /\ list' = [list EXCEPT !.cut = TRUE]
       \/ list' = [list EXCEPT !.error = TRUE]
    /\ UNCHANGED <<server, stream, dash, me, meFetch, listFetch, notice>>

ReadList ==
    /\ listFetch.at = "asked"
    /\ listFetch' = [listFetch EXCEPT !.at = "read", !.value = server.revision]
    /\ UNCHANGED <<server, stream, dash, me, meFetch, list, notice>>

\* What the refresh button was rendered with when it was pressed.
Captured(fetch) == fetch.shown

Refreshed ==
    IF notice.open /\ listFetch.shown # NotYet
    THEN [open |-> TRUE, revision |-> Captured(listFetch),
          by |-> IF listFetch.joined THEN "joined" ELSE "refresh"]
    ELSE notice

\* A list without its first page is fetched again with the cut-off it began with.
ListArrives ==
    /\ listFetch.at = "read"
    /\ list' = [list EXCEPT !.revision = IF list.cut THEN @ ELSE listFetch.value, !.error = FALSE]
    /\ notice' = Refreshed
    /\ listFetch' = NoListFetch
    /\ UNCHANGED <<server, stream, dash, me, meFetch>>

\* refetch() does not throw, so the notice goes; the page shows the error instead.
ListFails ==
    /\ listFetch.at # "idle"
    /\ list' = [list EXCEPT !.error = TRUE]
    /\ notice' = Refreshed
    /\ listFetch' = NoListFetch
    /\ UNCHANGED <<server, stream, dash, me, meFetch>>

Announced == notice.open /\ dash # NoSnapshot /\ dash.revision # notice.revision

Pressed == listFetch.at # "idle" /\ listFetch.shown # NotYet

\* The button "Refresh view", when there is a list or no request for one is under way.
Refresh ==
    /\ Announced /\ ~Pressed
    /\ list.revision # NotYet \/ listFetch = NoListFetch
    /\ listFetch' = [at |-> "asked", value |-> NotYet, shown |-> dash.revision, joined |-> FALSE]
    /\ list' = Awaited
    /\ UNCHANGED <<server, stream, dash, me, meFetch, notice>>

\* The same button while the list is loaded for the first time.
Join ==
    /\ Announced /\ ~Pressed
    /\ list.revision = NotYet /\ listFetch # NoListFetch
    /\ listFetch' = [listFetch EXCEPT !.shown = dash.revision, !.joined = TRUE]
    /\ UNCHANGED <<server, stream, dash, me, meFetch, list, notice>>

\* The retry button of the error, or a mutation that invalidates the list: a refresh
\* under way waits for the new request.
RetryList ==
    /\ notice.open
    /\ list.revision # NotYet \/ list.error
    /\ listFetch' = [listFetch EXCEPT !.at = "asked", !.value = NotYet]
    /\ list' = Awaited
    /\ UNCHANGED <<server, stream, dash, me, meFetch, notice>>

-----------------------------------------------------------------------------
ViewNext ==
    \/ \E ofCatalog \in BOOLEAN : ServerChanges(ofCatalog)
    \/ Connect \/ Push \/ Cut \/ Deliver
    \/ AskMe \/ ReadMe \/ MeArrives \/ MeFails
    \/ OpenPage \/ ClosePage \/ ForgetList \/ ReadOn \/ Refresh \/ Join \/ RetryList
    \/ ReadList \/ ListArrives \/ ListFails

ViewSpec == ViewInit /\ [][ViewNext]_viewVars

\* The stream is opened again and again (its lease ends after five minutes), snapshots
\* get through now and then, and a request asked for over and over is answered in the end.
ViewFairness ==
    /\ WF_viewVars(Connect) /\ WF_viewVars(Cut) /\ SF_viewVars(Push) /\ SF_viewVars(Deliver)
    /\ SF_viewVars(ReadMe) /\ SF_viewVars(MeArrives)

ViewFairSpec == ViewSpec /\ ViewFairness

-----------------------------------------------------------------------------
(* Properties. *)

\* "New activity is available": while the page is open its notice goes only when a list
\* has come that was read no earlier than the revision announced, or when fetching one
\* has failed and the page says so. Not claimed of a list without its first page.
NoticeGoesWithTheList ==
    [][(Announced /\ notice'.open /\ ~Announced')
        => (list'.error \/ list'.cut \/ list'.revision >= dash.revision)]_viewVars

\* Once refreshed by a request of its own, a list is as new as the revision that its
\* notice takes for shown, whatever came, failed or was asked for again meanwhile. A
\* refresh that joined the first load is the subject of NoticeGoesWithTheList, a list
\* without its first page that of RefreshShowsNew (Pagination).
RefreshedIsCurrent ==
    (notice.by = "refresh" /\ listFetch = NoListFetch /\ ~list.error /\ ~list.cut)
        => list.revision >= notice.revision

\* A profile that was loaded before the catalogue changed is loaded again, although a
\* snapshot may come before there is a profile to compare it with, or its request fail.
ProfileCatchesUp ==
    \A c \in Revisions :
        (me # NotYet /\ server.catalog = c) ~> (server.catalog # c \/ me = c)
=============================================================================
