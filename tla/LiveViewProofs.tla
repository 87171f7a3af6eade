--------------------------- MODULE LiveViewProofs ---------------------------
(***************************************************************************)
(* Safety of LiveView for every bound on the changes of the server.        *)
(*                                                                         *)
(* Everything the tab holds was read at a revision the server has reached, *)
(* and a revision reaches the notice only after the snapshot that brought  *)
(* it: revision shown <= snapshot <= server, and a list asked for after    *)
(* the button was pressed is read no earlier than what the button showed.  *)
(* Who joins a request under way is promised nothing.                      *)
(***************************************************************************)
EXTENDS LiveView, TLAPS

ServerInv == server.catalog <= server.revision

\* Snapshots follow the server in its order.
DashInv ==
    /\ dash.revision <= server.revision /\ dash.catalog <= server.catalog
    /\ dash.revision = NotYet <=> dash = NoSnapshot
    /\ stream.wire # NoSnapshot =>
           /\ dash.revision <= stream.wire.revision /\ stream.wire.revision <= server.revision
           /\ stream.wire.catalog <= server.catalog
           /\ stream.wire.revision # NotYet

\* What the page takes for shown is no newer than the snapshot.
NoticeInv ==
    /\ notice.revision <= dash.revision
    /\ notice.by \in {"joined", "refresh"} => notice.revision # NotYet
    /\ notice.open /\ notice.revision = NotYet => dash = NoSnapshot
    /\ ~notice.open => notice = Closed
    /\ listFetch.shown <= dash.revision

\* What a list is no older than.
ListInv ==
    /\ listFetch.at = "idle" => listFetch = NoListFetch
    /\ list.cut => list.revision # NotYet
    /\ listFetch.at = "read" =>
           /\ listFetch.joined \/ listFetch.shown <= listFetch.value
           /\ notice.by = "refresh" => notice.revision <= listFetch.value
    /\ notice.by = "refresh" =>
           /\ list.revision = NotYet => list.error \/ listFetch # NoListFetch
           /\ list.revision # NotYet => list.error \/ list.cut \/ notice.revision <= list.revision

IInv == ViewTypeOK /\ ServerInv /\ DashInv /\ NoticeInv /\ ListInv

Fetches == [at : {"idle", "asked"}, value : {NotYet}, shown : Maybe, joined : BOOLEAN]
           \cup [at : {"read"}, value : Revisions, shown : Maybe, joined : BOOLEAN]
Lists == [revision : Maybe, error : BOOLEAN, cut : BOOLEAN]
Notices == [open : BOOLEAN, revision : Maybe, by : {"nothing", "mount", "joined", "refresh"}]

USE LiveViewAssumption DEF LiveViewAssumption, NotYet, Revisions, Maybe

LEMMA Constants ==
  /\ NoSnapshot \in Snapshots /\ NoSnapshot.revision = NotYet /\ NoSnapshot.catalog = NotYet
  /\ NoListFetch \in Fetches /\ NoListFetch.at = "idle" /\ NoListFetch.shown = NotYet
  /\ NoList \in Lists /\ NoList.revision = NotYet /\ ~NoList.cut
  /\ NoFetch.at = "idle" /\ NoFetch.value = NotYet /\ NoFetch = [at |-> "idle", value |-> NotYet]
  /\ Closed = [open |-> FALSE, revision |-> NotYet, by |-> "nothing"]
BY DEF NoSnapshot, Snapshots, NoListFetch, Fetches, NoList, Lists, NoFetch, Closed

LEMMA InitIInv == ViewInit => IInv
<1> SUFFICES ASSUME ViewInit PROVE IInv
  OBVIOUS
<1>1. ViewTypeOK
  BY Constants DEF ViewInit, ViewTypeOK, Fetches, Lists
<1>2. ServerInv /\ DashInv /\ NoticeInv /\ ListInv
  BY Constants DEF ViewInit, ServerInv, DashInv, NoticeInv, ListInv
<1> QED
  BY <1>1, <1>2 DEF IInv

\* The parts of the state, each of its type.
LEMMA Parts ==
  ASSUME IInv
  PROVE  /\ server.revision \in Revisions /\ server.catalog \in Revisions
         /\ server = [revision |-> server.revision, catalog |-> server.catalog]
         /\ dash \in Snapshots /\ dash.revision \in Maybe /\ dash.catalog \in Maybe
         /\ stream.wire \in Snapshots /\ stream.wire.revision \in Maybe /\ stream.wire.catalog \in Maybe
         /\ listFetch \in Fetches /\ listFetch.shown \in Maybe /\ listFetch.value \in Maybe
         /\ notice.revision \in Maybe /\ notice.open \in BOOLEAN
         /\ list.revision \in Maybe /\ list.error \in BOOLEAN /\ list.cut \in BOOLEAN
BY DEF IInv, ViewTypeOK, Snapshots, Fetches

-----------------------------------------------------------------------------
LEMMA ChangeKeeps == ASSUME IInv, NEW ofCatalog \in BOOLEAN, ServerChanges(ofCatalog) PROVE IInv'
<1>1. /\ server'.revision = server.revision + 1 /\ server'.revision \in Revisions
      /\ server'.catalog >= server.catalog /\ server'.catalog <= server'.revision
      /\ server' \in [revision : Revisions, catalog : Revisions]
  BY Parts DEF ServerChanges, IInv, ServerInv
<1>2. UNCHANGED <<stream, dash, me, meFetch, list, listFetch, notice>>
  BY DEF ServerChanges
<1>3. ViewTypeOK' /\ ServerInv'
  BY <1>1, <1>2 DEF IInv, ViewTypeOK, ServerInv, Snapshots
<1>4. DashInv'
  BY <1>1, <1>2, Parts DEF IInv, DashInv
<1>5. NoticeInv' /\ ListInv'
  BY <1>2 DEF IInv, NoticeInv, ListInv
<1> QED
  BY <1>3, <1>4, <1>5 DEF IInv

\* Connect, Push, Cut, AskMe, ReadMe and MeFails touch neither the list nor the notice.
LEMMA StreamKeeps == ASSUME IInv, Connect \/ Push \/ Cut PROVE IInv'
<1>1. UNCHANGED <<server, dash, me, meFetch, list, listFetch, notice>>
  BY DEF Connect, Push, Cut
<1> DEFINE pushed == [stream EXCEPT !.wire = server, !.sent = server.revision]
<1>2. server \in Snapshots /\ server.revision \in Maybe
  BY Parts DEF IInv, ViewTypeOK, Snapshots
<1>3. /\ stream' \in [open : BOOLEAN, wire : Snapshots, sent : Maybe]
      /\ stream'.wire = NoSnapshot \/ stream'.wire = server
  <2>1. CASE Connect \/ Cut
    <3>1. PICK open \in BOOLEAN : stream' = [open |-> open, wire |-> NoSnapshot, sent |-> NotYet]
      BY <2>1, Zenon DEF Connect, Cut
    <3>2. NoSnapshot \in Snapshots /\ NotYet \in Maybe
      BY Constants
    <3> QED
      BY <3>1, <3>2
  <2>2. CASE Push
    <3>1. stream' = pushed
      BY <2>2 DEF Push
    <3>2. /\ pushed \in [open : BOOLEAN, wire : Snapshots, sent : Maybe]
          /\ pushed.wire = server
      BY <1>2 DEF IInv, ViewTypeOK
    <3> QED
      BY <3>1, <3>2
  <2> QED
    BY <2>1, <2>2
<1>4. DashInv'
  BY <1>1, <1>3, Parts DEF IInv, DashInv
<1> QED
  BY <1>1, <1>3, <1>4 DEF IInv, ViewTypeOK, ServerInv, NoticeInv, ListInv

LEMMA ProfileKeeps == ASSUME IInv, AskMe \/ ReadMe \/ MeFails PROVE IInv'
<1>1. UNCHANGED <<server, stream, dash, me, list, listFetch, notice>>
  BY DEF AskMe, ReadMe, MeFails
<1>2. meFetch' \in [at : {"idle", "asked"}, value : {NotYet}] \cup [at : {"read"}, value : Revisions]
  BY Constants, Parts DEF AskMe, ReadMe, MeFails, Asked
<1> QED
  BY <1>1, <1>2 DEF IInv, ViewTypeOK, ServerInv, DashInv, NoticeInv, ListInv, Snapshots

LEMMA DeliverKeeps == ASSUME IInv, Deliver PROVE IInv'
<1>1. /\ dash' = stream.wire /\ UNCHANGED <<server, me, list, listFetch>>
      /\ stream' = [stream EXCEPT !.wire = NoSnapshot] /\ stream.wire # NoSnapshot
      /\ meFetch' = IF Outdated(stream.wire) THEN Asked(meFetch) ELSE meFetch
      /\ notice' = Adopted(stream.wire)
  BY DEF Deliver
<1>2. /\ dash'.revision = stream.wire.revision /\ dash.revision <= dash'.revision
      /\ dash'.revision # NotYet /\ dash'.revision \in Maybe /\ dash' \in Snapshots
      /\ dash'.revision <= server.revision /\ dash'.catalog <= server.catalog
  BY <1>1, Parts DEF IInv, DashInv
<1>3. stream' \in [open : BOOLEAN, wire : Snapshots, sent : Maybe] /\ stream'.wire = NoSnapshot
  BY <1>1, Constants DEF IInv, ViewTypeOK
<1>4. meFetch' \in [at : {"idle", "asked"}, value : {NotYet}] \cup [at : {"read"}, value : Revisions]
  BY <1>1 DEF Asked, IInv, ViewTypeOK
<1>5. \/ /\ notice.open /\ notice.revision = NotYet
         /\ notice' = [notice EXCEPT !.revision = dash'.revision]
      \/ ~(notice.open /\ notice.revision = NotYet) /\ notice' = notice
  BY <1>1 DEF Adopted
<1>6. /\ notice' \in Notices
      /\ notice'.revision = notice.revision \/ notice'.revision = dash'.revision
      /\ notice'.open = notice.open /\ notice'.by = notice.by
      /\ notice'.revision # notice.revision => notice.open
      /\ notice'.open => notice'.revision # NotYet
  BY <1>2, <1>5 DEF IInv, ViewTypeOK, Notices
<1>7. notice'.revision # notice.revision => notice.by # "refresh"
  BY <1>5 DEF IInv, NoticeInv
<1>8. ViewTypeOK'
  BY <1>1, <1>2, <1>3, <1>4, <1>6 DEF IInv, ViewTypeOK, Notices
<1>9. DashInv'
  BY <1>1, <1>2, <1>3, Constants DEF IInv, DashInv
<1>10. NoticeInv'
  BY <1>1, <1>2, <1>5, <1>6, Parts DEF IInv, NoticeInv
<1>11. ListInv'
  BY <1>1, <1>6, <1>7 DEF IInv, ListInv
<1> QED
  BY <1>1, <1>8, <1>9, <1>10, <1>11 DEF IInv, ServerInv

\* A step of the list or its page: nothing else changes.
LEMMA ListStep ==
  ASSUME IInv, UNCHANGED <<server, stream, dash, me, meFetch>>,
         list' \in Lists, listFetch' \in Fetches,
         notice' \in Notices,
         NoticeInv', ListInv'
  PROVE  IInv'
BY DEF IInv, ViewTypeOK, ServerInv, DashInv, Fetches, Lists, Notices, Snapshots

\* What the fetch, the list and the notice are made of.
LEMMA ListTypes ==
  ASSUME IInv
  PROVE  /\ list \in Lists /\ listFetch \in Fetches
         /\ notice \in Notices
         /\ listFetch.at # "read" => listFetch.value = NotYet
         /\ listFetch.at = "read" => listFetch.value \in Revisions
BY DEF IInv, ViewTypeOK, Fetches, Lists, Notices

\* The list while an answer is awaited: its revision and its first page stay.
LEMMA AwaitedList ==
  ASSUME IInv
  PROVE  /\ Awaited \in Lists
         /\ Awaited.revision = list.revision /\ Awaited.cut = list.cut
         /\ list.revision # NotYet => Awaited.error = list.error
<1> DEFINE kept == list.error /\ list.revision # NotYet
<1>1. Awaited = [list EXCEPT !.error = kept]
  BY DEF Awaited
<1>2. kept \in BOOLEAN
  OBVIOUS
<1> HIDE DEF kept
<1>3. /\ Awaited \in Lists /\ Awaited.error = kept
      /\ Awaited.revision = list.revision /\ Awaited.cut = list.cut
  BY <1>1, <1>2, ListTypes DEF Lists
<1>4. list.revision # NotYet => kept = list.error
  BY Parts DEF kept
<1> QED
  BY <1>3, <1>4

\* A request that has not been answered satisfies ListInv, whoever waits for it.
LEMMA AwaitedKeeps ==
  ASSUME IInv, list' = Awaited, listFetch' \in Fetches, listFetch'.at = "asked",
         UNCHANGED notice
  PROVE  ListInv'
<1>1. listFetch' # NoListFetch
  BY Constants
<1>2. /\ list.cut => list.revision # NotYet
      /\ notice.by = "refresh" /\ list.revision # NotYet =>
          list.error \/ list.cut \/ notice.revision <= list.revision
  BY DEF IInv, ListInv
<1>3. /\ list'.revision = list.revision /\ list'.cut = list.cut
      /\ list.revision # NotYet => list'.error = list.error
  BY AwaitedList
<1> QED
  BY <1>1, <1>2, <1>3 DEF ListInv

LEMMA MeArrivesKeeps == ASSUME IInv, MeArrives PROVE IInv'
<1>1. UNCHANGED <<server, stream, dash, notice>>
  BY DEF MeArrives
<1>2. me' \in Maybe /\ meFetch' = NoFetch
  BY DEF MeArrives, IInv, ViewTypeOK
<1> DEFINE asked == [NoListFetch EXCEPT !.at = "asked"]
<1>3. asked \in Fetches /\ asked.at = "asked" /\ asked.shown = NotYet
  BY DEF NoListFetch, Fetches
<1>4. (listFetch' = asked /\ list' = Awaited) \/ UNCHANGED <<list, listFetch>>
  BY DEF MeArrives, AskList
<1> HIDE DEF asked
<1>5. listFetch' \in Fetches /\ list' \in Lists
  BY <1>3, <1>4, AwaitedList, ListTypes
<1>6. ViewTypeOK'
  BY <1>1, <1>2, <1>5, Constants DEF IInv, ViewTypeOK, Fetches, Lists, Snapshots
<1>7. NoticeInv'
  BY <1>1, <1>3, <1>4, Parts DEF IInv, NoticeInv
<1>8. ListInv'
  <2>1. CASE listFetch' = asked /\ list' = Awaited
    BY <2>1, <1>1, <1>3, AwaitedKeeps
  <2>2. CASE UNCHANGED <<list, listFetch>>
    BY <2>2, <1>1 DEF IInv, ListInv
  <2> QED
    BY <1>4, <2>1, <2>2
<1> QED
  BY <1>1, <1>6, <1>7, <1>8 DEF IInv, ServerInv, DashInv

LEMMA PageKeeps == ASSUME IInv, OpenPage \/ ClosePage \/ ForgetList \/ ReadOn PROVE IInv'
<1>1. UNCHANGED <<server, stream, dash, me, meFetch>>
  BY DEF OpenPage, ClosePage, ForgetList, ReadOn
<1>2. CASE OpenPage
  <2> DEFINE asked == [NoListFetch EXCEPT !.at = "asked"]
  <2>1. asked \in Fetches /\ asked.at = "asked" /\ asked.shown = NotYet
    BY DEF NoListFetch, Fetches
  <2>2. /\ notice' = [open |-> TRUE, revision |-> dash.revision, by |-> "mount"]
        /\ (listFetch' = asked /\ list' = Awaited) \/ UNCHANGED <<list, listFetch>>
    BY <1>2 DEF OpenPage, AskList
  <2> HIDE DEF asked
  <2>3. notice' \in Notices /\ notice'.by = "mount" /\ notice'.revision = dash.revision /\ notice'.open
    BY <2>2, Parts DEF Notices
  <2>4. list' \in Lists /\ listFetch' \in Fetches /\ listFetch'.shown <= dash.revision
    BY <2>1, <2>2, AwaitedList, ListTypes, Parts DEF IInv, NoticeInv
  <2>5. NoticeInv'
    BY <1>1, <2>3, <2>4, Parts DEF IInv, DashInv, NoticeInv
  <2>6. list'.cut = list.cut /\ list'.revision = list.revision
    BY <2>2, AwaitedList
  <2>7. ListInv'
    BY <2>1, <2>2, <2>3, <2>6, Constants DEF IInv, ListInv
  <2> QED
    BY <1>1, <2>3, <2>4, <2>5, <2>7, ListStep
<1>3. CASE ClosePage
  <2>1. notice' = Closed /\ listFetch' = NoListFetch /\ list' = list
    BY <1>3 DEF ClosePage
  <2>2. NoticeInv' /\ ListInv'
    BY <1>1, <2>1, Parts, Constants DEF IInv, NoticeInv, ListInv
  <2>3. Closed \in Notices
    BY DEF Closed, Notices
  <2> QED
    BY <1>1, <2>1, <2>2, <2>3, Constants, ListTypes, ListStep
<1>4. CASE ForgetList
  <2>1. notice' = notice /\ notice = Closed /\ listFetch' = listFetch /\ list' = NoList
    BY <1>4 DEF ForgetList, IInv, NoticeInv
  <2>2. NoticeInv'
    BY <1>1, <2>1 DEF IInv, NoticeInv
  <2>3. ListInv'
    BY <1>4, <2>1, Constants DEF IInv, ListInv, ForgetList
  <2> QED
    BY <1>1, <2>1, <2>2, <2>3, Constants, ListTypes, ListStep
<1>5. CASE ReadOn
  <2>1. /\ UNCHANGED <<listFetch, notice>> /\ list.revision # NotYet
        /\ list' = [list EXCEPT !.cut = TRUE] \/ list' = [list EXCEPT !.error = TRUE]
    BY <1>5 DEF ReadOn
  <2>2. list' \in Lists /\ list'.revision = list.revision /\ (list'.cut \/ list'.error)
    BY <2>1, ListTypes DEF Lists
  <2>3. NoticeInv' /\ ListInv'
    BY <1>1, <2>1, <2>2 DEF IInv, NoticeInv, ListInv
  <2> QED
    BY <1>1, <2>1, <2>2, <2>3, ListTypes, ListStep
<1> QED
  BY <1>2, <1>3, <1>4, <1>5

LEMMA AskKeeps == ASSUME IInv, Refresh \/ RetryList \/ Join \/ ReadList PROVE IInv'
<1>1. UNCHANGED <<server, stream, dash, me, meFetch, notice>>
  BY DEF Refresh, RetryList, Join, ReadList
<1>2. CASE Refresh
  <2>1. /\ listFetch' = [at |-> "asked", value |-> NotYet, shown |-> dash.revision, joined |-> FALSE]
        /\ list' = Awaited
    BY <1>2 DEF Refresh
  <2>2. listFetch' \in Fetches /\ listFetch'.at = "asked" /\ listFetch'.shown = dash.revision
    BY <2>1, Parts DEF Fetches
  <2>3. NoticeInv'
    BY <1>1, <2>2, Parts DEF IInv, NoticeInv
  <2>4. ListInv'
    BY <1>1, <2>1, <2>2, AwaitedKeeps
  <2> QED
    BY <1>1, <2>1, <2>2, <2>3, <2>4, AwaitedList, ListTypes, ListStep
<1>3. CASE RetryList
  <2> DEFINE again == [listFetch EXCEPT !.at = "asked", !.value = NotYet]
  <2>1. listFetch' = again /\ list' = Awaited
    BY <1>3 DEF RetryList
  <2>2. again \in Fetches /\ again.at = "asked" /\ again.shown = listFetch.shown
    BY ListTypes DEF Fetches
  <2> HIDE DEF again
  <2>3. NoticeInv'
    BY <1>1, <2>1, <2>2 DEF IInv, NoticeInv
  <2>4. ListInv'
    BY <1>1, <2>1, <2>2, AwaitedKeeps
  <2> QED
    BY <1>1, <2>1, <2>2, <2>3, <2>4, AwaitedList, ListTypes, ListStep
<1>4. CASE Join
  <2> DEFINE joint == [listFetch EXCEPT !.shown = dash.revision, !.joined = TRUE]
  <2>1. listFetch' = joint /\ UNCHANGED list /\ listFetch # NoListFetch
    BY <1>4 DEF Join
  <2>2. /\ joint \in Fetches /\ joint.at = listFetch.at /\ joint.value = listFetch.value
        /\ joint.shown = dash.revision /\ joint.joined
    BY ListTypes, Parts DEF Fetches
  <2> HIDE DEF joint
  <2>3. joint # NoListFetch
    BY <2>1, <2>2, Constants DEF IInv, ListInv
  <2>4. NoticeInv'
    BY <1>1, <2>1, <2>2, Parts DEF IInv, NoticeInv
  <2>5. ListInv'
    BY <1>1, <2>1, <2>2, <2>3 DEF IInv, ListInv
  <2> QED
    BY <1>1, <2>1, <2>2, <2>4, <2>5, ListTypes, ListStep
<1>5. CASE ReadList
  <2> DEFINE read == [listFetch EXCEPT !.at = "read", !.value = server.revision]
  <2>1. listFetch' = read /\ UNCHANGED list
    BY <1>5 DEF ReadList
  <2>2. read \in Fetches /\ read.at = "read" /\ read.value = server.revision /\ read.shown = listFetch.shown
    BY Parts DEF Fetches
  <2> HIDE DEF read
  <2>3. read # NoListFetch
    BY <2>2, Constants
  <2>4. listFetch.shown <= server.revision /\ notice.revision <= server.revision
    BY Parts DEF IInv, NoticeInv, DashInv
  <2>5. NoticeInv' /\ ListInv'
    BY <1>1, <2>1, <2>2, <2>3, <2>4 DEF IInv, NoticeInv, ListInv
  <2> QED
    BY <1>1, <2>1, <2>2, <2>5, ListTypes, ListStep
<1> QED
  BY <1>2, <1>3, <1>4, <1>5

\* The notice after a list has come, or its fetch has failed.
LEMMA AfterFetch ==
  ASSUME IInv
  PROVE  /\ Refreshed \in Notices
         /\ \/ Refreshed = notice
            \/ /\ notice.open /\ Refreshed.open
               /\ Refreshed.revision = listFetch.shown /\ listFetch.shown # NotYet
               /\ Refreshed.by = "refresh" => ~listFetch.joined
<1>1. CASE notice.open /\ listFetch.shown # NotYet
  <2>1. PICK by \in {"joined", "refresh"} :
          /\ Refreshed = [open |-> TRUE, revision |-> listFetch.shown, by |-> by]
          /\ by = "refresh" => ~listFetch.joined
    BY <1>1, Zenon DEF Refreshed, Captured
  <2> QED
    BY <1>1, <2>1, Parts DEF Notices
<1>2. CASE ~(notice.open /\ listFetch.shown # NotYet)
  BY <1>2, ListTypes DEF Refreshed
<1> QED
  BY <1>1, <1>2

LEMMA FetchedKeeps == ASSUME IInv, ListArrives \/ ListFails PROVE IInv'
<1>1. /\ UNCHANGED <<server, stream, dash, me, meFetch>> /\ notice' = Refreshed
      /\ listFetch' = NoListFetch
  BY DEF ListArrives, ListFails
<1>2. NoticeInv'
  BY <1>1, AfterFetch, Parts, Constants DEF IInv, NoticeInv, Notices
<1>3. CASE ListArrives
  <2> DEFINE arrived == IF list.cut THEN list.revision ELSE listFetch.value
  <2>1. list' = [list EXCEPT !.revision = arrived, !.error = FALSE] /\ listFetch.at = "read"
    BY <1>3 DEF ListArrives
  <2>2. /\ arrived \in Maybe
        /\ list.cut => arrived = list.revision
        /\ ~list.cut => arrived = listFetch.value /\ arrived # NotYet
    BY <2>1, Parts, ListTypes
  <2> HIDE DEF arrived
  <2>3. list' \in Lists /\ list'.revision = arrived /\ list'.cut = list.cut
    <3>1. /\ DOMAIN list = {"revision", "error", "cut"} /\ list.cut \in BOOLEAN
          /\ list = [revision |-> list.revision, error |-> list.error, cut |-> list.cut]
      BY ListTypes DEF Lists
    <3>2. list' = [revision |-> arrived, error |-> FALSE, cut |-> list.cut]
      BY <2>1, <3>1
    <3> QED
      BY <2>2, <3>1, <3>2 DEF Lists
  <2>4. Refreshed.by = "refresh" => Refreshed.revision <= listFetch.value
    BY <2>1, AfterFetch DEF IInv, ListInv
  <2>5. list.cut => list.revision # NotYet
    BY DEF IInv, ListInv
  <2>6. ListInv'
    BY <1>1, <2>2, <2>3, <2>4, <2>5, Constants DEF ListInv, IInv
  <2> QED
    BY <1>1, <1>2, <2>3, <2>6, AfterFetch, Constants, ListStep
<1>4. CASE ListFails
  <2>1. list' = [list EXCEPT !.error = TRUE]
    BY <1>4 DEF ListFails
  <2>2. list' \in Lists /\ list'.error /\ list'.cut = list.cut /\ list'.revision = list.revision
    BY <2>1, ListTypes DEF Lists
  <2>3. ListInv'
    BY <1>1, <2>2, Constants DEF IInv, ListInv
  <2> QED
    BY <1>1, <1>2, <2>2, <2>3, AfterFetch, Constants, ListStep
<1> QED
  BY <1>3, <1>4

LEMMA NextKeeps == IInv /\ [ViewNext]_viewVars => IInv'
<1> SUFFICES ASSUME IInv, [ViewNext]_viewVars PROVE IInv'
  OBVIOUS
<1>1. CASE UNCHANGED viewVars
  BY <1>1 DEF viewVars, IInv, ViewTypeOK, ServerInv, DashInv, NoticeInv, ListInv, Snapshots
<1> QED
  BY <1>1, ChangeKeeps, StreamKeeps, ProfileKeeps, DeliverKeeps, MeArrivesKeeps, PageKeeps, AskKeeps,
     FetchedKeeps DEF ViewNext

LEMMA Invariance == ViewSpec => []IInv
BY InitIInv, NextKeeps, PTL DEF ViewSpec

-----------------------------------------------------------------------------
\* Everything the tab holds has its type at all times.
THEOREM TypeCorrect == ViewSpec => []ViewTypeOK
<1>1. IInv => ViewTypeOK
  BY DEF IInv
<1> QED
  BY <1>1, Invariance, PTL

\* A refreshed list is as new as its notice takes it to be.
THEOREM Current == ViewSpec => []RefreshedIsCurrent
<1>1. IInv => RefreshedIsCurrent
  BY DEF IInv, ListInv, RefreshedIsCurrent
<1> QED
  BY <1>1, Invariance, PTL

=============================================================================
