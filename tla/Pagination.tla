----------------------------- MODULE Pagination -----------------------------
(***************************************************************************)
(* One list of the client (an infinite query of lib/queries.ts) over the   *)
(* cursor pages of the server (common/pagination.ts and the list queries   *)
(* of leads and activities), while rows are written.  A page is one SQL    *)
(* statement, so it is one step; a refresh asks for its pages one by one.  *)
(*                                                                         *)
(* A row is its id, whose order decides ties, the time of its creation and *)
(* the value it is sorted by.  Transactions stamp their rows before they   *)
(* commit, so both may be earlier than the moment they become visible.     *)
(***************************************************************************)
EXTENDS Integers, Sequences, SequencesExt

CONSTANTS
    Rows,       \* ids of rows, positive integers
    Sorts,      \* the sort orders a list may have
    PageSize,   \* rows of a page
    MaxPages,   \* pages a list retains
    MaxStamp    \* bound on the clock

ASSUME PaginationAssumption ==
    /\ Rows \subseteq Nat \ {0}
    /\ Sorts \subseteq {"CREATED_AT", "UPDATED_AT", "NAME"}
    /\ PageSize \in Nat \ {0} /\ MaxPages \in Nat \ {0} /\ MaxStamp \in Nat

VARIABLES
    now,
    visible,    \* rows that are committed
    created,    \* created_at of each
    key,        \* the value each is sorted by now
    list,       \* the sort and direction of the list
    pages,      \* the pages the client holds
    refresh,    \* a refetch under way: pages to fetch and fetched
    kept        \* ghost: rows visible when the list was opened that did not move since

rowVars == <<now, visible, created, key>>
pagingVars == <<rowVars, list, pages, refresh, kept>>

Times == 0 .. MaxStamp

\* What a cursor names: a row, by the sort value it had.
Spot(r) == [key |-> key[r], id |-> r]
Nowhere == [key |-> 0, id |-> 0]

\* pageParam with the asOf its cursor carries.
Start == [kind |-> "start", at |-> Nowhere, asOf |-> 0]
NoParam == [kind |-> "none", at |-> Nowhere, asOf |-> 0]

NoRefresh == [todo |-> 0, got |-> <<>>, kept |-> {}, there |-> {}]

PagingInit ==
    /\ now = 0
    /\ visible = {}
    /\ created = [r \in Rows |-> 0] /\ key = [r \in Rows |-> 0]
    /\ list \in [sort : Sorts, asc : BOOLEAN]
    /\ pages = <<>> /\ refresh = NoRefresh
    /\ kept = {}

-----------------------------------------------------------------------------
(* Deliberately wrong variants, one step away from the code: a run in which  *)
(* one of them takes the place of its original must fail.                    *)

LiveSpot(spot) == Spot(spot.id)    \* for CursorAt

-----------------------------------------------------------------------------
(* The server. *)

\* The tuple comparison (column, id).
Less(a, b) == a.key < b.key \/ (a.key = b.key /\ a.id < b.id)

\* a comes before b in the list.
Above(a, b) == IF list.asc THEN Less(a, b) ELSE Less(b, a)

\* A cursor holds the sort value its row had when it was made, not the one it has.
CursorAt(spot) == spot

\* paging: a list keeps the cut-off of its first page.
AsOf(param) == IF param.kind = "start" THEN now ELSE param.asOf

\* The WHERE clause.
Matches(param) ==
    {s \in {Spot(r) : r \in {q \in visible : created[q] <= AsOf(param)}} :
        /\ param.kind = "after"  => Above(CursorAt(param.at), s)
        /\ param.kind = "before" => Above(s, CursorAt(param.at))}

\* ORDER BY: backwards the rows are read in the opposite order.
Run(param) ==
    CHOOSE run \in SetToSeqs(Matches(param)) :
        \A i, j \in DOMAIN run : i < j =>
            IF param.kind = "before" THEN Above(run[j], run[i]) ELSE Above(run[i], run[j])

\* rows.slice(0, limit).
Cut(run) == SubSeq(run, 1, IF Len(run) > PageSize THEN PageSize ELSE Len(run))

\* connection: one row more than the page tells that there is more.
Page(param) ==
    LET backward == param.kind = "before"
        extra == Len(Run(param)) > PageSize
        nodes == Cut(Run(param))
    IN  [param |-> param, asOf |-> AsOf(param),
         nodes |-> IF backward THEN Reverse(nodes) ELSE nodes,
         next |-> IF backward THEN TRUE ELSE extra,
         prev |-> IF backward THEN extra ELSE param.kind = "after"]

-----------------------------------------------------------------------------
(* The client. *)

\* A null cursor of an empty page is left out of the query: its first page again.
NextParam(page) ==
    IF ~page.next THEN NoParam
    ELSE IF page.nodes = <<>> THEN Start
    ELSE [kind |-> "after", at |-> Last(page.nodes), asOf |-> page.asOf]

PreviousParam(page) ==
    IF ~page.prev THEN NoParam
    ELSE IF page.nodes = <<>> THEN Start
    ELSE [kind |-> "before", at |-> Head(page.nodes), asOf |-> page.asOf]

AtRest == refresh = NoRefresh

Open ==
    /\ pages = <<>> /\ AtRest
    /\ pages' = <<Page(Start)>>
    /\ kept' = visible
    /\ UNCHANGED <<rowVars, list, refresh>>

\* fetchNextPage; the oldest pages go at the other end.
FetchNext ==
    /\ pages # <<>> /\ AtRest
    /\ NextParam(Last(pages)) # NoParam
    /\ LET all == Append(pages, Page(NextParam(Last(pages))))
       IN  pages' = IF Len(all) > MaxPages THEN Tail(all) ELSE all
    /\ UNCHANGED <<rowVars, list, refresh, kept>>

FetchPrevious ==
    /\ pages # <<>> /\ AtRest
    /\ PreviousParam(Head(pages)) # NoParam
    /\ LET all == <<Page(PreviousParam(Head(pages)))>> \o pages
       IN  pages' = IF Len(all) > MaxPages THEN Front(all) ELSE all
    /\ UNCHANGED <<rowVars, list, refresh, kept>>

\* refetch: as many pages as there are, the first with the parameter it had.
Refresh ==
    /\ pages # <<>> /\ AtRest
    /\ refresh' = [todo |-> Len(pages), got |-> <<>>, kept |-> kept, there |-> visible]
    /\ UNCHANGED <<rowVars, list, pages, kept>>

RefreshParam ==
    IF refresh.got = <<>> THEN Head(pages).param ELSE NextParam(Last(refresh.got))

RefreshPage ==
    /\ ~AtRest
    /\ LET page == Page(RefreshParam)
           got == Append(refresh.got, page)
           anew == refresh.got = <<>> /\ RefreshParam = Start
           known == IF anew THEN visible ELSE refresh.kept
       IN  IF Len(got) = refresh.todo \/ NextParam(page) = NoParam
           THEN /\ pages' = got
                /\ refresh' = NoRefresh
                /\ kept' = known
           ELSE /\ refresh' = [refresh EXCEPT !.got = got, !.kept = known]
                /\ UNCHANGED <<pages, kept>>
    /\ UNCHANGED <<rowVars, list>>

\* A page of it fails: the list keeps the pages it had.
RefreshFails ==
    /\ ~AtRest
    /\ refresh' = NoRefresh
    /\ UNCHANGED <<rowVars, list, pages, kept>>

-----------------------------------------------------------------------------
(* Writers. *)

\* A row is committed, stamped at t or later than that.
AddRow(r, t) ==
    /\ r \notin visible
    /\ t <= now
    /\ visible' = visible \cup {r}
    /\ created' = [created EXCEPT ![r] = t]
    /\ \E k \in IF list.sort = "NAME" THEN Times ELSE {t} : key' = [key EXCEPT ![r] = k]
    /\ UNCHANGED <<now, list, pages, refresh, kept>>

\* An update moves a row in a list sorted by name or by time of update.
Edit(r, k) ==
    /\ r \in visible /\ list.sort # "CREATED_AT"
    /\ k # key[r]
    /\ list.sort = "UPDATED_AT" => key[r] < k /\ k <= now
    /\ key' = [key EXCEPT ![r] = k]
    /\ kept' = kept \ {r}
    /\ refresh' = IF AtRest THEN refresh
                  ELSE [refresh EXCEPT !.kept = @ \ {r}, !.there = @ \ {r}]
    /\ UNCHANGED <<now, visible, created, list, pages>>

TimePasses ==
    /\ now < MaxStamp
    /\ now' = now + 1
    /\ UNCHANGED <<visible, created, key, list, pages, refresh, kept>>

PagingNext ==
    \/ Open \/ FetchNext \/ FetchPrevious
    \/ Refresh \/ RefreshPage \/ RefreshFails
    \/ \E r \in Rows, t \in Times : AddRow(r, t) \/ Edit(r, t)
    \/ TimePasses

PagingSpec == PagingInit /\ [][PagingNext]_pagingVars

-----------------------------------------------------------------------------
(* Properties. *)

Shown == UNION {Range(pages[i].nodes) : i \in DOMAIN pages}

\* A row is shown, or lies beyond an end at which the client offers more.
InReach(r) ==
    \/ pages = <<>>
    \/ \E s \in Shown : s.id = r
    \/ LET top == Head(pages)
       IN  top.prev /\ (top.nodes # <<>> => Above(Spot(r), Head(top.nodes)))
    \/ LET end == Last(pages)
       IN  end.next /\ (end.nodes # <<>> => Above(Last(end.nodes), Spot(r)))

\* A row that was there when the list was opened and did not move since is never
\* skipped, forwards or backwards, unless rows that moved left a page without any.
NothingIsSkipped ==
    (Len(pages) > 1 => \A i \in DOMAIN pages : pages[i].nodes # <<>>)
        => \A r \in kept : InReach(r)

\* The button "Refresh view" next to "New activity is available." (refresh-notice.tsx:15)
\* and the README (183, "refresh after concurrent edits") say that a refresh brings a
\* list up to date: every row there when it began is in reach when it is done.
RefreshShowsNew ==
    [][(RefreshPage /\ AtRest') => \A r \in refresh.there : InReach(r)']_pagingVars
=============================================================================
