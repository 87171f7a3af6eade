--------------------------- MODULE PaginationProofs ---------------------------
(***************************************************************************)
(* No page sequence skips a row that stayed where it was.  The argument    *)
(* has three layers.  The rows a query matches have distinct spots, and    *)
(* the order of the spots is strict and total, so there is a sorted run of *)
(* them (Sorted, Listed, Order).  A page is a piece of such a run, cut off *)
(* at PageSize, with a flag that says whether the run goes on (CutIs,      *)
(* PageIs, Finds, Ends).  The pages on screen are Sound: each is in order, *)
(* follows the one before it and, together with its neighbours, leaves out *)
(* no kept row between its first and its last spot (PageOK, Joined,        *)
(* Reaches); dropping pages at either end and adding one at either end     *)
(* keep that (DropsFirst, DropsLast, Appends, Prepends).                   *)
(***************************************************************************)
EXTENDS Pagination, FiniteSetTheorems, TLAPS

\* A finite set that R orders strictly and totally is listed by some sequence in that order.
LEMMA Sorted ==
  ASSUME NEW S, IsFiniteSet(S), NEW R,
         \A a \in S : <<a, a>> \notin R,
         \A a, b, c \in S : <<a, b>> \in R /\ <<b, c>> \in R => <<a, c>> \in R,
         \A a, b \in S : a # b => <<a, b>> \in R \/ <<b, a>> \in R
  PROVE  \E run \in SetToSeqs(S) : \A i, j \in DOMAIN run : i < j => <<run[i], run[j]>> \in R
<1> DEFINE n == Cardinality(S)
           below(s) == {t \in S : <<t, s>> \in R}
           rank == [s \in S |-> Cardinality(below(s)) + 1]
<1>1. n \in Nat /\ IsFiniteSet(1 .. n) /\ Cardinality(1 .. n) = n
  BY FS_CardinalityType, FS_Interval
<1>2. ASSUME NEW s \in S
      PROVE  IsFiniteSet(below(s)) /\ Cardinality(below(s)) \in Nat /\ Cardinality(below(s)) < n
  <2>1. below(s) \in SUBSET S /\ below(s) # S
    OBVIOUS
  <2>2. IsFiniteSet(below(s)) /\ Cardinality(below(s)) <= n /\ Cardinality(below(s)) # n
    BY <2>1, FS_Subset
  <2> QED
    BY <1>1, <2>2, FS_CardinalityType
<1>3. ASSUME NEW s \in S, NEW t \in S, <<s, t>> \in R
      PROVE  Cardinality(below(s)) < Cardinality(below(t))
  <2>1. below(s) \in SUBSET below(t) /\ below(s) # below(t)
    BY <1>3
  <2>2. Cardinality(below(s)) <= Cardinality(below(t)) /\ Cardinality(below(s)) # Cardinality(below(t))
    BY <1>2, <2>1, FS_Subset
  <2>3. Cardinality(below(s)) \in Nat /\ Cardinality(below(t)) \in Nat
    BY <1>2
  <2> HIDE DEF below
  <2> QED
    BY <2>2, <2>3
<1> HIDE DEF below
<1>4. rank \in [S -> 1 .. n]
  BY <1>1, <1>2
<1>5. \A s, t \in S : <<s, t>> \in R => rank[s] < rank[t]
  BY <1>2, <1>3
<1> HIDE DEF rank
<1>6. rank \in Injection(S, 1 .. n)
  <2>1. \A s, t \in S : s # t => rank[s] # rank[t]
    <3> SUFFICES ASSUME NEW s \in S, NEW t \in S, s # t PROVE rank[s] # rank[t]
      OBVIOUS
    <3>1. rank[s] < rank[t] \/ rank[t] < rank[s]
      BY <1>5
    <3>2. rank[s] \in Int /\ rank[t] \in Int
      BY <1>4
    <3> QED
      BY <3>1, <3>2
  <2>2. IsInjective(rank)
    BY <1>4, <2>1 DEF IsInjective
  <2> QED
    BY <1>4, <2>2 DEF Injection
<1>7. rank \in Surjection(S, 1 .. n)
  BY <1>1, <1>6, FS_Injection
<1> DEFINE run == [i \in 1 .. n |-> CHOOSE s \in S : rank[s] = i]
<1>8. \A i \in 1 .. n : run[i] \in S /\ rank[run[i]] = i
  BY <1>7 DEF Surjection
<1> HIDE DEF run
<1>9. run \in [1 .. n -> S]
  BY <1>8 DEF run
<1>10. run \in SetToSeqs(S)
  BY <1>8, <1>9 DEF SetToSeqs
<1>11. ASSUME NEW i \in 1 .. n, NEW j \in 1 .. n, i < j PROVE <<run[i], run[j]>> \in R
  <2>1. run[i] # run[j] /\ ~ (<<run[j], run[i]>> \in R)
    BY <1>1, <1>5, <1>8, <1>11
  <2> QED
    BY <1>8, <2>1
<1>12. DOMAIN run = 1 .. n
  BY <1>9
<1> QED
  BY <1>10, <1>11, <1>12

\* A sequence that lists a set once has all of it.
LEMMA Listed ==
  ASSUME NEW S, IsFiniteSet(S), NEW run \in SetToSeqs(S)
  PROVE  /\ run \in Seq(S) /\ Len(run) = Cardinality(S) /\ Len(run) \in Nat
         /\ DOMAIN run = 1 .. Len(run)
         /\ \A s \in S : \E i \in DOMAIN run : run[i] = s
<1> DEFINE n == Cardinality(S)
<1>1. n \in Nat /\ IsFiniteSet(1 .. n) /\ Cardinality(1 .. n) = n
  BY FS_CardinalityType, FS_Interval
<1>2. run \in [1 .. n -> S] /\ \A i, j \in 1 .. n : i # j => run[i] # run[j]
  BY DEF SetToSeqs
<1>3. run \in Seq(S) /\ Len(run) = n /\ DOMAIN run = 1 .. n
  BY <1>1, <1>2
<1>4. run \in Injection(1 .. n, S)
  BY <1>2 DEF Injection, IsInjective
<1>5. run \in Surjection(1 .. n, S)
  BY <1>1, <1>4, FS_Injection
<1> QED
  BY <1>1, <1>3, <1>5 DEF Surjection

-----------------------------------------------------------------------------
Spots == [key : Nat, id : Nat]

RowsOK ==
    /\ visible \subseteq Rows /\ IsFiniteSet(visible)
    /\ key \in [Rows -> Nat] /\ created \in [Rows -> Nat] /\ now \in Nat
    /\ \A r \in visible : created[r] <= now

Params == [kind : {"after", "before"}, at : Spots, asOf : Nat] \cup {Start}
PageType == [param : Params, asOf : Nat, nodes : Seq(Spots), next : BOOLEAN, prev : BOOLEAN]

LEMMA Assumed == PageSize \in Nat \ {0} /\ MaxPages \in Nat \ {0} /\ Rows \subseteq Nat
BY PaginationAssumption DEF PaginationAssumption

LEMMA Order ==
  /\ \A a \in Spots : ~Above(a, a)
  /\ \A a, b, c \in Spots : Above(a, b) /\ Above(b, c) => Above(a, c)
  /\ \A a, b \in Spots : a # b => Above(a, b) \/ Above(b, a)
BY DEF Above, Less, Spots

LEMMA SpotType == ASSUME RowsOK, NEW r \in Rows PROVE Spot(r) \in Spots /\ Spot(r).id = r
BY Assumed DEF RowsOK, Spot, Spots

\* The rows of a page before it is cut: all that match, in order.
LEMMA Ordered ==
  ASSUME RowsOK, NEW param
  PROVE  LET run == Run(param) IN
         /\ Matches(param) \subseteq Spots
         /\ run \in Seq(Matches(param)) /\ Len(run) \in Nat /\ DOMAIN run = 1 .. Len(run)
         /\ \A s \in Matches(param) : \E i \in DOMAIN run : run[i] = s
         /\ \A i, j \in DOMAIN run : i < j =>
                IF param.kind = "before" THEN Above(run[j], run[i]) ELSE Above(run[i], run[j])
<1> DEFINE M == Matches(param)
           R == {p \in Spots \X Spots : IF param.kind = "before" THEN Above(p[2], p[1])
                                                                 ELSE Above(p[1], p[2])}
<1>1. \A s \in M : s.id \in visible /\ s = Spot(s.id)
  BY SpotType DEF Matches, RowsOK
<1>2. M \subseteq Spots
  BY <1>1, SpotType DEF RowsOK
<1>3. IsFiniteSet(M)
  <2> DEFINE f == [s \in M |-> s.id]
  <2>1. f \in Injection(M, visible)
    BY <1>1 DEF Injection, IsInjective
  <2> QED
    BY <2>1, FS_Injection DEF RowsOK
<1> HIDE DEF M
<1>4. \A a, b \in M : <<a, b>> \in R <=> IF param.kind = "before" THEN Above(b, a) ELSE Above(a, b)
  BY <1>2
<1>5. /\ \A a \in M : <<a, a>> \notin R
      /\ \A a, b, c \in M : <<a, b>> \in R /\ <<b, c>> \in R => <<a, c>> \in R
      /\ \A a, b \in M : a # b => <<a, b>> \in R \/ <<b, a>> \in R
  <2> HIDE DEF R
  <2> QED
    BY <1>2, <1>4, Order
<1> DEFINE Good(run) == \A i, j \in DOMAIN run : i < j =>
                            IF param.kind = "before" THEN Above(run[j], run[i]) ELSE Above(run[i], run[j])
<1>6. \E run \in SetToSeqs(M) : Good(run)
  <2> HIDE DEF R
  <2>1. PICK run \in SetToSeqs(M) : \A i, j \in DOMAIN run : i < j => <<run[i], run[j]>> \in R
    BY <1>3, <1>5, Sorted
  <2>2. \A i \in DOMAIN run : run[i] \in M
    BY <1>3, Listed
  <2> QED
    BY <1>4, <2>1, <2>2
<1>7. Run(param) = CHOOSE run \in SetToSeqs(M) : Good(run)
  BY DEF Run, M
<1> HIDE DEF Good
<1>8. Run(param) \in SetToSeqs(M) /\ Good(Run(param))
  BY <1>6, <1>7
<1>9. /\ Run(param) \in Seq(M) /\ Len(Run(param)) \in Nat /\ DOMAIN Run(param) = 1 .. Len(Run(param))
      /\ \A s \in M : \E i \in DOMAIN Run(param) : Run(param)[i] = s
  BY <1>3, <1>8, Listed
<1> QED
  BY <1>2, <1>8, <1>9 DEF M, Good

LEMMA CutIs ==
  ASSUME NEW T, NEW run \in Seq(T)
  PROVE  /\ Cut(run) \in Seq(T) /\ Len(Cut(run)) = IF Len(run) > PageSize THEN PageSize ELSE Len(run)
         /\ \A i \in 1 .. Len(Cut(run)) : Cut(run)[i] = run[i]
<1> DEFINE n == IF Len(run) > PageSize THEN PageSize ELSE Len(run)
<1>1. n \in 0 .. Len(run) /\ n \in Nat
  BY Assumed
<1> HIDE DEF n
<1>2. Cut(run) = SubSeq(run, 1, n)
  BY DEF Cut, n
<1>3. SubSeq(run, 1, n) \in Seq(T) /\ Len(SubSeq(run, 1, n)) = n
      /\ \A i \in 1 .. n : SubSeq(run, 1, n)[i] = run[i]
  BY <1>1
<1> QED
  BY <1>1, <1>2, <1>3 DEF n

\* What a page shows, and what it says of the rows it does not show.
LEMMA PageIs ==
  ASSUME RowsOK, NEW param \in Params
  PROVE  LET page == Page(param) IN
         /\ page.param = param /\ page.asOf = AsOf(param)
         /\ page.next \in BOOLEAN /\ page.prev \in BOOLEAN
         /\ page.nodes \in Seq(Spots)
         /\ \A i \in DOMAIN page.nodes : page.nodes[i] \in Matches(param)
         /\ \A i, j \in DOMAIN page.nodes : i < j => Above(page.nodes[i], page.nodes[j])
         /\ page.nodes = <<>> => Matches(param) = {}
         /\ \A s \in Matches(param) :
                \/ \E i \in DOMAIN page.nodes : page.nodes[i] = s
                \/ param.kind # "before" /\ page.next /\ Above(Last(page.nodes), s)
                \/ param.kind = "before" /\ page.prev /\ Above(s, Head(page.nodes))
         /\ param.kind = "before" => page.next
         /\ param.kind = "after" => page.prev
         /\ param.kind = "start" => ~page.prev
         /\ page.nodes = <<>> =>
                page.next = (param.kind = "before") /\ page.prev = (param.kind = "after")
<1> DEFINE run == Run(param)
           nodes == Cut(run)
           M == Matches(param)
           backward == param.kind = "before"
           extra == Len(run) > PageSize
<1>1. /\ M \subseteq Spots /\ run \in Seq(M) /\ Len(run) \in Nat /\ DOMAIN run = 1 .. Len(run)
      /\ \A s \in M : \E i \in DOMAIN run : run[i] = s
      /\ \A i, j \in DOMAIN run : i < j => IF backward THEN Above(run[j], run[i]) ELSE Above(run[i], run[j])
  BY Ordered
<1>2. /\ nodes \in Seq(M) /\ Len(nodes) = (IF extra THEN PageSize ELSE Len(run))
      /\ \A i \in 1 .. Len(nodes) : nodes[i] = run[i]
  BY <1>1, CutIs
<1> HIDE DEF run, M
<1>3. /\ Len(nodes) \in Nat /\ Len(nodes) <= Len(run) /\ DOMAIN nodes = 1 .. Len(nodes)
      /\ extra <=> Len(nodes) < Len(run)
      /\ Len(nodes) = 0 => M = {} /\ ~extra
  BY <1>1, <1>2, Assumed
<1>4. ASSUME NEW s \in M
      PROVE  \/ \E i \in DOMAIN nodes : nodes[i] = s
             \/ extra /\ Len(nodes) > 0 /\ IF backward THEN Above(s, nodes[Len(nodes)])
                                                       ELSE Above(nodes[Len(nodes)], s)
  <2>1. PICK i \in 1 .. Len(run) : run[i] = s
    BY <1>1
  <2>2. CASE i <= Len(nodes)
    BY <1>2, <1>3, <2>1, <2>2
  <2>3. CASE i > Len(nodes)
    <3>1. Len(nodes) < Len(run) /\ Len(nodes) > 0 /\ Len(nodes) \in 1 .. Len(run)
      BY <1>1, <1>3, <2>1, <2>3
    <3>2. nodes[Len(nodes)] = run[Len(nodes)]
      BY <1>2, <1>3, <3>1
    <3> QED
      BY <1>1, <1>3, <2>1, <2>3, <3>1, <3>2
  <2> QED
    BY <1>3, <2>1, <2>2, <2>3
<1>5. \A i, j \in DOMAIN nodes : i < j => IF backward THEN Above(nodes[j], nodes[i])
                                                      ELSE Above(nodes[i], nodes[j])
  BY <1>1, <1>2, <1>3
<1> DEFINE page == Page(param)
           shown == IF backward THEN Reverse(nodes) ELSE nodes
<1>6. /\ page.param = param /\ page.asOf = AsOf(param) /\ page.nodes = shown
      /\ page.next = (IF backward THEN TRUE ELSE extra)
      /\ page.prev = (IF backward THEN extra ELSE param.kind = "after")
  BY DEF Page, run
<1> HIDE DEF nodes, page
<1>7. /\ shown \in Seq(M) /\ Len(shown) = Len(nodes) /\ DOMAIN shown = DOMAIN nodes
      /\ \A i \in DOMAIN nodes : shown[i] = IF backward THEN nodes[Len(nodes) - i + 1] ELSE nodes[i]
  <2>1. CASE backward
    <3> DEFINE back == [i \in 1 .. Len(nodes) |-> nodes[(Len(nodes) - i) + 1]]
    <3>1. shown = back
      BY <2>1 DEF Reverse
    <3>2. \A i \in 1 .. Len(nodes) : (Len(nodes) - i) + 1 \in 1 .. Len(nodes) /\ nodes[(Len(nodes) - i) + 1] \in M
      BY <1>2, <1>3
    <3>3. /\ back \in Seq(M) /\ Len(back) = Len(nodes) /\ DOMAIN back = DOMAIN nodes
          /\ \A i \in DOMAIN nodes : back[i] = nodes[Len(nodes) - i + 1]
      BY <1>3, <3>2
    <3> HIDE DEF back, shown
    <3> QED
      BY <2>1, <3>1, <3>3
  <2>2. CASE ~backward
    BY <1>2, <1>3, <2>2
  <2> QED
    BY <2>1, <2>2
<1>8. \A i, j \in DOMAIN shown : i < j => Above(shown[i], shown[j])
  <2> SUFFICES ASSUME NEW i \in 1 .. Len(nodes), NEW j \in 1 .. Len(nodes), i < j PROVE Above(shown[i], shown[j])
    BY <1>3, <1>7
  <2>1. CASE backward
    <3>1. /\ Len(nodes) - i + 1 \in DOMAIN nodes /\ Len(nodes) - j + 1 \in DOMAIN nodes
          /\ Len(nodes) - j + 1 < Len(nodes) - i + 1
      BY <1>3
    <3>2. Above(nodes[Len(nodes) - i + 1], nodes[Len(nodes) - j + 1])
      BY <1>5, <2>1, <3>1
    <3>3. shown[i] = nodes[Len(nodes) - i + 1] /\ shown[j] = nodes[Len(nodes) - j + 1]
      BY <1>3, <1>7, <2>1
    <3> QED
      BY <3>2, <3>3
  <2>2. CASE ~backward
    BY <1>3, <1>5, <1>7, <2>2
  <2> QED
    BY <2>1, <2>2
<1>9. Len(nodes) > 0 => /\ backward => Head(shown) = nodes[Len(nodes)]
                        /\ ~backward => Last(shown) = nodes[Len(nodes)]
  BY <1>3, <1>7 DEF Last
<1>10. ASSUME NEW s \in M
       PROVE  \/ \E i \in DOMAIN shown : shown[i] = s
              \/ param.kind # "before" /\ page.next /\ Above(Last(shown), s)
              \/ param.kind = "before" /\ page.prev /\ Above(s, Head(shown))
  <2>1. CASE \E i \in DOMAIN nodes : nodes[i] = s
    <3>1. PICK i \in 1 .. Len(nodes) : nodes[i] = s
      BY <1>3, <2>1
    <3>2. Len(nodes) - i + 1 \in DOMAIN nodes /\ Len(nodes) - (Len(nodes) - i + 1) + 1 = i
      BY <1>3
    <3> QED
      BY <1>3, <1>7, <3>1, <3>2
  <2>2. CASE extra /\ Len(nodes) > 0 /\ IF backward THEN Above(s, nodes[Len(nodes)])
                                                    ELSE Above(nodes[Len(nodes)], s)
    BY <1>6, <1>9, <2>2
  <2> QED
    BY <1>4, <2>1, <2>2
<1>11. shown = <<>> => M = {} /\ ~extra
  BY <1>3, <1>7
<1>12. shown \in Seq(Spots) /\ \A i \in DOMAIN shown : shown[i] \in M
  BY <1>1, <1>7
<1> HIDE DEF shown
<1>13. param.kind \in {"after", "before", "start"}
  BY DEF Params, Start
<1>14. /\ page.next \in BOOLEAN /\ page.prev \in BOOLEAN
       /\ param.kind = "before" => page.next
       /\ param.kind = "after" => page.prev
       /\ param.kind = "start" => ~page.prev
       /\ shown = <<>> => page.next = (param.kind = "before") /\ page.prev = (param.kind = "after")
  <2> HIDE DEF extra
  <2>1. extra \in BOOLEAN
    BY DEF extra
  <2>2. CASE backward
    BY <1>6, <1>11, <2>1, <2>2
  <2>3. CASE ~backward
    BY <1>6, <1>11, <1>13, <2>1, <2>3
  <2> QED
    BY <2>2, <2>3
<1>15. page.param = param /\ page.asOf = AsOf(param) /\ page.nodes = shown
  BY <1>6
<1> QED
  BY <1>8, <1>10, <1>11, <1>12, <1>14, <1>15 DEF page, M

-----------------------------------------------------------------------------
(* Lists of pages. *)

\* One page, for the rows of K: in order, those of K where they now are, as late as
\* they are; and at a side where it offers no more there is none for a reason.
PageOK(p, K) ==
    /\ \A i, j \in DOMAIN p.nodes : i < j => Above(p.nodes[i], p.nodes[j])
    /\ \A i \in DOMAIN p.nodes : p.nodes[i].id \in K => p.nodes[i] = Spot(p.nodes[i].id)
    /\ \A r \in K : created[r] <= p.asOf
    /\ p.param = Start \/ p.param.asOf = p.asOf
    /\ p.param.kind = "after" => p.prev
    /\ p.param.kind = "before" => p.next
    /\ p.param.kind = "start" => ~p.prev
    /\ p.nodes = <<>> => p.next = (p.param.kind = "before") /\ p.prev = (p.param.kind = "after")

\* Neighbours: what the upper shows comes before what the lower shows, and each
\* offers more where the other is.
Joined(p, q) ==
    /\ p.next
    /\ q.nodes = <<>> => ~q.next
    /\ p.nodes # <<>> =>
           /\ q.prev
           /\ q.nodes # <<>> => Above(Last(p.nodes), Head(q.nodes))

Shows(p, r) == \E i \in DOMAIN p.nodes : p.nodes[i].id = r
Over(p, r) == p.prev /\ (p.nodes # <<>> => Above(Spot(r), Head(p.nodes)))
Under(p, r) == p.next /\ (p.nodes # <<>> => Above(Last(p.nodes), Spot(r)))

Reaches(ps, r) ==
    (\E i \in DOMAIN ps : Shows(ps[i], r)) \/ Over(ps[1], r) \/ Under(ps[Len(ps)], r)

\* A list in which no row of K is skipped.
Sound(ps, K) ==
    /\ ps \in Seq(PageType) /\ ps # <<>>
    /\ \A i \in DOMAIN ps : PageOK(ps[i], K)
    /\ \A i \in 1 .. Len(ps) - 1 : Joined(ps[i], ps[i + 1])
    /\ \A r \in K : Reaches(ps, r)

\* A page that refers to nothing, left without rows, was given its start again.
Stuck(ps) ==
    /\ Len(ps) = 2 /\ ps \in Seq(PageType)
    /\ ps[1].param = Start /\ ~ps[1].prev
    /\ ps[2].nodes = <<>> /\ ~ps[2].next

LEMMA PageFits ==
  ASSUME RowsOK, NEW param \in Params, NEW K, K \subseteq visible,
         \A r \in K : created[r] <= AsOf(param)
  PROVE  Page(param) \in PageType /\ PageOK(Page(param), K)
<1> DEFINE page == Page(param)
<1>1. /\ page.param = param /\ page.asOf = AsOf(param)
      /\ page.next \in BOOLEAN /\ page.prev \in BOOLEAN
      /\ page.nodes \in Seq(Spots)
      /\ \A i \in DOMAIN page.nodes : page.nodes[i] \in Matches(param)
      /\ \A i, j \in DOMAIN page.nodes : i < j => Above(page.nodes[i], page.nodes[j])
      /\ param.kind = "before" => page.next
      /\ param.kind = "after" => page.prev
      /\ param.kind = "start" => ~page.prev
      /\ page.nodes = <<>> =>
             page.next = (param.kind = "before") /\ page.prev = (param.kind = "after")
  BY PageIs
<1>2. AsOf(param) \in Nat /\ (param = Start \/ param.asOf = AsOf(param))
  BY DEF AsOf, RowsOK, Params, Start
<1>3. page = [param |-> page.param, asOf |-> page.asOf, nodes |-> page.nodes,
              next |-> page.next, prev |-> page.prev]
  BY DEF Page
<1>4. \A s \in Matches(param) : s = Spot(s.id)
  BY SpotType DEF Matches, RowsOK
<1> HIDE DEF page
<1>5. page \in PageType
  BY <1>1, <1>2, <1>3 DEF PageType
<1>6. PageOK(page, K)
  BY <1>1, <1>2, <1>4 DEF PageOK
<1> QED
  BY <1>5, <1>6 DEF page

\* A row beyond the cursor of a page is on it, or beyond its other end.
LEMMA Finds ==
  ASSUME RowsOK, NEW param \in Params, NEW r \in visible, created[r] <= AsOf(param),
         param.kind = "after" => Above(param.at, Spot(r)),
         param.kind = "before" => Above(Spot(r), param.at)
  PROVE  \/ Shows(Page(param), r)
         \/ param.kind # "before" /\ Under(Page(param), r)
         \/ param.kind = "before" /\ Over(Page(param), r)
<1>1. Spot(r) \in Matches(param)
  BY DEF Matches, CursorAt
<1>2. Spot(r).id = r
  BY SpotType DEF RowsOK
<1> QED
  BY <1>1, <1>2, PageIs DEF Shows, Under, Over

\* The nodes of a page lie between its ends.
LEMMA Ends ==
  ASSUME NEW K, NEW p \in PageType, PageOK(p, K), p.nodes # <<>>
  PROVE  /\ Head(p.nodes) \in Spots /\ Last(p.nodes) \in Spots
         /\ Len(p.nodes) \in Nat \ {0} /\ DOMAIN p.nodes = 1 .. Len(p.nodes)
         /\ \A i \in DOMAIN p.nodes :
                /\ p.nodes[i] \in Spots
                /\ p.nodes[i] = Head(p.nodes) \/ Above(Head(p.nodes), p.nodes[i])
                /\ p.nodes[i] = Last(p.nodes) \/ Above(p.nodes[i], Last(p.nodes))
<1>1. p.nodes \in Seq(Spots)
  BY DEF PageType
<1>2. /\ Len(p.nodes) \in Nat \ {0} /\ DOMAIN p.nodes = 1 .. Len(p.nodes)
      /\ Head(p.nodes) = p.nodes[1] /\ Last(p.nodes) = p.nodes[Len(p.nodes)]
      /\ \A i \in 1 .. Len(p.nodes) : p.nodes[i] \in Spots
  BY <1>1 DEF Last
<1>3. ASSUME NEW i \in 1 .. Len(p.nodes)
      PROVE  /\ p.nodes[i] = Head(p.nodes) \/ Above(Head(p.nodes), p.nodes[i])
             /\ p.nodes[i] = Last(p.nodes) \/ Above(p.nodes[i], Last(p.nodes))
  <2>1. i = 1 \/ 1 < i
    BY <1>2
  <2>2. i = Len(p.nodes) \/ i < Len(p.nodes)
    BY <1>2
  <2> QED
    BY <1>2, <2>1, <2>2 DEF PageOK
<1> QED
  BY <1>2, <1>3

\* Where a page shows a row of K, the row is.
LEMMA Between ==
  ASSUME NEW K, NEW p \in PageType, PageOK(p, K), NEW r \in K, Shows(p, r)
  PROVE  /\ p.nodes # <<>> /\ Spot(r) \in Spots
         /\ Spot(r) = Head(p.nodes) \/ Above(Head(p.nodes), Spot(r))
         /\ Spot(r) = Last(p.nodes) \/ Above(Spot(r), Last(p.nodes))
<1>1. PICK i \in DOMAIN p.nodes : p.nodes[i].id = r
  BY DEF Shows
<1>2. p.nodes[i] = Spot(r)
  BY <1>1 DEF PageOK
<1>3. p.nodes # <<>>
  BY <1>1
<1> QED
  BY <1>1, <1>2, <1>3, Ends

LEMMA HeadAboveLast ==
  ASSUME NEW K, NEW p \in PageType, PageOK(p, K), p.nodes # <<>>
  PROVE  Head(p.nodes) = Last(p.nodes) \/ Above(Head(p.nodes), Last(p.nodes))
<1>1. Last(p.nodes) = p.nodes[Len(p.nodes)]
  BY DEF Last
<1> QED
  BY <1>1, Ends

LEMMA DropsFirst ==
  ASSUME RowsOK, NEW K, K \subseteq visible, NEW ps, Sound(ps, K), Len(ps) > 1
  PROVE  Sound(Tail(ps), K)
<1> DEFINE qs == Tail(ps)
           p == ps[1]
           q == ps[2]
<1>1. /\ ps \in Seq(PageType) /\ qs \in Seq(PageType) /\ Len(ps) \in Nat
      /\ Len(qs) = Len(ps) - 1 /\ qs # <<>> /\ DOMAIN qs = 1 .. Len(qs) /\ DOMAIN ps = 1 .. Len(ps)
      /\ \A i \in 1 .. Len(qs) : qs[i] = ps[i + 1] /\ i + 1 \in 1 .. Len(ps)
      /\ \A i \in 1 .. Len(ps) : ps[i] \in PageType
  BY DEF Sound
<1> HIDE DEF qs
<1>2. \A i \in 1 .. Len(qs) : PageOK(qs[i], K)
  BY <1>1 DEF Sound
<1>3. \A i \in 1 .. Len(qs) - 1 : Joined(qs[i], qs[i + 1])
  <2> SUFFICES ASSUME NEW i \in 1 .. Len(qs) - 1 PROVE Joined(qs[i], qs[i + 1])
    OBVIOUS
  <2>1. i \in 1 .. Len(qs) /\ i + 1 \in 1 .. Len(qs) /\ i + 1 \in 1 .. Len(ps) - 1
    BY <1>1
  <2>2. qs[i] = ps[i + 1] /\ qs[i + 1] = ps[(i + 1) + 1]
    BY <1>1, <2>1
  <2> QED
    BY <2>1, <2>2 DEF Sound
<1>4. /\ p \in PageType /\ q \in PageType /\ PageOK(p, K) /\ PageOK(q, K) /\ Joined(p, q)
      /\ 1 \in 1 .. Len(qs) /\ qs[1] = q /\ qs[Len(qs)] = ps[Len(ps)]
  BY <1>1 DEF Sound
<1>5. ASSUME NEW r \in K PROVE Reaches(qs, r)
  <2>1. Spot(r) \in Spots
    BY SpotType DEF RowsOK
  <2>2. CASE Shows(p, r)
    <3>1. p.nodes # <<>> /\ Last(p.nodes) \in Spots
          /\ (Spot(r) = Last(p.nodes) \/ Above(Spot(r), Last(p.nodes)))
      BY <1>4, <2>2, Between, Ends
    <3>2. Over(q, r)
      BY <1>4, <2>1, <3>1, Ends, Order DEF Joined, Over
    <3> QED
      BY <1>4, <3>2 DEF Reaches
  <2>3. CASE \E i \in DOMAIN ps : i # 1 /\ Shows(ps[i], r)
    <3>1. PICK i \in 1 .. Len(ps) : i # 1 /\ Shows(ps[i], r)
      BY <1>1, <2>3
    <3>2. i - 1 \in 1 .. Len(qs) /\ qs[i - 1] = ps[i]
      BY <1>1, <3>1
    <3> QED
      BY <1>1, <3>1, <3>2 DEF Reaches
  <2>4. CASE Over(p, r)
    <3>1. p.nodes # <<>>
      BY <1>4, <2>4 DEF Over, PageOK, Joined
    <3>2. /\ Above(Spot(r), Head(p.nodes)) /\ Head(p.nodes) \in Spots /\ Last(p.nodes) \in Spots
          /\ Head(p.nodes) = Last(p.nodes) \/ Above(Head(p.nodes), Last(p.nodes))
      BY <1>4, <2>4, <3>1, Ends, HeadAboveLast DEF Over
    <3>3. Above(Spot(r), Last(p.nodes))
      BY <2>1, <3>2, Order
    <3>4. Over(q, r)
      BY <1>4, <2>1, <3>1, <3>2, <3>3, Ends, Order DEF Joined, Over
    <3> QED
      BY <1>4, <3>4 DEF Reaches
  <2>5. CASE Under(ps[Len(ps)], r)
    BY <1>4, <2>5 DEF Reaches
  <2> QED
    BY <2>2, <2>3, <2>4, <2>5 DEF Sound, Reaches
<1> QED
  BY <1>1, <1>2, <1>3, <1>5 DEF Sound, qs

LEMMA FrontIs ==
  ASSUME NEW T, NEW s \in Seq(T), Len(s) > 1
  PROVE  /\ Front(s) \in Seq(T) /\ Len(Front(s)) = Len(s) - 1
         /\ \A i \in 1 .. Len(s) - 1 : Front(s)[i] = s[i]
<1> DEFINE n == Len(s) - 1
<1>1. n \in 0 .. Len(s) /\ n \in Nat
  OBVIOUS
<1>2. Front(s) = SubSeq(s, 1, n)
  BY DEF Front
<1> HIDE DEF n
<1>3. SubSeq(s, 1, n) \in Seq(T) /\ Len(SubSeq(s, 1, n)) = n
      /\ \A i \in 1 .. n : SubSeq(s, 1, n)[i] = s[i]
  BY <1>1
<1> QED
  BY <1>2, <1>3 DEF n

LEMMA DropsLast ==
  ASSUME RowsOK, NEW K, K \subseteq visible, NEW ps, Sound(ps, K), Len(ps) > 1
  PROVE  Sound(Front(ps), K)
<1> DEFINE qs == Front(ps)
           n == Len(ps)
           p == ps[n - 1]
           q == ps[n]
<1>1. /\ ps \in Seq(PageType) /\ qs \in Seq(PageType) /\ n \in Nat
      /\ Len(qs) = n - 1 /\ qs # <<>> /\ DOMAIN qs = 1 .. n - 1 /\ DOMAIN ps = 1 .. n
      /\ \A i \in 1 .. n - 1 : qs[i] = ps[i]
      /\ \A i \in 1 .. n : ps[i] \in PageType
  <2>1. ps \in Seq(PageType) /\ n \in Nat /\ DOMAIN ps = 1 .. n /\ \A i \in 1 .. n : ps[i] \in PageType
    BY DEF Sound
  <2>2. qs \in Seq(PageType) /\ Len(qs) = n - 1 /\ \A i \in 1 .. n - 1 : qs[i] = ps[i]
    BY <2>1, FrontIs
  <2> HIDE DEF qs
  <2> QED
    BY <2>1, <2>2
<1> HIDE DEF qs
<1>2. \A i \in 1 .. n - 1 : PageOK(qs[i], K)
  BY <1>1 DEF Sound
<1>3. \A i \in 1 .. Len(qs) - 1 : Joined(qs[i], qs[i + 1])
  <2> SUFFICES ASSUME NEW i \in 1 .. Len(qs) - 1 PROVE Joined(qs[i], qs[i + 1])
    OBVIOUS
  <2>1. i \in 1 .. n - 1 /\ i + 1 \in 1 .. n - 1
    BY <1>1
  <2>2. qs[i] = ps[i] /\ qs[i + 1] = ps[i + 1]
    BY <1>1, <2>1
  <2> QED
    BY <2>1, <2>2 DEF Sound
<1>4. /\ p \in PageType /\ q \in PageType /\ PageOK(p, K) /\ PageOK(q, K) /\ Joined(p, q)
      /\ qs[1] = ps[1] /\ qs[n - 1] = p
  <2>1. n - 1 \in 1 .. n - 1 /\ 1 \in 1 .. n - 1 /\ n \in 1 .. n /\ n - 1 \in 1 .. n /\ (n - 1) + 1 = n
    BY <1>1
  <2> QED
    BY <1>1, <2>1 DEF Sound
<1>5. ASSUME NEW r \in K PROVE Reaches(qs, r)
  <2>1. Spot(r) \in Spots
    BY SpotType DEF RowsOK
  <2>2. ASSUME q.nodes # <<>>, Spot(r) = Head(q.nodes) \/ Above(Head(q.nodes), Spot(r))
        PROVE  Reaches(qs, r)
    <3>1. Under(p, r)
      BY <1>4, <2>1, <2>2, Ends, Order DEF Joined, Under
    <3> QED
      BY <1>1, <1>4, <3>1 DEF Reaches
  <2>3. CASE Shows(q, r)
    BY <1>4, <2>2, <2>3, Between
  <2>4. CASE \E i \in DOMAIN ps : i # n /\ Shows(ps[i], r)
    <3>1. PICK i \in 1 .. n : i # n /\ Shows(ps[i], r)
      BY <1>1, <2>4
    <3>2. i \in 1 .. n - 1 /\ qs[i] = ps[i]
      BY <1>1, <3>1
    <3> QED
      BY <1>1, <3>1, <3>2 DEF Reaches
  <2>5. CASE Over(ps[1], r)
    BY <1>4, <2>5 DEF Reaches
  <2>6. CASE Under(q, r)
    <3>1. q.nodes # <<>>
      BY <1>4, <2>6 DEF Under, Joined
    <3>2. /\ Above(Last(q.nodes), Spot(r)) /\ Head(q.nodes) \in Spots /\ Last(q.nodes) \in Spots
          /\ Head(q.nodes) = Last(q.nodes) \/ Above(Head(q.nodes), Last(q.nodes))
      BY <1>4, <2>6, <3>1, Ends, HeadAboveLast DEF Under
    <3>3. Above(Head(q.nodes), Spot(r))
      BY <2>1, <3>2, Order
    <3> QED
      BY <2>2, <3>1, <3>3
  <2> QED
    BY <2>3, <2>4, <2>5, <2>6 DEF Sound, Reaches
<1> QED
  BY <1>1, <1>2, <1>3, <1>5 DEF Sound, qs

\* Where a list offers more at its end, the next page adds to it.
LEMMA Appends ==
  ASSUME RowsOK, NEW K, K \subseteq visible, NEW ps, Sound(ps, K), Last(ps).next
  PROVE  Sound(Append(ps, Page(NextParam(Last(ps)))), K)
<1> DEFINE p == Last(ps)
           param == NextParam(p)
           q == Page(param)
           n == Len(ps)
           qs == Append(ps, q)
<1>1. /\ ps \in Seq(PageType) /\ n \in Nat \ {0} /\ DOMAIN ps = 1 .. n /\ p = ps[n]
      /\ p \in PageType /\ PageOK(p, K)
  BY DEF Sound, Last
<1>2. /\ p.nodes = <<>> => param = Start
      /\ p.nodes # <<>> => param = [kind |-> "after", at |-> Last(p.nodes), asOf |-> p.asOf]
  BY DEF NextParam
<1> HIDE DEF p, param
<1>3. /\ param \in Params /\ param.kind # "before" /\ \A r \in K : created[r] <= AsOf(param)
      /\ p.nodes # <<>> => param.kind = "after" /\ param.at = Last(p.nodes)
  <2>1. CASE p.nodes = <<>>
    BY <1>2, <2>1 DEF Params, Start, AsOf, RowsOK
  <2>2. CASE p.nodes # <<>>
    <3>1. Last(p.nodes) \in Spots /\ p.asOf \in Nat
      BY <1>1, <2>2, Ends DEF PageType
    <3>2. param \in Params
      BY <1>2, <2>2, <3>1 DEF Params
    <3>3. param.kind = "after" /\ param.at = Last(p.nodes) /\ AsOf(param) = p.asOf
      BY <1>2, <2>2 DEF AsOf
    <3> QED
      BY <1>1, <3>2, <3>3 DEF PageOK
  <2> QED
    BY <2>1, <2>2
<1>4. q \in PageType /\ PageOK(q, K)
  BY <1>3, PageFits
<1>5. Joined(p, q)
  <2>1. q.nodes = <<>> => ~q.next
    BY <1>3, PageIs
  <2>2. ASSUME p.nodes # <<>>
        PROVE  q.prev /\ (q.nodes # <<>> => Above(Last(p.nodes), Head(q.nodes)))
    <3>1. q.prev
      BY <1>3, <2>2, PageIs
    <3>2. ASSUME q.nodes # <<>> PROVE Above(Last(p.nodes), Head(q.nodes))
      <4>1. Len(q.nodes) \in Nat \ {0} /\ DOMAIN q.nodes = 1 .. Len(q.nodes) /\ Head(q.nodes) = q.nodes[1]
        BY <1>4, <3>2 DEF PageType
      <4>2. Head(q.nodes) \in Matches(param)
        BY <1>3, <4>1, PageIs
      <4> QED
        BY <1>3, <2>2, <4>2 DEF Matches, CursorAt
    <3> QED
      BY <3>1, <3>2
  <2> QED
    BY <2>1, <2>2 DEF Joined, p
<1> HIDE DEF q
<1>6. /\ qs \in Seq(PageType) /\ Len(qs) = n + 1 /\ DOMAIN qs = 1 .. n + 1 /\ qs # <<>>
      /\ \A i \in 1 .. n : qs[i] = ps[i]
      /\ qs[n + 1] = q
  BY <1>1, <1>4
<1> HIDE DEF qs
<1>7. ASSUME NEW i \in 1 .. n + 1 PROVE PageOK(qs[i], K)
  <2>1. CASE i = n + 1
    BY <1>4, <1>6, <2>1
  <2>2. CASE i # n + 1
    BY <1>1, <1>6, <2>2 DEF Sound
  <2> QED
    BY <2>1, <2>2
<1>8. ASSUME NEW i \in 1 .. Len(qs) - 1 PROVE Joined(qs[i], qs[i + 1])
  <2>1. CASE i = n
    BY <1>1, <1>5, <1>6, <2>1
  <2>2. CASE i # n
    <3>1. Len(qs) - 1 = n
      BY <1>1, <1>6
    <3>2. i \in 1 .. n
      BY <3>1
    <3> HIDE DEF n
    <3>3. i \in 1 .. n - 1 /\ i + 1 \in 1 .. n
      BY <1>1, <2>2, <3>2
    <3> QED
      BY <1>6, <3>2, <3>3 DEF Sound, n
  <2> QED
    BY <2>1, <2>2
<1>9. ASSUME NEW r \in K PROVE Reaches(qs, r)
  <2>1. Spot(r) \in Spots /\ r \in visible /\ created[r] <= AsOf(param)
    BY <1>3, SpotType DEF RowsOK
  <2>2. CASE \E i \in DOMAIN ps : Shows(ps[i], r)
    <3>1. PICK i \in 1 .. n : Shows(ps[i], r)
      BY <1>1, <2>2
    <3>2. i \in 1 .. n + 1 /\ qs[i] = ps[i]
      BY <1>1, <1>6
    <3> QED
      BY <1>6, <3>1, <3>2 DEF Reaches
  <2>3. CASE Over(ps[1], r)
    BY <1>1, <1>6, <2>3 DEF Reaches
  <2>4. CASE Under(p, r)
    <3>1. Shows(q, r) \/ Under(q, r)
      <4>1. param.kind = "after" => p.nodes # <<>>
        BY <1>2 DEF Start
      <4>2. param.kind = "after" => Above(param.at, Spot(r))
        BY <1>3, <2>4, <4>1 DEF Under
      <4> QED
        BY <1>3, <2>1, <4>2, Finds DEF q
    <3>2. n + 1 \in 1 .. n + 1
      BY <1>1
    <3> QED
      BY <1>6, <3>1, <3>2 DEF Reaches
  <2> QED
    BY <1>1, <2>2, <2>3, <2>4 DEF Sound, Reaches
<1> QED
  BY <1>6, <1>7, <1>8, <1>9 DEF Sound, qs, q, param, p

\* Where a list that begins with rows offers more there, the previous page adds to it.
LEMMA Prepends ==
  ASSUME RowsOK, NEW K, K \subseteq visible, NEW ps, Sound(ps, K), Head(ps).prev, Head(ps).nodes # <<>>
  PROVE  Sound(<<Page(PreviousParam(Head(ps)))>> \o ps, K)
<1> DEFINE p == Head(ps)
           param == PreviousParam(p)
           q == Page(param)
           n == Len(ps)
           qs == <<q>> \o ps
<1>1. /\ ps \in Seq(PageType) /\ n \in Nat \ {0} /\ DOMAIN ps = 1 .. n /\ p = ps[1]
      /\ p \in PageType /\ PageOK(p, K)
  BY DEF Sound
<1>2. param = [kind |-> "before", at |-> Head(p.nodes), asOf |-> p.asOf]
  BY DEF PreviousParam
<1>3. Head(p.nodes) \in Spots /\ p.asOf \in Nat /\ p.prev /\ p.nodes # <<>>
  BY <1>1, Ends DEF PageType
<1> HIDE DEF p, param
<1>4. /\ param \in Params /\ param.kind = "before" /\ \A r \in K : created[r] <= AsOf(param)
      /\ param.at = Head(p.nodes)
  <2>1. AsOf(param) = p.asOf
    BY <1>2 DEF AsOf
  <2> QED
    BY <1>1, <1>2, <1>3, <2>1 DEF Params, PageOK
<1>5. q \in PageType /\ PageOK(q, K)
  BY <1>4, PageFits
<1>6. Joined(q, p)
  <2>1. q.next
    BY <1>4, PageIs
  <2>2. ASSUME q.nodes # <<>> PROVE Above(Last(q.nodes), Head(p.nodes))
    <3>1. Len(q.nodes) \in DOMAIN q.nodes /\ Last(q.nodes) = q.nodes[Len(q.nodes)]
      BY <1>5, <2>2 DEF PageType, Last
    <3>2. Last(q.nodes) \in Matches(param)
      BY <1>4, <3>1, PageIs
    <3> QED
      BY <1>4, <3>2 DEF Matches, CursorAt
  <2> QED
    BY <1>3, <2>1, <2>2 DEF Joined
<1> HIDE DEF q
<1>7. /\ qs \in Seq(PageType) /\ Len(qs) = n + 1 /\ DOMAIN qs = 1 .. n + 1 /\ qs # <<>>
      /\ \A i \in 1 .. n : qs[i + 1] = ps[i]
      /\ qs[1] = q
  BY <1>1, <1>5
<1> HIDE DEF qs
<1>8. \A i \in 2 .. n + 1 : i - 1 \in 1 .. n /\ qs[i] = ps[i - 1]
  <2> SUFFICES ASSUME NEW i \in 2 .. n + 1 PROVE i - 1 \in 1 .. n /\ qs[i] = ps[i - 1]
    OBVIOUS
  <2>1. i - 1 \in 1 .. n /\ (i - 1) + 1 = i
    BY <1>1
  <2> QED
    BY <1>7, <2>1
<1>9. ASSUME NEW i \in 1 .. n + 1 PROVE PageOK(qs[i], K)
  <2>1. CASE i = 1
    BY <1>5, <1>7, <2>1
  <2>2. CASE i \in 2 .. n + 1
    BY <1>1, <1>8, <2>2 DEF Sound
  <2> QED
    BY <1>1, <2>1, <2>2
<1>10. ASSUME NEW i \in 1 .. Len(qs) - 1 PROVE Joined(qs[i], qs[i + 1])
  <2>1. CASE i = 1
    <3>1. 1 \in 1 .. n /\ qs[1 + 1] = ps[1]
      BY <1>1, <1>7
    <3> QED
      BY <1>1, <1>6, <1>7, <2>1, <3>1
  <2>2. CASE i \in 2 .. n
    <3>1. i - 1 \in 1 .. n - 1 /\ i \in 1 .. n /\ i \in 2 .. n + 1 /\ (i - 1) + 1 = i
      BY <1>1, <2>2
    <3>2. qs[i] = ps[i - 1] /\ qs[i + 1] = ps[i]
      BY <1>7, <1>8, <3>1
    <3>3. Joined(ps[i - 1], ps[(i - 1) + 1])
      BY <3>1 DEF Sound
    <3> QED
      BY <3>1, <3>2, <3>3
  <2> QED
    BY <1>1, <1>7, <2>1, <2>2
<1>11. ASSUME NEW r \in K PROVE Reaches(qs, r)
  <2>1. Spot(r) \in Spots /\ r \in visible /\ created[r] <= AsOf(param)
    BY <1>4, SpotType DEF RowsOK
  <2>2. CASE \E i \in DOMAIN ps : Shows(ps[i], r)
    <3>1. PICK i \in 1 .. n : Shows(ps[i], r)
      BY <1>1, <2>2
    <3>2. i + 1 \in 1 .. n + 1 /\ qs[i + 1] = ps[i]
      BY <1>1, <1>7
    <3> QED
      BY <1>7, <3>1, <3>2 DEF Reaches
  <2>3. CASE Over(p, r)
    <3>1. Shows(q, r) \/ Over(q, r)
      <4>1. Above(Spot(r), param.at)
        BY <1>3, <1>4, <2>3 DEF Over
      <4> QED
        BY <1>4, <2>1, <4>1, Finds DEF q
    <3>2. 1 \in 1 .. n + 1
      BY <1>1
    <3> QED
      BY <1>7, <3>1, <3>2 DEF Reaches
  <2>4. CASE Under(ps[n], r)
    <3>1. qs[n + 1] = ps[n]
      BY <1>1, <1>7
    <3> QED
      BY <1>7, <2>4, <3>1 DEF Reaches
  <2> QED
    BY <1>1, <2>2, <2>3, <2>4 DEF Sound, Reaches
<1> QED
  BY <1>7, <1>9, <1>10, <1>11 DEF Sound, qs, q, param, p

\* A page alone skips nothing, whatever it was asked for.
LEMMA Single ==
  ASSUME RowsOK, NEW K, K \subseteq visible, NEW param \in Params, \A r \in K : created[r] <= AsOf(param)
  PROVE  Sound(<<Page(param)>>, K)
<1> DEFINE q == Page(param)
<1>1. q \in PageType /\ PageOK(q, K)
  BY PageFits
<1>2. ASSUME NEW r \in K PROVE Shows(q, r) \/ Over(q, r) \/ Under(q, r)
  <2>1. Spot(r) \in Spots /\ r \in visible
    BY SpotType DEF RowsOK
  <2>2. param.kind # "start" => param.at \in Spots
    BY DEF Params, Start
  <2>3. param.kind \in {"after", "before", "start"}
    BY DEF Params, Start
  <2>4. CASE param.kind = "after" /\ ~Above(param.at, Spot(r))
    <3>1. q.prev
      BY <2>4, PageIs
    <3>2. ASSUME q.nodes # <<>> PROVE Above(Spot(r), Head(q.nodes))
      <4>1. 1 \in DOMAIN q.nodes /\ Head(q.nodes) = q.nodes[1] /\ Head(q.nodes) \in Spots
        BY <1>1, <3>2, Ends DEF PageType
      <4>2. Head(q.nodes) \in Matches(param)
        BY <4>1, PageIs
      <4>3. Above(param.at, Head(q.nodes))
        BY <2>4, <4>2 DEF Matches, CursorAt
      <4> QED
        BY <2>1, <2>2, <2>4, <4>1, <4>3, Order
    <3> QED
      BY <3>1, <3>2 DEF Over
  <2>5. CASE param.kind = "before" /\ ~Above(Spot(r), param.at)
    <3>1. q.next
      BY <2>5, PageIs
    <3>2. ASSUME q.nodes # <<>> PROVE Above(Last(q.nodes), Spot(r))
      <4>1. /\ Len(q.nodes) \in DOMAIN q.nodes /\ Last(q.nodes) = q.nodes[Len(q.nodes)]
            /\ Last(q.nodes) \in Spots
        BY <1>1, <3>2, Ends DEF PageType, Last
      <4>2. Last(q.nodes) \in Matches(param)
        BY <4>1, PageIs
      <4>3. Above(Last(q.nodes), param.at)
        BY <2>5, <4>2 DEF Matches, CursorAt
      <4> QED
        BY <2>1, <2>2, <2>5, <4>1, <4>3, Order
    <3> QED
      BY <3>1, <3>2 DEF Under
  <2> QED
    BY <2>1, <2>3, <2>4, <2>5, Finds
<1> HIDE DEF q
<1>3. <<q>> \in Seq(PageType) /\ Len(<<q>>) = 1 /\ <<q>>[1] = q /\ DOMAIN <<q>> = {1} /\ <<q>> # <<>>
  BY <1>1
<1> QED
  BY <1>1, <1>2, <1>3 DEF Sound, Reaches, q

-----------------------------------------------------------------------------
(* The list of the client. *)

Refetching ==
    /\ refresh.kept \subseteq visible /\ pages # <<>>
    /\ refresh.got = <<>> => refresh.kept = kept /\ Len(pages) > 0
    /\ refresh.got # <<>> => /\ Sound(refresh.got, refresh.kept)
                             /\ NextParam(Last(refresh.got)) # NoParam

IInv ==
    /\ RowsOK
    /\ DOMAIN refresh = {"todo", "got", "kept", "there"}
    /\ kept \subseteq visible
    /\ pages = <<>> => kept = {}
    /\ pages # <<>> => Sound(pages, kept) \/ Stuck(pages)
    /\ ~AtRest => Refetching

\* Rows that stay where they are keep a list sound.
LEMMA StepPages ==
  ASSUME NEW ps, NEW K, Sound(ps, K), pages' = ps, kept' \subseteq K, list' = list,
         \A r \in kept' : key'[r] = key[r] /\ created'[r] = created[r]
  PROVE  Sound(pages, kept)'
<1>1. \A a, b : Above(a, b)' <=> Above(a, b)
  BY DEF Above, Less
<1>2. \A r \in kept' : Spot(r)' = Spot(r) /\ created'[r] = created[r] /\ r \in K
  BY DEF Spot
<1>3. \A p : PageOK(p, K) => PageOK(p, kept)'
  BY <1>1, <1>2 DEF PageOK
<1> QED
  BY <1>1, <1>2, <1>3 DEF Sound, Joined, Reaches, Over, Under, Shows

LEMMA StepGot ==
  ASSUME NEW ps, NEW K, Sound(ps, K), refresh'.got = ps, refresh'.kept \subseteq K, list' = list,
         \A r \in refresh'.kept : key'[r] = key[r] /\ created'[r] = created[r]
  PROVE  Sound(refresh.got, refresh.kept)'
<1>1. \A a, b : Above(a, b)' <=> Above(a, b)
  BY DEF Above, Less
<1>2. \A r \in refresh'.kept : Spot(r)' = Spot(r) /\ created'[r] = created[r] /\ r \in K
  BY DEF Spot
<1>3. \A p : PageOK(p, K) => PageOK(p, refresh.kept)'
  BY <1>1, <1>2 DEF PageOK
<1> QED
  BY <1>1, <1>2, <1>3 DEF Sound, Joined, Reaches, Over, Under, Shows

\* The rows are written, one at a time; the list is not touched.
LEMMA StepRows ==
  ASSUME IInv, RowsOK', UNCHANGED <<list, pages>>, visible \subseteq visible',
         kept' \subseteq kept,
         \A r \in kept' \cup refresh'.kept : r \in visible => key'[r] = key[r] /\ created'[r] = created[r],
         DOMAIN refresh' = DOMAIN refresh, refresh'.got = refresh.got,
         refresh'.kept \subseteq refresh.kept, ~AtRest' => ~AtRest,
         refresh.kept = kept => refresh'.kept = kept' \/ AtRest'
  PROVE  IInv'
<1>1. pages # <<>> => Sound(pages, kept)' \/ Stuck(pages)'
  <2>1. CASE Sound(pages, kept)
    BY <2>1, StepPages DEF IInv
  <2>2. CASE Stuck(pages)
    BY <2>2 DEF Stuck
  <2> QED
    BY <2>1, <2>2 DEF IInv
<1>2. ASSUME ~AtRest' PROVE Refetching'
  <2>1. Refetching
    BY <1>2 DEF IInv
  <2>2. refresh.got # <<>> => Sound(refresh.got, refresh.kept)'
    BY <2>1, StepGot DEF Refetching
  <2> QED
    BY <1>2, <2>1, <2>2 DEF Refetching, NextParam, NoParam
<1> QED
  BY <1>1, <1>2 DEF IInv

LEMMA AddRowKeeps == ASSUME IInv, NEW r \in Rows, NEW t \in Times, AddRow(r, t) PROVE IInv'
<1>1. PICK k \in Nat : key' = [key EXCEPT ![r] = k]
  <2>1. Times \subseteq Nat
    BY DEF Times
  <2>2. \E k \in (IF list.sort = "NAME" THEN Times ELSE {t}) : key' = [key EXCEPT ![r] = k]
    BY DEF AddRow
  <2> QED
    BY <2>1, <2>2
<1>2. t \in Nat /\ t <= now /\ r \notin visible /\ visible' = visible \cup {r}
      /\ created' = [created EXCEPT ![r] = t] /\ UNCHANGED <<now, list, pages, refresh, kept>>
  BY DEF AddRow, Times
<1>3. RowsOK'
  <2>1. IsFiniteSet(visible')
    BY <1>2, FS_AddElement DEF IInv, RowsOK
  <2> QED
    BY <1>1, <1>2, <2>1 DEF IInv, RowsOK
<1>4. \A q \in visible : key'[q] = key[q] /\ created'[q] = created[q]
  BY <1>1, <1>2 DEF IInv, RowsOK
<1> QED
  BY <1>2, <1>3, <1>4, StepRows DEF AtRest

LEMMA EditKeeps == ASSUME IInv, NEW r \in Rows, NEW k \in Times, Edit(r, k) PROVE IInv'
<1>1. k \in Nat /\ key' = [key EXCEPT ![r] = k] /\ kept' = kept \ {r}
      /\ UNCHANGED <<now, visible, created, list, pages>>
  BY DEF Edit, Times
<1>2. RowsOK'
  BY <1>1 DEF IInv, RowsOK
<1>3. \A q \in visible \ {r} : key'[q] = key[q] /\ created'[q] = created[q]
  BY <1>1 DEF IInv, RowsOK
<1>4. CASE AtRest
  <2>1. refresh' = refresh /\ refresh.kept = {}
    BY <1>4 DEF Edit, AtRest, NoRefresh
  <2> QED
    BY <1>1, <1>2, <1>3, <1>4, <2>1, StepRows DEF AtRest
<1>5. CASE ~AtRest
  <2>1. /\ DOMAIN refresh' = DOMAIN refresh /\ refresh'.got = refresh.got
        /\ refresh'.kept = refresh.kept \ {r}
    BY <1>5 DEF Edit, IInv
  <2> QED
    BY <1>1, <1>2, <1>3, <1>5, <2>1, StepRows
<1> QED
  BY <1>4, <1>5

LEMMA TimePassesKeeps == ASSUME IInv, TimePasses PROVE IInv'
<1>1. now' = now + 1 /\ UNCHANGED <<visible, created, key, list, pages, refresh, kept>>
  BY DEF TimePasses
<1>2. RowsOK'
  <2>1. \A r \in visible : created[r] \in Nat
    BY DEF IInv, RowsOK
  <2> QED
    BY <1>1, <2>1 DEF IInv, RowsOK
<1> QED
  BY <1>1, <1>2, StepRows DEF AtRest

\* The pages change, not the rows.
LEMMA StepList ==
  ASSUME IInv, UNCHANGED <<rowVars, list>>, NEW ps, NEW K, Sound(ps, K), K \subseteq visible,
         pages' = ps, kept' = K, AtRest', DOMAIN refresh' = DOMAIN refresh
  PROVE  IInv'
<1>1. Sound(pages, kept)'
  BY StepPages DEF rowVars
<1>2. RowsOK' /\ pages' # <<>>
  BY DEF IInv, RowsOK, rowVars, Sound
<1> QED
  BY <1>1, <1>2 DEF IInv, rowVars

LEMMA OpenKeeps == ASSUME IInv, Open PROVE IInv'
<1>1. Start \in Params /\ AsOf(Start) = now
  BY DEF Params, Start, AsOf
<1>2. Sound(<<Page(Start)>>, visible)
  BY <1>1, Single DEF IInv, RowsOK
<1> QED
  BY <1>2, StepList DEF Open, AtRest

LEMMA FetchNextKeeps == ASSUME IInv, FetchNext PROVE IInv'
<1> DEFINE all == Append(pages, Page(NextParam(Last(pages))))
<1>1. Last(pages).next /\ pages # <<>>
  BY DEF FetchNext, NextParam
<1>2. Sound(pages, kept)
  <2>1. ~Stuck(pages)
    BY <1>1 DEF Stuck, Last
  <2> QED
    BY <1>1, <2>1 DEF IInv
<1>3. Sound(all, kept)
  BY <1>1, <1>2, Appends DEF IInv
<1>4. pages' = (IF Len(all) > MaxPages THEN Tail(all) ELSE all) /\ UNCHANGED <<rowVars, list, refresh, kept>> /\ AtRest'
  BY DEF FetchNext, AtRest
<1> HIDE DEF all
<1>5. CASE Len(all) > MaxPages
  <2>1. Len(all) > 1
    <3>1. Len(all) \in Nat
      BY <1>3 DEF Sound
    <3> QED
      BY <1>5, <3>1, Assumed
  <2>2. Sound(Tail(all), kept)
    BY <1>3, <2>1, DropsFirst DEF IInv
  <2> QED
    BY <1>4, <1>5, <2>2, StepList DEF IInv
<1>6. CASE ~(Len(all) > MaxPages)
  BY <1>3, <1>4, <1>6, StepList DEF IInv
<1> QED
  BY <1>5, <1>6

LEMMA FetchPreviousKeeps == ASSUME IInv, FetchPrevious PROVE IInv'
<1> DEFINE param == PreviousParam(Head(pages))
           all == <<Page(param)>> \o pages
<1>1. Head(pages).prev /\ pages # <<>>
  BY DEF FetchPrevious, PreviousParam
<1>2. Sound(pages, kept)
  <2>1. ~Stuck(pages)
    BY <1>1 DEF Stuck
  <2> QED
    BY <1>1, <2>1 DEF IInv
<1>3. pages' = (IF Len(all) > MaxPages THEN Front(all) ELSE all) /\ UNCHANGED <<rowVars, list, refresh, kept>> /\ AtRest'
  BY DEF FetchPrevious, AtRest
<1>4. CASE Head(pages).nodes # <<>>
  <2>1. Sound(all, kept)
    BY <1>1, <1>2, <1>4, Prepends DEF IInv
  <2> HIDE DEF all
  <2>2. CASE Len(all) > MaxPages
    <3>1. Len(all) > 1
      <4>1. Len(all) \in Nat
        BY <2>1 DEF Sound
      <4> QED
        BY <2>2, <4>1, Assumed
    <3>2. Sound(Front(all), kept)
      BY <2>1, <3>1, DropsLast DEF IInv
    <3> QED
      BY <1>3, <2>2, <3>2, StepList DEF IInv
  <2>3. CASE ~(Len(all) > MaxPages)
    BY <1>3, <2>1, <2>3, StepList DEF IInv
  <2> QED
    BY <2>2, <2>3
<1>5. CASE Head(pages).nodes = <<>>
  <2>1. /\ pages \in Seq(PageType) /\ Len(pages) \in Nat \ {0} /\ Head(pages) = pages[1]
        /\ pages[1] \in PageType /\ PageOK(pages[1], kept)
    BY <1>2 DEF Sound
  <2>2. ~pages[1].next
    BY <1>1, <1>5, <2>1 DEF PageOK, PageType
  <2>3. Len(pages) = 1
    <3>1. ASSUME Len(pages) # 1 PROVE 1 \in 1 .. Len(pages) - 1
      <4>1. Len(pages) \in Nat /\ Len(pages) # 0
        BY <2>1
      <4>2. \A n \in Nat : n # 0 /\ n # 1 => 1 \in 1 .. n - 1
        OBVIOUS
      <4> QED
        BY <3>1, <4>1, <4>2
    <3> QED
      BY <1>2, <2>2, <3>1 DEF Sound, Joined
  <2>4. param = Start
    BY <1>1, <1>5 DEF PreviousParam
  <2>5. Start \in Params /\ AsOf(Start) = now
    BY DEF Params, Start, AsOf
  <2> DEFINE first == Page(Start)
  <2>6. /\ Sound(<<first>>, kept) /\ first \in PageType /\ first.param = Start /\ ~first.prev
    <3>1. \A r \in kept : created[r] <= AsOf(Start)
      BY <2>5 DEF IInv, RowsOK
    <3>2. Sound(<<first>>, kept)
      BY <2>5, <3>1, Single DEF IInv
    <3>3. first \in PageType
      BY <2>5, <3>1, PageFits DEF IInv
    <3>4. first.param = Start /\ ~first.prev
      BY <2>5, PageIs DEF IInv, Start
    <3> QED
      BY <3>2, <3>3, <3>4
  <2>7. all = <<first>> \o pages
    BY <2>4
  <2> HIDE DEF first, all, param
  <2>8. all \in Seq(PageType) /\ Len(all) = 2 /\ all[1] = first /\ all[2] = pages[1]
    <3>1. <<first>> \in Seq(PageType) /\ Len(<<first>>) = 1
      BY <2>6
    <3>2. /\ all \in Seq(PageType) /\ Len(all) = 1 + Len(pages) /\ all[1] = first
          /\ \A i \in 1 .. Len(pages) : all[i + 1] = pages[i]
      BY <2>1, <2>6, <2>7, <3>1
    <3>3. all[1 + 1] = pages[1]
      BY <2>3, <3>2
    <3> QED
      BY <2>3, <3>2, <3>3
  <2>9. CASE Len(all) > MaxPages
    <3>1. Front(all) = <<first>>
      <4>1. Front(all) \in Seq(PageType) /\ Len(Front(all)) = 1 /\ Front(all)[1] = first
        <5>1. Len(all) > 1 /\ Len(all) - 1 = 1 /\ 1 \in 1 .. 1
          BY <2>8
        <5> QED
          BY <2>8, <5>1, FrontIs
      <4> QED
        BY <4>1
    <3> QED
      BY <1>3, <2>6, <2>9, <3>1, StepList DEF IInv
  <2>10. CASE ~(Len(all) > MaxPages)
    <3>1. pages' = all /\ pages' # <<>>
      <4>1. all # <<>>
        BY <2>8
      <4> QED
        BY <1>3, <2>10, <4>1
    <3>2. Stuck(pages)'
      <4>1. all[2].nodes = <<>> /\ ~all[2].next /\ all[1].param = Start /\ ~all[1].prev
        BY <1>5, <2>1, <2>2, <2>6, <2>8
      <4> QED
        BY <2>8, <3>1, <4>1 DEF Stuck
    <3> QED
      BY <1>3, <3>1, <3>2 DEF IInv, RowsOK, rowVars
  <2> QED
    BY <2>9, <2>10
<1> QED
  BY <1>4, <1>5

LEMMA RefreshKeeps == ASSUME IInv, Refresh PROVE IInv'
<1>1. /\ UNCHANGED <<rowVars, list, pages, kept>> /\ pages # <<>>
      /\ refresh'.got = <<>> /\ refresh'.kept = kept /\ DOMAIN refresh' = {"todo", "got", "kept", "there"}
  BY DEF Refresh
<1>2. Refetching'
  <2>1. pages # <<>> /\ kept \subseteq visible
    BY <1>1 DEF IInv
  <2>2. Len(pages) > 0
    BY <2>1 DEF IInv, Sound, Stuck
  <2> QED
    BY <1>1, <2>1, <2>2 DEF Refetching, rowVars
<1>3. Sound(pages, kept) => Sound(pages, kept)'
  BY <1>1, StepPages DEF rowVars
<1> QED
  BY <1>1, <1>2, <1>3 DEF IInv, RowsOK, rowVars, Stuck

LEMMA RefreshFailsKeeps == ASSUME IInv, RefreshFails PROVE IInv'
<1>1. /\ UNCHANGED <<rowVars, list, pages, kept>> /\ AtRest'
      /\ DOMAIN refresh' = {"todo", "got", "kept", "there"}
  BY DEF RefreshFails, AtRest, NoRefresh
<1>2. Sound(pages, kept) => Sound(pages, kept)'
  BY <1>1, StepPages DEF rowVars
<1> QED
  BY <1>1, <1>2 DEF IInv, RowsOK, rowVars, Stuck

LEMMA RefreshPageKeeps == ASSUME IInv, RefreshPage PROVE IInv'
<1> DEFINE page == Page(RefreshParam)
           got == Append(refresh.got, page)
           anew == refresh.got = <<>> /\ RefreshParam = Start
           known == IF anew THEN visible ELSE refresh.kept
<1>1. Refetching /\ UNCHANGED <<rowVars, list>>
  BY DEF RefreshPage, IInv
<1>2. known \subseteq visible
  BY <1>1 DEF Refetching
<1>3. Sound(got, known)
  <2>1. CASE refresh.got = <<>>
    <3>1. RefreshParam = Head(pages).param /\ got = <<page>>
      BY <2>1 DEF RefreshParam
    <3>2. RefreshParam \in Params /\ \A r \in known : created[r] <= AsOf(RefreshParam)
      <4>1. CASE RefreshParam = Start
        <5>1. AsOf(Start) = now /\ Start \in Params
          BY DEF AsOf, Start, Params
        <5> QED
          BY <1>2, <4>1, <5>1 DEF IInv, RowsOK
      <4>2. CASE RefreshParam # Start
        <5>1. pages # <<>> /\ known = kept
          BY <1>1, <2>1, <4>2 DEF Refetching
        <5>2. Sound(pages, kept)
          BY <3>1, <4>2, <5>1 DEF IInv, Stuck
        <5>3. pages[1] \in PageType /\ PageOK(pages[1], kept) /\ Head(pages) = pages[1]
          BY <5>2 DEF Sound
        <5>4. RefreshParam \in Params /\ RefreshParam.kind # "start"
          BY <3>1, <4>2, <5>3 DEF PageType, Params
        <5>5. AsOf(RefreshParam) = pages[1].asOf
          BY <3>1, <4>2, <5>3, <5>4 DEF PageOK, AsOf
        <5> QED
          BY <5>1, <5>3, <5>4, <5>5 DEF PageOK
      <4> QED
        BY <4>1, <4>2
    <3> HIDE DEF known
    <3> QED
      BY <1>2, <3>1, <3>2, Single DEF IInv
  <2>2. CASE refresh.got # <<>>
    <3>1. /\ Sound(refresh.got, refresh.kept) /\ known = refresh.kept
          /\ RefreshParam = NextParam(Last(refresh.got)) /\ Last(refresh.got).next
      BY <1>1, <2>2 DEF Refetching, RefreshParam, NextParam
    <3> QED
      BY <1>2, <3>1, Appends DEF IInv
  <2> QED
    BY <2>1, <2>2
<1>4. Last(got) = page /\ got # <<>>
  <2>1. refresh.got \in Seq(PageType)
    <3>1. CASE refresh.got = <<>>
      BY <3>1
    <3>2. CASE refresh.got # <<>>
      BY <1>1, <3>2 DEF Refetching, Sound
    <3> QED
      BY <3>1, <3>2
  <2>2. Len(got) = Len(refresh.got) + 1 /\ got[Len(refresh.got) + 1] = page
    <3> HIDE DEF page
    <3> QED
      BY <2>1
  <2> HIDE DEF got
  <2> QED
    BY <1>3, <2>2 DEF Last, Sound
<1>5. \/ pages' = got /\ refresh' = NoRefresh /\ kept' = known
      \/ /\ refresh' = [refresh EXCEPT !.got = got, !.kept = known]
         /\ UNCHANGED <<pages, kept>> /\ NextParam(page) # NoParam
  BY DEF RefreshPage
<1> HIDE DEF got, known, page
<1>6. CASE pages' = got /\ refresh' = NoRefresh /\ kept' = known
  <2>1. AtRest' /\ DOMAIN refresh' = DOMAIN refresh
    BY <1>6 DEF AtRest, NoRefresh, IInv
  <2> QED
    BY <1>1, <1>2, <1>3, <1>6, <2>1, StepList
<1>7. CASE /\ refresh' = [refresh EXCEPT !.got = got, !.kept = known]
           /\ UNCHANGED <<pages, kept>> /\ NextParam(page) # NoParam
  <2>1. refresh'.got = got /\ refresh'.kept = known /\ DOMAIN refresh' = DOMAIN refresh
    BY <1>7 DEF IInv
  <2>2. Sound(refresh.got, refresh.kept)'
    BY <1>1, <1>3, <2>1, StepGot DEF rowVars
  <2>3. Refetching'
    BY <1>1, <1>2, <1>4, <1>7, <2>1, <2>2 DEF Refetching, rowVars, NextParam, NoParam
  <2>4. Sound(pages, kept) => Sound(pages, kept)'
    BY <1>1, <1>7, StepPages DEF rowVars
  <2> QED
    BY <1>1, <1>7, <2>1, <2>3, <2>4 DEF IInv, RowsOK, rowVars, Stuck
<1> QED
  BY <1>5, <1>6, <1>7

LEMMA PagingStarts == PagingInit => IInv
<1> SUFFICES ASSUME PagingInit PROVE IInv
  OBVIOUS
<1>1. RowsOK
  BY FS_EmptySet DEF PagingInit, RowsOK
<1>2. AtRest /\ DOMAIN refresh = {"todo", "got", "kept", "there"}
  BY DEF PagingInit, AtRest, NoRefresh
<1> QED
  BY <1>1, <1>2 DEF PagingInit, IInv

LEMMA PagingKeeps == IInv /\ [PagingNext]_pagingVars => IInv'
<1> SUFFICES ASSUME IInv, [PagingNext]_pagingVars PROVE IInv'
  OBVIOUS
<1>1. CASE UNCHANGED pagingVars
  BY <1>1, StepRows DEF pagingVars, rowVars, AtRest, IInv, RowsOK
<1> QED
  BY <1>1, OpenKeeps, FetchNextKeeps, FetchPreviousKeeps, RefreshKeeps, RefreshPageKeeps,
     RefreshFailsKeeps, AddRowKeeps, EditKeeps, TimePassesKeeps DEF PagingNext

LEMMA PagingInvariance == PagingSpec => []IInv
BY PagingStarts, PagingKeeps, PTL DEF PagingSpec

\* A row that was there when the list was opened and did not move since is in reach.
THEOREM NoRowSkipped == PagingSpec => []NothingIsSkipped
<1>1. IInv => NothingIsSkipped
  <2> SUFFICES ASSUME IInv, Len(pages) > 1 => \A i \in DOMAIN pages : pages[i].nodes # <<>>,
                      NEW r \in kept, pages # <<>>
               PROVE  InReach(r)
    BY DEF NothingIsSkipped, InReach
  <2>1. ~Stuck(pages)
    BY DEF Stuck
  <2>2. Sound(pages, kept) /\ Reaches(pages, r) /\ Head(pages) = pages[1] /\ Last(pages) = pages[Len(pages)]
    BY <2>1 DEF IInv, Sound, Last
  <2>3. ASSUME NEW i \in DOMAIN pages, Shows(pages[i], r) PROVE \E s \in Shown : s.id = r
    BY <2>3 DEF Shows, Shown, Range
  <2> QED
    BY <2>2, <2>3 DEF Reaches, InReach, Over, Under
<1> QED
  BY <1>1, PagingInvariance, PTL
===============================================================================
