----------------------- MODULE DashboardStreamProofs -----------------------
(***************************************************************************)
(* Safety of DashboardStream for every set of streams, every cap, every    *)
(* number of changes and faults.                                           *)
(***************************************************************************)
EXTENDS DashboardStream, FiniteSetTheorems, TLAPS

\* Revisions are ordered along their way: what was heard was committed, what is
\* being read is no older than the cache, what is shown is no newer than it.
Ordered ==
    /\ messages \subseteq 1 .. rev
    /\ computing = "read" => cache <= reading
    /\ \A c \in Streams : shown[c] <= cache

IInv == TypeOK /\ Ordered /\ NothingMissed

\* What concerns revisions, and what a step may do to the snapshots shown.
Revisions == RevisionType /\ Ordered /\ NothingMissed
Forward == \A c \in Streams : shown[c] <= shown'[c]

LEMMA InitIInv == Init => IInv
<1> SUFFICES ASSUME Init PROVE IInv
  OBVIOUS
<1> USE StreamAssumption DEF Init
<1>1. Cardinality({}) = 0
  BY FS_EmptySet
<1>2. RevisionType
  <2>1. rev \in 1 .. MaxRev /\ 0 \in 0 .. rev
    BY DEF StreamAssumption
  <2>2. shown \in [Streams -> 0 .. rev]
    BY <2>1
  <2> QED
    BY <2>1, <2>2 DEF RevisionType
<1>3. StreamType
  <2>1. pc \in [Streams -> Points]
    BY DEF Points
  <2>2. Cardinality(leases) <= MaxStreams
    BY <1>1
  <2>3. 0 \in 0 .. MaxFaults
    BY DEF StreamAssumption
  <2>4. listening \cup beating = {}
    OBVIOUS
  <2> QED
    BY <2>1, <2>2, <2>3, <2>4 DEF StreamType
<1>4. Ordered /\ NothingMissed
  BY DEF Ordered, NothingMissed
<1> QED
  BY <1>2, <1>3, <1>4 DEF IInv, TypeOK

-----------------------------------------------------------------------------
(* Sending a snapshot no older than what any stream shows. *)

LEMMA Sending ==
  ASSUME TypeOK, NEW S \in SUBSET Streams, NEW A \in SUBSET Streams, NEW n \in 0 .. rev,
         \A c \in Streams : shown[c] <= n,
         Send(S, A, n)
  PROVE  /\ closed' \subseteq Streams
         /\ listening' \subseteq listening \cup S
         /\ beating' \subseteq beating \cup S
         /\ shown' \in [Streams -> 0 .. rev]
         /\ \A c \in Streams : shown[c] <= shown'[c] /\ shown'[c] <= n
<1> DEFINE R == {c \in A \ closed : shown[c] # n}
<1>1. PICK F \in Failing(S, R) :
        /\ closed' = closed \cup F
        /\ listening' = (listening \cup S) \ (F \ S)
        /\ beating' = (beating \cup S) \ (F \ S)
        /\ shown' = [c \in Streams |-> IF c \in S \cup R THEN n ELSE shown[c]]
  BY DEF Send
<1>2. F \subseteq S \cup R /\ R \subseteq A
  BY <1>1 DEF Failing
<1>3. shown \in [Streams -> 0 .. rev] /\ closed \subseteq Streams /\ rev \in Nat
  BY StreamAssumption DEF TypeOK, RevisionType, StreamType
<1> HIDE DEF R
<1>4. closed' \subseteq Streams /\ listening' \subseteq listening \cup S
      /\ beating' \subseteq beating \cup S
  BY <1>1, <1>2, <1>3
<1>5. \A c \in Streams : shown'[c] = n \/ shown'[c] = shown[c]
  BY <1>1
<1>6. shown' \in [Streams -> 0 .. rev]
  BY <1>1, <1>3
<1>7. \A c \in Streams : shown[c] <= shown'[c] /\ shown'[c] <= n
  BY <1>3, <1>5
<1> QED
  BY <1>4, <1>6, <1>7

-----------------------------------------------------------------------------
(* Revisions: the steps of the data and of the service. *)

LEMMA DataRevisions ==
  ASSUME IInv, Data
  PROVE  Revisions' /\ Forward
<1> USE StreamAssumption
        DEF IInv, TypeOK, RevisionType, Ordered, NothingMissed, Revisions, Forward,
            dataVars, cacheVars, streamVars, restVars
<1>1. CASE Change
  BY <1>1 DEF Change
<1>2. ASSUME NEW k \in messages, Hear(k) PROVE Revisions' /\ Forward
  BY <1>2 DEF Hear
<1>3. ASSUME NEW k \in messages, Lose(k) PROVE Revisions' /\ Forward
  BY <1>3 DEF Lose
<1> QED
  BY <1>1, <1>2, <1>3 DEF Data

LEMMA ComputeRevisions ==
  ASSUME IInv, Compute
  PROVE  /\ computing' \in {"none", "begun", "read"} /\ dirty' \in BOOLEAN
         /\ UNCHANGED <<cache, age, reading>>
         /\ computing' = "read" => computing = "read"
         /\ ~dirty' => \/ computing' = "begun"
                       \/ computing' = "read" /\ reading >= told
                       \/ computing' = "none" /\ cache >= told
BY DEF IInv, TypeOK, RevisionType, NothingMissed, Compute

LEMMA ServiceRevisions ==
  ASSUME IInv, Service
  PROVE  Revisions' /\ Forward
<1> USE StreamAssumption
        DEF Ordered, NothingMissed, Revisions, Forward, dataVars, cacheVars, streamVars, restVars
<1>0. TypeOK /\ RevisionType /\ Ordered /\ NothingMissed
  BY DEF IInv, TypeOK
<1>a. listening \subseteq Streams
  BY <1>0 DEF TypeOK, StreamType
<1>1. CASE Tick
  <2>1. CASE age = "fresh"
    <3>1. Send({}, listening, cache) /\ UNCHANGED <<cacheVars, dataVars>>
      BY <1>1, <2>1 DEF Tick
    <3>2. /\ shown' \in [Streams -> 0 .. rev]
          /\ \A c \in Streams : shown[c] <= shown'[c] /\ shown'[c] <= cache
      BY <1>0, <1>a, <3>1, Sending DEF RevisionType
    <3> QED
      BY <1>0, <3>1, <3>2 DEF RevisionType
  <2>2. CASE age # "fresh"
    <3>1. Compute /\ ticking' = TRUE /\ UNCHANGED <<shown, dataVars>>
      BY <1>1, <2>2 DEF Tick
    <3> QED
      BY <1>0, <3>1, ComputeRevisions DEF RevisionType
  <2> QED
    BY <2>1, <2>2
<1>2. CASE TakeSnapshot
  BY <1>0, <1>2 DEF TakeSnapshot, RevisionType
<1>3. CASE Resolve
  <2>1. PICK A \in SUBSET Streams : Send(Waiting \ closed, A, reading)
    BY <1>3, <1>a DEF Resolve
  <2>2. \A c \in Streams : shown[c] <= reading
    BY <1>0, <1>3 DEF Resolve, RevisionType
  <2>3. /\ shown' \in [Streams -> 0 .. rev]
        /\ \A c \in Streams : shown[c] <= shown'[c] /\ shown'[c] <= reading
    BY <1>0, <2>1, <2>2, Sending DEF RevisionType, Waiting
  <2> QED
    BY <1>0, <1>3, <2>3 DEF Resolve, Remember, RevisionType
<1>4. CASE ComputeFails
  <2>1. /\ computing' = "none" /\ dirty' = TRUE /\ ticking' = FALSE
        /\ UNCHANGED <<rev, messages, told, cache, age, reading, shown>>
    BY <1>4 DEF ComputeFails
  <2>2. RevisionType'
    BY <1>0, <2>1 DEF RevisionType
  <2>3. Ordered' /\ NothingMissed'
    BY <1>0, <2>1
  <2>4. Forward
    BY <1>0, <2>1 DEF RevisionType
  <2> QED
    BY <2>2, <2>3, <2>4
<1>5. CASE Grow
  BY <1>0, <1>5 DEF Grow, RevisionType
<1> QED
  BY <1>1, <1>2, <1>3, <1>4, <1>5 DEF Service

LEMMA BeginRevisions ==
  ASSUME IInv, NEW c \in Streams, Begin(c)
  PROVE  Revisions' /\ Forward
<1> USE StreamAssumption
        DEF Ordered, NothingMissed, Revisions, Forward, dataVars, cacheVars, restVars
<1>0. TypeOK /\ RevisionType /\ Ordered /\ NothingMissed
  BY DEF IInv, TypeOK
<1>1. CASE age = "fresh"
  <2>1. Send({c}, {}, cache) /\ UNCHANGED <<cacheVars, dataVars>>
    BY <1>1 DEF Begin
  <2>2. /\ shown' \in [Streams -> 0 .. rev]
        /\ \A d \in Streams : shown[d] <= shown'[d] /\ shown'[d] <= cache
    BY <1>0, <2>1, Sending DEF RevisionType
  <2> QED
    BY <1>0, <2>1, <2>2 DEF RevisionType
<1>2. CASE age # "fresh"
  <2>1. Compute /\ UNCHANGED <<shown, ticking, dataVars>>
    BY <1>2 DEF Begin
  <2> QED
    BY <1>0, <2>1, ComputeRevisions DEF RevisionType
<1> QED
  BY <1>1, <1>2

\* The other steps of a connection keep every revision.
LEMMA ConnectionRevisions ==
  ASSUME IInv, NEW c \in Streams, Connection(c)
  PROVE  Revisions' /\ Forward
<1>1. CASE Begin(c)
  BY <1>1, BeginRevisions
<1>2. ASSUME UNCHANGED <<dataVars, cacheVars, shown>> PROVE Revisions' /\ Forward
  BY <1>2, StreamAssumption
     DEF IInv, TypeOK, RevisionType, Ordered, NothingMissed, Revisions, Forward, dataVars, cacheVars
<1>3. ASSUME ~Begin(c) PROVE UNCHANGED <<dataVars, cacheVars, shown>>
  BY <1>3 DEF Connection, Request, Acquire, AcquireFails, Leave, Beat, GiveUp, Expire, streamVars
<1> QED
  BY <1>1, <1>2, <1>3

LEMMA NextRevisions ==
  ASSUME IInv, [Next]_vars
  PROVE  Revisions' /\ Forward
<1>1. ASSUME UNCHANGED <<dataVars, cacheVars, shown>> PROVE Revisions' /\ Forward
  BY <1>1, StreamAssumption
     DEF IInv, TypeOK, RevisionType, Ordered, NothingMissed, Revisions, Forward, dataVars, cacheVars
<1>2. CASE SignOut \/ Shutdown \/ UNCHANGED vars
  BY <1>1, <1>2 DEF SignOut, Shutdown, vars, streamVars
<1> QED
  BY <1>2, DataRevisions, ServiceRevisions, ConnectionRevisions DEF Next

-----------------------------------------------------------------------------
(* Control points, listeners and leases. *)

\* Nothing moves a stream away from "open".
LEMMA Opened ==
  ASSUME StreamType, NEW S \in SUBSET Streams,
         pc' \in [Streams -> Points],
         \A c \in Streams : pc[c] = "open" \/ c \in S => pc'[c] = "open",
         listening' \subseteq listening \cup S, beating' \subseteq beating \cup S,
         closed' \subseteq Streams, gone' \subseteq Streams, leases' \subseteq Streams,
         Cardinality(leases') <= MaxStreams,
         revoked' \in BOOLEAN, down' \in BOOLEAN, faults' \in 0 .. MaxFaults
  PROVE  StreamType'
BY DEF StreamType

LEMMA Faulty ==
  ASSUME StreamType, Fault
  PROVE  faults' \in 0 .. MaxFaults
BY StreamAssumption DEF StreamType, Fault

LEMMA LeasesChange ==
  ASSUME StreamType, NEW c \in Streams
  PROVE  /\ Cardinality(leases \ {c}) <= MaxStreams
         /\ Room => Cardinality(leases \cup {c}) <= MaxStreams
<1>1. IsFiniteSet(leases) /\ Cardinality(leases) \in Nat /\ MaxStreams \in Nat
      /\ Cardinality(leases) <= MaxStreams
  BY StreamAssumption, FS_Subset, FS_CardinalityType DEF StreamType
<1>2. Cardinality(leases \ {c}) <= Cardinality(leases) /\ Cardinality(leases \ {c}) \in Nat
  BY <1>1, FS_Subset, FS_CardinalityType
<1>3. Cardinality(leases \cup {c}) \in {Cardinality(leases), Cardinality(leases) + 1}
  BY <1>1, FS_AddElement
<1> QED
  BY <1>1, <1>2, <1>3 DEF Room

\* Steps that neither open a stream nor touch a lease.
LEMMA Quiet ==
  ASSUME StreamType,
         UNCHANGED leases, pc' \in [Streams -> Points],
         \A c \in Streams : pc[c] = "open" => pc'[c] = "open",
         listening' \subseteq listening, beating' \subseteq beating,
         closed' \subseteq Streams, gone' \subseteq Streams,
         revoked' \in BOOLEAN, down' \in BOOLEAN, faults' \in 0 .. MaxFaults
  PROVE  StreamType'
BY DEF StreamType

LEMMA ServiceStreams ==
  ASSUME IInv, Service
  PROVE  StreamType'
<1>0. /\ TypeOK /\ RevisionType /\ StreamType
      /\ \A c \in Streams : shown[c] <= cache
      /\ computing = "read" => cache <= reading
  BY DEF IInv, TypeOK, Ordered
<1>a. listening \subseteq Streams /\ closed \subseteq Streams /\ Waiting \subseteq Streams
  BY <1>0 DEF StreamType, Waiting
<1>1. CASE Tick
  <2>0. UNCHANGED <<pc, gone, leases, revoked, down, faults>>
    BY <1>1 DEF Tick, streamVars, restVars
  <2>1. CASE age = "fresh"
    <3>1. Send({}, listening, cache)
      BY <1>1, <2>1 DEF Tick
    <3>a. cache \in 0 .. rev /\ {} \in SUBSET Streams /\ listening \in SUBSET Streams
      BY <1>0, <1>a DEF RevisionType
    <3>b. /\ closed' \subseteq Streams
          /\ listening' \subseteq listening \cup {} /\ beating' \subseteq beating \cup {}
      BY <1>0, <3>1, <3>a, Sending
    <3>2. closed' \subseteq Streams /\ listening' \subseteq listening /\ beating' \subseteq beating
      BY <3>b
    <3>3. /\ pc' \in [Streams -> Points] /\ \A c \in Streams : pc[c] = "open" => pc'[c] = "open"
          /\ gone' \subseteq Streams /\ revoked' \in BOOLEAN /\ down' \in BOOLEAN
          /\ faults' \in 0 .. MaxFaults /\ UNCHANGED leases
      BY <1>0, <2>0 DEF StreamType
    <3> QED
      BY <1>0, <3>2, <3>3, Quiet
  <2>2. CASE age # "fresh"
    <3>1. UNCHANGED <<listening, beating, closed>>
      BY <1>1, <2>2 DEF Tick, streamVars
    <3> QED
      BY <1>0, <2>0, <3>1, Quiet DEF StreamType
  <2> QED
    BY <2>1, <2>2
<1>2. CASE TakeSnapshot \/ Grow
  BY <1>0, <1>2 DEF TakeSnapshot, Grow, StreamType, streamVars, restVars
<1>3. CASE Resolve
  <2>1. PICK A \in SUBSET Streams : Send(Waiting \ closed, A, reading)
    BY <1>3, <1>a DEF Resolve
  <2>2. \A c \in Streams : shown[c] <= reading
    BY <1>0, <1>3 DEF Resolve, RevisionType
  <2>3. /\ closed' \subseteq Streams
        /\ listening' \subseteq listening \cup (Waiting \ closed)
        /\ beating' \subseteq beating \cup (Waiting \ closed)
    BY <1>0, <1>a, <2>1, <2>2, Sending DEF RevisionType
  <2>4. /\ pc' = [c \in Streams |-> IF c \notin Waiting THEN pc[c]
                                   ELSE IF c \in closed THEN "ended" ELSE "open"]
        /\ UNCHANGED <<gone, leases, revoked, down, faults>>
    BY <1>3 DEF Resolve, restVars
  <2>5. /\ pc' \in [Streams -> Points]
        /\ \A c \in Streams : pc[c] = "open" \/ c \in Waiting \ closed => pc'[c] = "open"
    BY <1>0, <2>4 DEF StreamType, Waiting, Points
  <2> QED
    BY <1>0, <1>a, <2>3, <2>4, <2>5, Opened DEF StreamType
<1>4. CASE ComputeFails
  <2>1. /\ closed' = closed \cup Waiting
        /\ listening' \subseteq listening /\ beating' \subseteq beating
        /\ pc' = [c \in Streams |-> IF c \in Waiting THEN "ended" ELSE pc[c]]
        /\ UNCHANGED <<gone, leases, revoked, down>>
    BY <1>4 DEF ComputeFails, Close
  <2>2. /\ pc' \in [Streams -> Points]
        /\ \A c \in Streams : pc[c] = "open" => pc'[c] = "open"
    BY <1>0, <2>1 DEF StreamType, Waiting, Points
  <2>3. faults' \in 0 .. MaxFaults
    BY <1>0, <1>4, Faulty DEF ComputeFails
  <2> QED
    BY <1>0, <1>a, <2>1, <2>2, <2>3, Quiet DEF StreamType
<1> QED
  BY <1>1, <1>2, <1>3, <1>4 DEF Service

LEMMA ConnectionStreams ==
  ASSUME IInv, NEW c \in Streams, Connection(c)
  PROVE  StreamType'
<1>0. /\ TypeOK /\ RevisionType /\ StreamType
      /\ \A d \in Streams : shown[d] <= cache
  BY DEF IInv, TypeOK, Ordered
<1>1. CASE Request(c)
  BY <1>0, <1>1 DEF Request, StreamType, Points, restVars
<1>2. CASE Acquire(c)
  <2>1. CASE Room
    <3>1. /\ leases' = leases \cup {c} /\ pc[c] = "asking" /\ pc' = [pc EXCEPT ![c] = "granted"]
          /\ UNCHANGED <<listening, beating, closed, gone, revoked, down, faults>>
      BY <1>2, <2>1 DEF Acquire
    <3>2. Cardinality(leases') <= MaxStreams
      BY <1>0, <2>1, <3>1, LeasesChange
    <3> QED
      BY <1>0, <3>1, <3>2 DEF StreamType, Points
  <2>2. CASE ~Room
    BY <1>0, <1>2, <2>2 DEF Acquire, StreamType, Points
  <2> QED
    BY <2>1, <2>2
<1>3. CASE AcquireFails(c)
  <2>1. /\ pc[c] \in {"asking", "granted"} /\ pc' = [pc EXCEPT ![c] = "ended"]
        /\ UNCHANGED <<listening, beating, closed, gone, leases, revoked, down>>
    BY <1>3 DEF AcquireFails
  <2>2. faults' \in 0 .. MaxFaults
    BY <1>0, <1>3, Faulty DEF AcquireFails
  <2> QED
    BY <1>0, <2>1, <2>2 DEF StreamType, Points
<1>4. CASE Begin(c)
  <2>0. pc[c] = "granted" /\ UNCHANGED <<gone, leases, revoked, down, faults>>
    BY <1>4 DEF Begin, restVars
  <2>1. CASE age = "fresh"
    <3>1. Send({c}, {}, cache) /\ pc' = [pc EXCEPT ![c] = "open"]
      BY <1>4, <2>1 DEF Begin
    <3>2. /\ closed' \subseteq Streams
          /\ listening' \subseteq listening \cup {c} /\ beating' \subseteq beating \cup {c}
      BY <1>0, <3>1, Sending DEF RevisionType
    <3>3. /\ pc' \in [Streams -> Points]
          /\ \A d \in Streams : pc[d] = "open" \/ d \in {c} => pc'[d] = "open"
      BY <1>0, <3>1 DEF StreamType, Points
    <3> QED
      BY <1>0, <2>0, <3>2, <3>3, Opened DEF StreamType
  <2>2. CASE age # "fresh"
    <3>1. pc' = [pc EXCEPT ![c] = "waiting"] /\ UNCHANGED <<listening, beating, closed>>
      BY <1>4, <2>2 DEF Begin
    <3> QED
      BY <1>0, <2>0, <3>1 DEF StreamType, Points
  <2> QED
    BY <2>1, <2>2
<1>5. CASE Leave(c) \/ Beat(c) \/ GiveUp(c)
  <2>1. /\ closed' \subseteq closed \cup {c} /\ gone' \subseteq gone \cup {c}
        /\ listening' \subseteq listening /\ beating' \subseteq beating
        /\ UNCHANGED <<pc, leases, revoked, down, faults>>
    BY <1>5 DEF Leave, Beat, GiveUp, Close, restVars
  <2> QED
    BY <1>0, <2>1, Quiet DEF StreamType
<1>6. CASE Expire(c)
  <2>1. leases' = leases \ {c} /\ UNCHANGED <<streamVars, gone, revoked, down>>
    BY <1>6 DEF Expire
  <2>2. faults' \in 0 .. MaxFaults
    BY <1>0, <1>6, Faulty DEF Expire, StreamType
  <2>3. Cardinality(leases') <= MaxStreams
    BY <1>0, <2>1, LeasesChange
  <2> QED
    BY <1>0, <2>1, <2>2, <2>3 DEF StreamType, streamVars
<1> QED
  BY <1>1, <1>2, <1>3, <1>4, <1>5, <1>6 DEF Connection

LEMMA NextStreams ==
  ASSUME IInv, [Next]_vars
  PROVE  StreamType'
<1>0. StreamType
  BY DEF IInv, TypeOK
<1>1. CASE Data
  <2>1. CASE Change \/ \E k \in messages : Hear(k)
    BY <1>0, <2>1 DEF Change, Hear, StreamType, streamVars, restVars
  <2>2. ASSUME NEW k \in messages, Lose(k) PROVE StreamType'
    <3>1. UNCHANGED <<streamVars, gone, leases, revoked, down>> /\ faults' \in 0 .. MaxFaults
      BY <1>0, <2>2, Faulty DEF Lose
    <3> QED
      BY <1>0, <3>1 DEF StreamType, streamVars
  <2> QED
    BY <1>1, <2>1, <2>2 DEF Data
<1>2. CASE SignOut \/ UNCHANGED vars
  BY <1>0, <1>2 DEF SignOut, StreamType, vars, streamVars, restVars
<1>3. CASE Shutdown
  <2>1. /\ closed' = closed \cup listening /\ listening' = {} /\ beating' \subseteq beating
        /\ down' = TRUE /\ UNCHANGED <<pc, gone, leases, revoked, faults>>
    BY <1>3 DEF Shutdown
  <2> QED
    BY <1>0, <2>1, Quiet DEF StreamType
<1> QED
  BY <1>1, <1>2, <1>3, ServiceStreams, ConnectionStreams DEF Next

-----------------------------------------------------------------------------
(* The theorems. *)

LEMMA NextIInv == IInv /\ [Next]_vars => IInv' /\ Forward
BY NextRevisions, NextStreams DEF IInv, TypeOK, Revisions

THEOREM Invariance == Spec => []IInv
<1>1. Init => IInv
  BY InitIInv
<1>2. IInv /\ [Next]_vars => IInv'
  BY NextIInv
<1> QED
  BY <1>1, <1>2, PTL DEF Spec

\* Types, with never more leases than the cap on streams.
THEOREM TypeCorrect == Spec => []TypeOK
<1>1. IInv => TypeOK
  BY DEF IInv
<1> QED
  BY <1>1, Invariance, PTL

\* The dirty flag never forgets an announced change, whatever is being computed.
THEOREM NothingIsMissed == Spec => []NothingMissed
<1>1. IInv => NothingMissed
  BY DEF IInv
<1> QED
  BY <1>1, Invariance, PTL

\* No client is shown an older snapshot after a newer one.
THEOREM ShownOnlyGrows == Spec => ShownGrows
<1>1. IInv /\ [Next]_vars => [\A c \in Streams : shown'[c] >= shown[c]]_vars
  <2> SUFFICES ASSUME IInv, [Next]_vars PROVE \A c \in Streams : shown'[c] >= shown[c]
    OBVIOUS
  <2>1. Forward /\ IInv /\ IInv'
    BY NextIInv
  <2>2. \A c \in Streams : shown[c] \in Int /\ shown'[c] \in Int
    BY <2>1, StreamAssumption DEF IInv, TypeOK, RevisionType
  <2> QED
    BY <2>1, <2>2 DEF Forward
<1>2. Spec => []IInv /\ [][Next]_vars
  BY Invariance, PTL DEF Spec
<1> QED
  BY <1>1, <1>2, PTL DEF ShownGrows
=============================================================================
