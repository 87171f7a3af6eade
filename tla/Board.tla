------------------------------- MODULE Board -------------------------------
(***************************************************************************)
(* What the catalogue promises: every operation is indivisible and acts on *)
(* the current settings, statuses and leads.                               *)
(***************************************************************************)
EXTENDS Integers, FiniteSets

CONSTANTS Statuses, Leads, Seeded, Positions, MaxActive, None

VARIABLES settings, statuses, leads

board == <<settings, statuses, leads>>

Active == {s \in Statuses : statuses[s].version > 0 /\ ~statuses[s].archived}

Init ==
    /\ settings = [default |-> Seeded[1], catalogVersion |-> 1]
    /\ \A i \in DOMAIN Seeded :
           statuses[Seeded[i]] = [version |-> 1, archived |-> FALSE, position |-> i - 1]
    /\ \A s \in Statuses \ {Seeded[i] : i \in DOMAIN Seeded} :
           statuses[s] = [version |-> 0, archived |-> FALSE, position |-> 0]
    /\ leads = [l \in Leads |-> [version |-> 0, status |-> None]]

\* A user gives a lead another active status.
Assign(l, s) ==
    /\ leads[l].version > 0
    /\ leads[l].status # s
    /\ s \in Active
    /\ leads' = [leads EXCEPT ![l] = [version |-> @.version + 1, status |-> s]]
    /\ UNCHANGED <<settings, statuses>>

\* A new lead starts in the default status.
Enter(l) ==
    /\ leads[l].version = 0
    /\ settings.default \in Active
    /\ leads' = [leads EXCEPT ![l] = [version |-> 1, status |-> settings.default]]
    /\ UNCHANGED <<settings, statuses>>

\* New contact data keep the status.
Contact(l) ==
    /\ leads[l].version > 0
    /\ leads' = [leads EXCEPT ![l].version = @ + 1]
    /\ UNCHANGED <<settings, statuses>>

Changed(n, default) ==
    /\ settings' = [default |-> default, catalogVersion |-> settings.catalogVersion + n]
    /\ UNCHANGED leads

LastPosition ==
    CHOOSE p \in {statuses[s].position : s \in Statuses} :
        \A s \in Statuses : statuses[s].position <= p

Create(s) ==
    /\ statuses[s].version = 0
    /\ Cardinality(Active) < MaxActive
    /\ \E p \in Positions \cup {LastPosition + 1} :
           statuses' = [statuses EXCEPT ![s] =
                           [version |-> 1, archived |-> FALSE, position |-> p]]
    /\ Changed(1, settings.default)

\* Another position, another default, or both.
Update(s) ==
    /\ s \in Active
    /\ \E p \in Positions \cup {statuses[s].position}, d \in {s, settings.default} :
        /\ <<p, d>> # <<statuses[s].position, settings.default>>
        /\ statuses' = [statuses EXCEPT ![s].position = p, ![s].version = @ + 1]
        /\ Changed(1, d)

\* The default is archived only together with its active replacement.
Archive(s) ==
    /\ s \in Active
    /\ statuses' = [statuses EXCEPT ![s].archived = TRUE, ![s].version = @ + 1]
    /\ \E d \in Active \ {s} :
        /\ settings.default # s => d = settings.default
        /\ Changed(1, d)

\* The active statuses in a new order, at positions 0, 1, ...
Reorder(order) ==
    LET moved == {i \in DOMAIN order : statuses[order[i]].position # i - 1} IN
    /\ {order[i] : i \in DOMAIN order} = Active
    /\ moved # {}
    /\ \A i \in DOMAIN order :
           statuses'[order[i]] = IF i \in moved
                                 THEN [statuses[order[i]] EXCEPT !.position = i - 1,
                                                                 !.version = @ + 1]
                                 ELSE statuses[order[i]]
    /\ \A s \in Statuses \ Active : statuses'[s] = statuses[s]
    /\ DOMAIN statuses' = Statuses
    /\ Changed(Cardinality(moved), settings.default)

Next ==
    \/ \E l \in Leads : Enter(l) \/ Contact(l) \/ \E s \in Statuses : Assign(l, s)
    \/ \E s \in Statuses : Create(s) \/ Update(s) \/ Archive(s)
    \/ \E order \in [1 .. Cardinality(Active) -> Active] : Reorder(order)

Spec == Init /\ [][Next]_board
=============================================================================
