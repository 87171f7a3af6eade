-------------------------- MODULE MigrationHistory --------------------------
(***************************************************************************)
(* database/migrator.ts and migration-history.ts: starting processes that  *)
(* bring one schema up to date.  Each migration is a transaction of its    *)
(* own and is recorded after it, so a process may die between the two;     *)
(* the advisory lock belongs to the connection and goes with it.           *)
(*                                                                         *)
(* A name in the history is an operation with the family of names it was   *)
(* recorded under: the bundles of old versions, the list that              *)
(* migration-history.ts expands them into, or the files that are there.    *)
(***************************************************************************)
EXTENDS Integers, Sequences, FiniteSets

CONSTANTS
    Starts,      \* processes that may start
    Histories,   \* what old versions have recorded: sets of names
    MaxCrashes   \* bound on processes that die

\* The operations of the first version, as migration-history.ts names them.
Initial == <<"enable-pg-trgm", "create-users", "create-sessions", "create-statuses",
             "create-workspace-settings", "create-leads", "create-activities",
             "create-webhook-receipts", "create-outbox", "create-dashboard-counters">>

\* The files, in the order of their names; one of the first has another name by now.
Files == [Initial EXCEPT ![5] = "create-app-settings"]
         \o <<"webhook-credentials", "add-receipt-actor">>
FileSet == {Files[i] : i \in DOMAIN Files}

\* The bundles, with what each is expanded into and the names it may have; that of the
\* credentials had one operation and was not renamed by its expansion.
Bundles == {"initial", "credentials", "intake"}

Replacements(bundle) ==
    CASE bundle = "initial"     -> {Initial[i] : i \in DOMAIN Initial}
      [] bundle = "credentials" -> {"webhook-credentials"}
      [] OTHER                  -> {"rename-app-settings", "add-receipt-actor"}

Name(op, family) == [op |-> op, family |-> family]
Aliases(bundle) ==
    {Name(bundle, "numeric")} \cup
        (IF bundle = "credentials" THEN {} ELSE {Name(bundle, "bundled")})
Listed(bundle) == {Name(op, "listed") : op \in Replacements(bundle)}

\* The name under which the runner knows a file.
FileName(op) == Name(op, "file")

\* What a name in the history stands for.
Meaning(name) == IF name.op \in Bundles THEN Replacements(name.op) ELSE {name.op}

ASSUME MigrationAssumption ==
    /\ IsFiniteSet(Starts) /\ MaxCrashes \in Nat
    /\ Histories \subseteq SUBSET UNION {Aliases(b) \cup Listed(b) : b \in Bundles}

VARIABLES
    history,    \* the rows of SequelizeMeta
    schema,     \* the operations the schema shows
    seeded,     \* the reference rows are there
    lock,       \* who holds the advisory lock
    at,         \* where each process is
    todo,       \* the pending migrations of its runner, which it takes in order
    repeated,   \* ghost: operations executed on a schema that shows them
    crashes

migrationVars == <<history, schema, seeded, lock, at, todo, repeated, crashes>>

\* What an old version that recorded these bundles has left.
MigrationInit ==
    /\ history \in Histories
    /\ schema = UNION {Meaning(name) : name \in history}
    /\ seeded = (history # {})
    /\ lock = {}
    /\ at = [p \in Starts |-> "idle"]
    /\ todo = [p \in Starts |-> {}]
    /\ repeated = {}
    /\ crashes = 0

\* The op of a set whose file comes first.
NextFile(ops) ==
    Files[CHOOSE i \in DOMAIN Files :
              Files[i] \in ops /\ \A j \in DOMAIN Files : j < i => Files[j] \notin ops]

-----------------------------------------------------------------------------
(* Deliberately wrong variants, one step away from the code: a run in which  *)
(* one of them takes the place of its original must fail.                    *)

\* The op of a set whose file comes last.
LastFile(ops) ==
    CHOOSE op \in ops : \E i \in DOMAIN Files :
        Files[i] = op /\ \A j \in DOMAIN Files : j > i => Files[j] \notin ops

NoLock(p) == lock' = lock                            \* for TakeLock
SkipsLast(p) ==                                      \* for Rest
    todo[p] \ {NextFile(todo[p]), LastFile(todo[p])}
LastOfLoop(p) == LastFile(todo[p])                   \* for Finished

-----------------------------------------------------------------------------
Move(p, place) == at' = [at EXCEPT ![p] = place]

TakeLock(p) == lock = {} /\ lock' = {p}

Lock(p) ==
    /\ at[p] = "idle"
    /\ TakeLock(p)
    /\ Move(p, "locked")
    /\ UNCHANGED <<history, schema, seeded, todo, repeated, crashes>>

(* planMigrationHistory. *)

Present(bundle) == Aliases(bundle) \cap history

Ambiguous ==
    \E b \in Bundles :
        \/ Cardinality(Present(b)) > 1
        \/ Present(b) # {} /\ Listed(b) \cap history # {}

Expansion(removed, added) == (history \ removed) \cup added

\* The plan, and the transaction that carries it out.
Expand(p) ==
    /\ at[p] = "locked"
    /\ IF Ambiguous
       THEN Move(p, "failed") /\ UNCHANGED history
       ELSE /\ Move(p, "expanded")
            /\ history' = Expansion(UNION {Present(b) : b \in Bundles},
                   UNION {Listed(b) : b \in {c \in Bundles : Present(c) # {}}})
    /\ UNCHANGED <<schema, seeded, lock, todo, repeated, crashes>>

(* runner.up. *)

\* The files that are not recorded.
Pending(p) ==
    /\ at[p] = "expanded"
    /\ todo' = [todo EXCEPT ![p] = {op \in FileSet : FileName(op) \notin history}]
    /\ Move(p, "running")
    /\ UNCHANGED <<history, schema, seeded, lock, repeated, crashes>>

\* Those whose statements succeed on a schema that shows them already: IF NOT EXISTS,
\* and no constraint, index or column of a fixed name.
Repeatable == {"enable-pg-trgm", "webhook-credentials"}

Execute(p) ==
    /\ at[p] = "running" /\ todo[p] # {}
    /\ LET op == NextFile(todo[p])
       IN  IF op \in schema
           THEN /\ repeated' = repeated \cup {op}
                /\ Move(p, IF op \in Repeatable THEN "executed" ELSE "failed")
                /\ UNCHANGED schema
           ELSE /\ schema' = schema \cup {op}
                /\ Move(p, "executed")
                /\ UNCHANGED repeated
    /\ UNCHANGED <<history, seeded, lock, todo, crashes>>

Finished(p) == NextFile(todo[p])

Rest(p) == todo[p] \ {NextFile(todo[p])}

Record(p) ==
    /\ at[p] = "executed"
    /\ history' = history \cup {FileName(Finished(p))}
    /\ todo' = [todo EXCEPT ![p] = Rest(p)]
    /\ Move(p, "running")
    /\ UNCHANGED <<schema, seeded, lock, repeated, crashes>>

\* seedReference, then the lock is given back and the API is started.
Seed(p) ==
    /\ at[p] = "running" /\ todo[p] = {}
    /\ seeded' = TRUE
    /\ lock' = lock \ {p}
    /\ Move(p, "done")
    /\ UNCHANGED <<history, schema, todo, repeated, crashes>>

\* An error goes up through finally: the process ends and another may be started.
Fail(p) ==
    /\ at[p] = "failed"
    /\ lock' = lock \ {p}
    /\ todo' = [todo EXCEPT ![p] = {}]
    /\ Move(p, "idle")
    /\ UNCHANGED <<history, schema, seeded, repeated, crashes>>

\* The server ends in its time, to be started again with the next deployment.
Stop(p) ==
    /\ at[p] = "done"
    /\ Move(p, "idle")
    /\ UNCHANGED <<history, schema, seeded, lock, todo, repeated, crashes>>

Crash(p) ==
    /\ crashes < MaxCrashes
    /\ at[p] # "idle"
    /\ crashes' = crashes + 1
    /\ lock' = lock \ {p}
    /\ todo' = [todo EXCEPT ![p] = {}]
    /\ Move(p, "idle")
    /\ UNCHANGED <<history, schema, seeded, repeated>>

MigrationNext ==
    \E p \in Starts :
        \/ Lock(p) \/ Expand(p) \/ Pending(p) \/ Execute(p) \/ Record(p)
        \/ Seed(p) \/ Fail(p) \/ Stop(p) \/ Crash(p)

MigrationSpec == MigrationInit /\ [][MigrationNext]_migrationVars

-----------------------------------------------------------------------------
(* Properties. *)

\* The history never claims what the schema does not show, whoever dies when.
HistoryIsTrue == \A name \in history : Meaning(name) \subseteq schema

\* A server runs only on a schema that has every operation, all recorded, with its
\* reference rows, also when another process migrates or died before it.
ServingIsComplete ==
    \A p \in Starts : at[p] = "done" =>
        /\ FileSet \subseteq schema
        /\ \A op \in FileSet : FileName(op) \in history
        /\ seeded

\* On a database of this version's own, while no process dies, each operation is
\* executed once, however many processes start at once and again.
EachRunsOnce ==
    (crashes = 0 /\ \A name \in history : name.family = "file") => repeated = {}

\* The comment in the migrator (migrator.ts:30, "without executing its schema changes
\* again") and the integration test (migrations.integration.ts:50, "expands without
\* rerunning DDL") say that no operation is executed on a schema that shows it.
NothingRepeated == repeated = {}
=============================================================================
