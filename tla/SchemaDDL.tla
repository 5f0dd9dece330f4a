------------------------------ MODULE SchemaDDL ------------------------------
(***************************************************************************)
(* DDLManager (utils/ddl_manager.py): managers of different releases of a  *)
(* service apply their scripts to one PostgreSQL database.  Every          *)
(* statement is a transaction and a step of its own; between two of them   *)
(* other managers act, and a manager may crash.                            *)
(*                                                                         *)
(* A table is its shape (the columns with types, defaults and NOT NULL),   *)
(* and whether its other statements (indexes, triggers) are there.         *)
(* Scripts of releases with the same number for a shape differ in          *)
(* something else.                                                         *)
(*                                                                         *)
(* PostgreSQL, as the code uses it: CREATE DATABASE fails when there is    *)
(* one, DROP DATABASE when somebody is connected, CREATE TABLE when a      *)
(* table it references is not there, and COMMENT whenever its text is a    *)
(* parameter, as here: no table gets the comment with the hash of its      *)
(* script, and ddl_registry no row.                                        *)
(***************************************************************************)
EXTENDS Naturals, Sequences

CONSTANTS
    Managers,
    Names,        \* the tables in the order of their files
    Releases,     \* of the service
    Shape,        \* table -> release -> shape, a positive number
    Refs,         \* table -> the other tables it references
    Parsed,       \* table -> release -> shape as _extract_columns reads it: a primary
                  \* key is not seen as NOT NULL, which may be another release's shape
    MaxRuns,      \* bound on the calls of the public operations
    MaxFaults     \* bound on the statements that fail by themselves

Tables == {Names[i] : i \in DOMAIN Names}
Operations == {"ensure", "diff", "rebuild_database", "rebuild_tables"}

ASSUME SchemaAssumption ==
    /\ Names \in Seq(Tables) /\ Names # <<>>
    /\ Releases # {}
    /\ Shape \in [Tables -> [Releases -> Nat \ {0}]]
    /\ Refs \in [Tables -> SUBSET Tables]
    /\ Parsed \in [Tables -> [Releases -> Nat]]
    /\ {MaxRuns, MaxFaults} \subseteq Nat

VARIABLES
    present,   \* the database exists
    registry,  \* the table ddl_registry exists
    common,    \* the statements of the root directory have been executed
    shape,     \* table -> its shape, 0 when there is no such table
    extras,    \* tables whose other statements have been executed
    pc,        \* manager -> where it is
    op,        \* manager -> the operation it executes
    release,   \* manager -> the release of its scripts
    conn,      \* manager -> its connection to the database
    targets,   \* manager -> the tables it is asked for
    at,        \* manager -> its position in the list of tables
    quiet,     \* history: runs that nothing has interfered with or failed in
    runs,
    faults

database == <<present, registry, common, shape, extras>>
manager == <<pc, op, release, targets, conn, at>>
vars == <<database, manager, quiet, runs, faults>>

Running(m) == pc[m] \notin {"idle", "done", "raised"}
More(m) == at[m] <= Len(Names)
Table(m) == Names[at[m]]
There(t) == shape[t] # 0
NoTables == [t \in Tables |-> 0]

Init ==
    /\ present \in BOOLEAN
    /\ registry = FALSE
    /\ common = FALSE
    /\ shape = NoTables
    /\ extras = {}
    /\ pc = [m \in Managers |-> "idle"]
    /\ op = [m \in Managers |-> "ensure"]
    /\ release = [m \in Managers |-> CHOOSE r \in Releases : TRUE]
    /\ targets = [m \in Managers |-> {}]
    /\ conn = [m \in Managers |-> "none"]
    /\ at = [m \in Managers |-> 1]
    /\ quiet = {}
    /\ runs = 0
    /\ faults = 0

-----------------------------------------------------------------------------
(* A manager                                                                *)

Goto(m, l) ==
    /\ pc' = [pc EXCEPT ![m] = l]
    /\ UNCHANGED <<op, release, targets, conn, at>>

\* On to the next table of the list.
Advance(m, l) ==
    /\ pc' = [pc EXCEPT ![m] = l]
    /\ at' = [at EXCEPT ![m] = @ + 1]
    /\ UNCHANGED <<op, release, targets, conn>>

\* The connection is closed by _AsyncConnectionContext on every way out.
Leave(m, l) ==
    /\ pc' = [pc EXCEPT ![m] = l]
    /\ conn' = [conn EXCEPT ![m] = "none"]
    /\ at' = [at EXCEPT ![m] = IF l = "idle" THEN 1 ELSE @]
    /\ targets' = [targets EXCEPT ![m] = IF l = "idle" THEN {} ELSE @]
    /\ UNCHANGED <<op, release>>

Keep == UNCHANGED <<quiet, runs, faults>>
Dry(m) == op[m] = "diff"

\* The common part of every statement on the connection.
On(m, l) == pc[m] = l /\ conn[m] = "open" /\ Keep

\* The public operations.
Begin(m, o, r) ==
    /\ ~Running(m)
    /\ runs < MaxRuns
    /\ runs' = runs + 1
    /\ op' = [op EXCEPT ![m] = o]
    /\ release' = [release EXCEPT ![m] = r]
    /\ pc' = [pc EXCEPT ![m] = CASE o = "rebuild_database" -> "terminate"
                                 [] o = "rebuild_tables" -> "connect"
                                 [] OTHER -> "database"]
    /\ \E T \in (SUBSET Tables) \ {{}} :
           /\ o = "rebuild_database" => T = Tables
           /\ targets' = [targets EXCEPT ![m] = T]
    /\ at' = [at EXCEPT ![m] = 1]
    /\ quiet' = IF \E n \in Managers : Running(n) THEN {} ELSE {m}
    /\ UNCHANGED <<database, conn, faults>>

\* _drop_database: first the other connections to the database ...
Terminate(m) ==
    /\ pc[m] = "terminate"
    /\ pc' = [pc EXCEPT ![m] = "drop"]
    /\ conn' = [n \in Managers |-> IF conn[n] = "open" THEN "dead" ELSE conn[n]]
    /\ Keep
    /\ UNCHANGED <<database, op, release, targets, at>>

\* ... then the database, unless somebody has connected in between.
DropDatabase(m) ==
    /\ pc[m] = "drop"
    /\ IF \E n \in Managers : conn[n] = "open"
         THEN Leave(m, "raised") /\ UNCHANGED database
         ELSE /\ present' = FALSE
              /\ registry' = FALSE
              /\ common' = FALSE
              /\ shape' = NoTables
              /\ extras' = {}
              /\ Goto(m, "create")
    /\ Keep

\* _ensure_database_exists: the question.
CheckDatabase(m) ==
    /\ pc[m] = "database"
    /\ Goto(m, IF present \/ Dry(m) THEN "connect" ELSE "create")
    /\ Keep
    /\ UNCHANGED database

\* The creation, where another manager may have been first.  rebuild_database
\* goes on with ensure_schema.
CreateDatabase(m) ==
    /\ pc[m] = "create"
    /\ IF present
         THEN Leave(m, "raised") /\ UNCHANGED present
         ELSE /\ present' = TRUE
              /\ pc' = [pc EXCEPT ![m] = "database"]
              /\ op' = [op EXCEPT ![m] = "ensure"]
              /\ UNCHANGED <<release, targets, conn, at>>
    /\ Keep
    /\ UNCHANGED <<registry, common, shape, extras>>

\* Mutant: the dry run is forgotten.
AfterConnectAlways(m) == IF op[m] = "rebuild_tables" THEN "drop_table" ELSE "registry"

\* A dry run skips ddl_registry and the common statements.
AfterConnect(m) ==
    CASE Dry(m) -> "table"
      [] op[m] = "rebuild_tables" -> "drop_table"
      [] OTHER -> "registry"

\* Without the database, as in a dry run, there is nothing to connect to.
Connect(m) ==
    /\ pc[m] = "connect"
    /\ IF present
         THEN /\ conn' = [conn EXCEPT ![m] = "open"]
              /\ pc' = [pc EXCEPT ![m] = AfterConnect(m)]
              /\ UNCHANGED <<op, release, targets, at>>
         ELSE Leave(m, "raised")
    /\ Keep
    /\ UNCHANGED database

\* rebuild_tables: DROP TABLE IF EXISTS ... CASCADE takes the table's indexes and
\* triggers with it.
DropTable(m) ==
    LET t == Table(m) IN
    /\ On(m, "drop_table")
    /\ More(m)
    /\ t \in targets[m]
    /\ shape' = [shape EXCEPT ![t] = 0]
    /\ extras' = extras \ {t}
    /\ Advance(m, "drop_table")
    /\ UNCHANGED <<present, registry, common>>

\* All are dropped, and the same tables are gone through again.
AllDropped(m) ==
    /\ On(m, "drop_table")
    /\ ~More(m)
    /\ pc' = [pc EXCEPT ![m] = "registry"]
    /\ at' = [at EXCEPT ![m] = 1]
    /\ UNCHANGED <<database, op, release, targets, conn>>

\* A table that was not asked for.
Skip(m) ==
    /\ pc[m] \in {"drop_table", "table"}
    /\ On(m, pc[m])
    /\ More(m)
    /\ Table(m) \notin targets[m]
    /\ Advance(m, pc[m])
    /\ UNCHANGED database

\* CREATE TABLE IF NOT EXISTS ddl_registry.
EnsureRegistry(m) ==
    /\ On(m, "registry")
    /\ registry' = TRUE
    /\ Goto(m, "common")
    /\ UNCHANGED <<present, common, shape, extras>>

CommonStatements(m) ==
    /\ On(m, "common")
    /\ common' = TRUE
    /\ Goto(m, "table")
    /\ UNCHANGED <<present, registry, shape, extras>>

-----------------------------------------------------------------------------
(* _apply_table                                                             *)

\* CREATE TABLE: executed, "present", or failed for want of a parent.  A dry run
\* executes no statement and goes on to the diff.
CreateTable(m) ==
    LET t == Table(m)
        creates == ~Dry(m) /\ ~There(t) /\ \A p \in Refs[t] : There(p) IN
    /\ On(m, "table")
    /\ More(m)
    /\ t \in targets[m]
    /\ shape' = IF creates THEN [shape EXCEPT ![t] = Shape[t][release[m]]] ELSE shape
    /\ Goto(m, IF Dry(m) THEN "diff" ELSE "extras")
    /\ UNCHANGED <<present, registry, common, extras>>

\* The other statements: present, executed, or failed without the table.
Extras(m) ==
    LET t == Table(m) IN
    /\ On(m, "extras")
    /\ extras' = IF There(t) THEN extras \cup {t} ELSE extras
    /\ Goto(m, "diff")
    /\ UNCHANGED <<present, registry, common, shape>>

\* A statement that fails is reported, and the next ones run.
StatementFails(m) ==
    /\ \/ pc[m] = "table" /\ More(m) /\ Table(m) \in targets[m] /\ ~Dry(m)
       \/ pc[m] = "extras"
    /\ conn[m] = "dead" \/ faults < MaxFaults
    /\ faults' = IF conn[m] = "dead" THEN faults ELSE faults + 1
    /\ quiet' = quiet \ {m}
    /\ Goto(m, IF pc[m] = "table" THEN "extras" ELSE "diff")
    /\ UNCHANGED <<database, runs>>

ColumnsClean(m, t) == There(t) /\ shape[t] = Parsed[t][release[m]]

\* _compute_table_diff: whether the table is there ...
DiffExists(m) ==
    /\ On(m, "diff")
    /\ IF There(Table(m)) THEN Goto(m, "columns") ELSE Advance(m, "table")
    /\ UNCHANGED database

\* Mutant: the columns do not matter.
ColumnsIgnored(m) ==
    /\ On(m, "columns")
    /\ Goto(m, IF ~Dry(m) /\ There(Table(m)) THEN "comment" ELSE "hash")
    /\ UNCHANGED database

\* ... whether it has the columns that were read from the script, which a table that
\* has just been dropped has not ...
DiffColumns(m) ==
    /\ On(m, "columns")
    /\ Goto(m, IF ~Dry(m) /\ ColumnsClean(m, Table(m)) THEN "comment" ELSE "hash")
    /\ UNCHANGED database

\* ... and what its comment says, a question that fails when it has been dropped.
DiffHash(m) ==
    /\ On(m, "hash")
    /\ IF There(Table(m)) THEN Advance(m, "table") ELSE Leave(m, "raised")
    /\ UNCHANGED database

\* _update_table_metadata, for a table with the right columns: PostgreSQL rejects
\* the comment, and neither the row of ddl_registry is written nor any table after
\* this one looked at.
WriteComment(m) ==
    /\ On(m, "comment")
    /\ Leave(m, "raised")
    /\ UNCHANGED database

Finish(m) ==
    /\ pc[m] = "table"
    /\ ~More(m)
    /\ Leave(m, "done")
    /\ Keep
    /\ UNCHANGED database

-----------------------------------------------------------------------------

\* Everywhere else, the question whether a table exists included, a statement that
\* fails or a lost connection ends the run.
Raise(m) ==
    /\ Running(m)
    /\ pc[m] # "extras"
    /\ pc[m] = "table" => More(m)
    /\ conn[m] = "dead" \/ faults < MaxFaults
    /\ faults' = IF conn[m] = "dead" THEN faults ELSE faults + 1
    /\ quiet' = quiet \ {m}
    /\ Leave(m, "raised")
    /\ UNCHANGED <<database, runs>>

Crash(m) ==
    /\ Running(m)
    /\ Leave(m, "idle")
    /\ quiet' = quiet \ {m}
    /\ UNCHANGED <<database, runs, faults>>

Step(m) ==
    \/ Terminate(m) \/ DropDatabase(m) \/ CheckDatabase(m) \/ CreateDatabase(m)
    \/ Connect(m) \/ DropTable(m) \/ AllDropped(m) \/ Skip(m)
    \/ EnsureRegistry(m) \/ CommonStatements(m) \/ CreateTable(m)
    \/ Extras(m) \/ DiffExists(m) \/ DiffColumns(m) \/ DiffHash(m) \/ WriteComment(m)
    \/ Finish(m)

Next ==
    \E m \in Managers :
        \/ Step(m) \/ StatementFails(m) \/ Raise(m) \/ Crash(m)
        \/ \E o \in Operations, r \in Releases : Begin(m, o, r)

Spec == Init /\ [][Next]_vars

-----------------------------------------------------------------------------

DatabaseOK ==
    /\ present \in BOOLEAN
    /\ registry \in BOOLEAN
    /\ common \in BOOLEAN
    /\ shape \in [Tables -> Nat]
    /\ extras \subseteq Tables

Work == {"extras", "diff", "columns", "hash", "comment"}
Places == {"idle", "terminate", "drop", "create", "database", "connect", "drop_table",
           "registry", "common", "table", "done", "raised"} \cup Work

ManagersOK ==
    /\ pc \in [Managers -> Places]
    /\ op \in [Managers -> Operations]
    /\ release \in [Managers -> Releases]
    /\ conn \in [Managers -> {"none", "open", "dead"}]
    /\ targets \in [Managers -> SUBSET Tables]
    /\ at \in [Managers -> 1 .. Len(Names) + 1]

TypeOK ==
    /\ DatabaseOK
    /\ ManagersOK
    /\ quiet \subseteq Managers
    /\ runs \in 0 .. MaxRuns
    /\ faults \in 0 .. MaxFaults

Before(t, u) ==
    \E i, j \in DOMAIN Names : i < j /\ Names[i] = t /\ Names[j] = u

\* Table t wants a table, or its script comes before one it references.
Orphan(t) == \E p \in Refs[t] : ~There(p) \/ Before(t, p)

\* Table t is as a run of m leaves it that goes on to the next one: complete, but not
\* with the columns it reads from its own script.
Passed(m, t) == IF There(t) THEN t \in extras /\ ~ColumnsClean(m, t) ELSE Orphan(t)

\* A run of ensure_schema, with which rebuild_database ends, or of rebuild_tables on a
\* database that is there, in which nothing failed by itself and no other manager took
\* part, repairs what crashes, failures and others before it have left half done (no
\* database, no ddl_registry, a table without its indexes) up to the first table whose
\* columns are those it reads from its script.  There it raises, for the comment, and
\* nowhere else; what comes after that table it never reaches.
QuietRunReaches ==
    \A m \in quiet :
        /\ pc[m] \in {"done", "raised"}
        /\ op[m] = "ensure" \/ (op[m] = "rebuild_tables" /\ present)
        => /\ present /\ registry /\ common
           /\ pc[m] = "done" => ~More(m)
           /\ pc[m] = "raised" =>
                 More(m) /\ Table(m) \in targets[m] \cap extras /\ ColumnsClean(m, Table(m))
           /\ \A i \in 1 .. at[m] - 1 :
                 Names[i] \in targets[m] =>
                     \/ pc[m] = "raised" /\ Names[i] = Table(m)
                     \/ Passed(m, Names[i])

\* diff_schema is a dry run: "without making changes" (lines 771-779).
DiffWritesNothing ==
    [][\A m \in Managers :
          Dry(m) /\ Running(m) /\ <<pc[m], at[m]>>' # <<pc[m], at[m]>>
              => UNCHANGED database]_vars
=============================================================================
