------------------------------- MODULE AutoDDL -------------------------------
(***************************************************************************)
(* AutoDDLManager.check_and_init_tables (core/ddl_manager.py): workers of  *)
(* a service, started at any time, bring one PostgreSQL database up to the *)
(* scripts of the DDL directory.  Every "async with session.begin()" is    *)
(* one transaction and one step here; between two of them other workers    *)
(* act.  Only a table's columns, which are read in one transaction and     *)
(* added in the next, are one step: no column is ever taken away, and ADD  *)
(* COLUMN IF NOT EXISTS does not depend on what was read.                  *)
(*                                                                         *)
(* PostgreSQL, as the code uses it: CREATE TABLE fails when the table is   *)
(* there, when a table it references is not, or when the trigger functions *)
(* it calls are not; CREATE EXTENSION IF NOT EXISTS fails when another     *)
(* transaction creates the extension meanwhile.                            *)
(***************************************************************************)
EXTENDS Naturals, Sequences, Functions

CONSTANTS
    Workers,
    Names,        \* the scripts' names in order: _get_required_tables
    Columns,      \* standard_columns
    TriggerFiles, \* the files of _resolve_trigger_files, in order
    Directories,  \* what the scripts may be, to choose from
    MaxRuns,      \* bound on the calls of check_and_init_tables
    MaxFaults     \* bound on the transactions that fail by themselves

Tables == Range(Names)
Functions == Range(TriggerFiles)

\* The tables a script references, those the pattern of the code takes it to
\* reference (it reads the schema of a qualified name as the table), the standard
\* columns it defines, whether it uses the trigger functions, and whether it has
\* any statement.
Script == [refs : SUBSET Tables, seen : SUBSET Tables, defines : SUBSET Columns,
           triggers : BOOLEAN, blank : BOOLEAN]

ASSUME DDLAssumption ==
    /\ Names \in Seq(Tables) /\ IsInjective(Names)  \* files of one directory
    /\ TriggerFiles \in Seq(Functions)
    /\ Directories \subseteq [Tables -> Script]
    /\ {MaxRuns, MaxFaults} \subseteq Nat

VARIABLES
    script,     \* the directory: table -> its script, never changes
    abort,      \* abort_on_trigger_failure, never changes
    exists,     \* the tables there are
    columns,    \* table -> its standard columns, {} when it does not exist
    extension,  \* the required extensions are installed
    functions,  \* trigger files whose functions are installed
    pc,         \* worker -> where it is
    todo,       \* worker -> trigger files or tables still to do
    missing,    \* worker -> what _check_missing_tables found
    success,    \* worker -> the flag of _create_missing_tables, then the result
    quiet,      \* history: runs that nothing has interfered with or failed in
    runs,
    faults

database == <<exists, columns, extension, functions>>
vars == <<script, abort, database, pc, todo, missing, success, quiet, runs, faults>>

Running(w) == pc[w] \notin {"idle", "ended"}

Init ==
    /\ script \in Directories
    /\ exists \in {T \in SUBSET Tables : \A t \in T : script[t].refs \subseteq T}
    /\ abort \in BOOLEAN
    /\ columns \in {f \in [Tables -> {{}, Columns}] : \A t \in Tables \ exists : f[t] = {}}
    /\ extension \in BOOLEAN
    /\ functions = IF exists = {} THEN {} ELSE Functions
    /\ pc = [w \in Workers |-> "idle"]
    /\ todo = [w \in Workers |-> <<>>]
    /\ missing = [w \in Workers |-> {}]
    /\ success = [w \in Workers |-> FALSE]
    /\ quiet = {}
    /\ runs = 0
    /\ faults = 0

Goto(w, l) == pc' = [pc EXCEPT ![w] = l] /\ UNCHANGED <<script, abort, runs>>

End(w, result) ==
    /\ Goto(w, "ended")
    /\ todo' = [todo EXCEPT ![w] = <<>>]
    /\ success' = [success EXCEPT ![w] = result]

Keep(w) == UNCHANGED <<missing, quiet, faults>>

-----------------------------------------------------------------------------
(* The order of creation                                                    *)

Parents(t) == script[t].refs \ {t}

\* _build_dependency_graph: references to tables of the list itself only.
Graph(list) ==
    [t \in Range(list) |-> (script[t].seen \cap Range(list)) \ {t}]

\* The members of a list that are in T, in the order of the list.
Among(list, T) ==
    LET Some[n \in 0 .. Len(list)] ==
            IF n = 0 THEN <<>>
            ELSE IF list[n] \in T THEN Append(Some[n - 1], list[n]) ELSE Some[n - 1]
    IN Some[Len(list)]

Free(list) == {t \in Range(list) : Graph(list)[t] = {}}

\* Mutant: a table is ready as soon as one of its tables is done.
FreedByAny(list, done, t) ==
    {u \in Range(list) : t \in Graph(list)[u] /\ u \notin Range(done)}

\* The tables whose in-degree, the number of their tables not yet done, becomes zero
\* when t is done, the last of them.
FreedBy(list, done, t) ==
    {u \in Range(list) : t \in Graph(list)[u] /\ Graph(list)[u] \subseteq Range(done)}

\* One table is taken from the queue.
Pop(list, s) ==
    LET t == Head(s.queue)
        done == Append(s.done, t) IN
    [done |-> done, queue |-> Tail(s.queue) \o Among(list, FreedBy(list, done, t))]

\* _topological_sort: Kahn's algorithm.
Order(list) ==
    LET Kahn[n \in 0 .. Len(list)] ==
            IF n = 0 THEN [done |-> <<>>, queue |-> Among(list, Free(list))]
            ELSE LET s == Kahn[n - 1] IN IF s.queue = <<>> THEN s ELSE Pop(list, s)
    IN Kahn[Len(list)].done

-----------------------------------------------------------------------------
(* check_and_init_tables                                                    *)

\* At the start of a worker, or again in one that went on with False.
Begin(w) ==
    /\ ~Running(w)
    /\ runs < MaxRuns
    /\ runs' = runs + 1
    /\ pc' = [pc EXCEPT ![w] = "extensions"]
    /\ todo' = [todo EXCEPT ![w] = TriggerFiles]
    /\ missing' = [missing EXCEPT ![w] = {}]
    /\ success' = [success EXCEPT ![w] = FALSE]
    /\ quiet' = IF \E v \in Workers : Running(v) THEN {} ELSE {w}
    /\ UNCHANGED <<script, abort, database, faults>>

\* CREATE EXTENSION finds it, or begins to create it.
Extensions(w) ==
    /\ pc[w] = "extensions"
    /\ Goto(w, IF extension THEN "triggers" ELSE "extending")
    /\ Keep(w)
    /\ UNCHANGED <<database, todo, success>>

\* Its transaction ends, and fails when another one was first.
Extend(w) ==
    /\ pc[w] = "extending"
    /\ extension' = TRUE
    /\ IF extension
         THEN End(w, FALSE)
         ELSE Goto(w, "triggers") /\ UNCHANGED <<todo, success>>
    /\ Keep(w)
    /\ UNCHANGED <<exists, columns, functions>>

\* One trigger file, CREATE OR REPLACE FUNCTION in one transaction.
Trigger(w) ==
    /\ pc[w] = "triggers"
    /\ todo[w] # <<>>
    /\ functions' = functions \cup {Head(todo[w])}
    /\ todo' = [todo EXCEPT ![w] = Tail(@)]
    /\ Keep(w)
    /\ UNCHANGED <<script, abort, exists, columns, extension, pc, success, runs>>

\* A file that fails is logged, and raised only by abort_on_trigger_failure.
TriggerFails(w) ==
    /\ pc[w] = "triggers"
    /\ todo[w] # <<>>
    /\ faults < MaxFaults
    /\ faults' = faults + 1
    /\ quiet' = quiet \ {w}
    /\ IF abort
         THEN End(w, FALSE)
         ELSE /\ todo' = [todo EXCEPT ![w] = Tail(@)]
              /\ UNCHANGED <<script, abort, pc, success, runs>>
    /\ UNCHANGED <<database, missing>>

\* _check_missing_tables, then the order of creation: a cycle is an exception.
CheckMissing(w) ==
    /\ pc[w] = "triggers"
    /\ todo[w] = <<>>
    /\ LET list == Among(Names, Tables \ exists)
           ordered == Order(list) IN
       /\ missing' = [missing EXCEPT ![w] = Range(list)]
       /\ IF list = <<>> \/ Len(ordered) # Len(list)
            THEN End(w, list = <<>>)
            ELSE /\ Goto(w, "table")
                 /\ todo' = [todo EXCEPT ![w] = ordered]
                 /\ success' = [success EXCEPT ![w] = TRUE]
    /\ UNCHANGED <<database, quiet, faults>>

-----------------------------------------------------------------------------
(* _create_missing_tables, one table after the other                        *)

TableExists(w) ==
    /\ pc[w] = "table"
    /\ todo[w] # <<>>
    /\ Goto(w, IF Head(todo[w]) \in exists THEN "update" ELSE "create")
    /\ Keep(w)
    /\ UNCHANGED <<database, todo, success>>

\* Mutant: an exception is logged and forgotten.
NextTableUnmarked(w) ==
    /\ Goto(w, "table")
    /\ todo' = [todo EXCEPT ![w] = Tail(@)]
    /\ UNCHANGED success

\* An exception is logged and remembered, and the next table is tried.
NextTableFailed(w) ==
    /\ Goto(w, "table")
    /\ todo' = [todo EXCEPT ![w] = Tail(@)]
    /\ success' = [success EXCEPT ![w] = FALSE]

Creatable(t) ==
    /\ t \notin exists
    /\ Parents(t) \subseteq exists
    /\ script[t].triggers => Functions \subseteq functions

\* Mutant: the whole run ends at the first script that cannot be executed.
CreateTableOrStop(w) ==
    LET t == Head(todo[w]) IN
    /\ pc[w] = "create"
    /\ Keep(w)
    /\ UNCHANGED <<extension, functions>>
    /\ IF script[t].blank \/ Creatable(t)
         THEN /\ exists' = IF script[t].blank THEN exists ELSE exists \cup {t}
              /\ columns' = [columns EXCEPT
                                ![t] = IF script[t].blank THEN @ ELSE script[t].defines]
              /\ Goto(w, "columns")
              /\ UNCHANGED <<todo, success>>
         ELSE UNCHANGED <<exists, columns>> /\ End(w, FALSE)

\* The statements of the script in one transaction.  A script without any
\* creates nothing and is no failure yet.
CreateTable(w) ==
    LET t == Head(todo[w]) IN
    /\ pc[w] = "create"
    /\ Keep(w)
    /\ UNCHANGED <<extension, functions>>
    /\ \/ /\ script[t].blank
          /\ Goto(w, "columns")
          /\ UNCHANGED <<exists, columns, todo, success>>
       \/ /\ ~script[t].blank
          /\ Creatable(t)
          /\ exists' = exists \cup {t}
          /\ columns' = [columns EXCEPT ![t] = script[t].defines]
          /\ Goto(w, "columns")
          /\ UNCHANGED <<todo, success>>
       \/ /\ ~script[t].blank
          /\ ~Creatable(t)
          /\ NextTableFailed(w)
          /\ UNCHANGED <<exists, columns>>

\* _update_existing_table_schema: the standard columns the script names, which
\* the table may have lost or never had.
UpdateTable(w) ==
    LET t == Head(todo[w]) IN
    /\ pc[w] = "update"
    /\ columns' = [columns EXCEPT ![t] = @ \cup script[t].defines]
    /\ Goto(w, "columns")
    /\ Keep(w)
    /\ UNCHANGED <<exists, extension, functions, todo, success>>

\* _ensure_required_columns_exist: ALTER TABLE fails on a table that is not there.
EnsureColumns(w) ==
    LET t == Head(todo[w]) IN
    /\ pc[w] = "columns"
    /\ Keep(w)
    /\ UNCHANGED <<exists, extension, functions>>
    /\ \/ /\ t \in exists
          /\ columns' = [columns EXCEPT ![t] = Columns]
          /\ Goto(w, "table")
          /\ todo' = [todo EXCEPT ![w] = Tail(@)]
          /\ UNCHANGED success
       \/ t \notin exists /\ NextTableFailed(w) /\ UNCHANGED columns

Finish(w) ==
    /\ pc[w] = "table"
    /\ todo[w] = <<>>
    /\ End(w, success[w])
    /\ Keep(w)
    /\ UNCHANGED database

\* A transaction of a table fails; one before ends the run.
TransactionFails(w) ==
    /\ faults < MaxFaults
    /\ faults' = faults + 1
    /\ quiet' = quiet \ {w}
    /\ \/ pc[w] = "table" /\ todo[w] # <<>> /\ NextTableFailed(w)
       \/ pc[w] \in {"create", "update", "columns"} /\ NextTableFailed(w)
       \/ pc[w] \in {"extensions", "extending"} /\ End(w, FALSE)
       \/ pc[w] = "triggers" /\ todo[w] = <<>> /\ End(w, FALSE)
    /\ UNCHANGED <<database, missing>>

\* The process is killed; its open transaction is rolled back.
Crash(w) ==
    /\ Running(w)
    /\ pc' = [pc EXCEPT ![w] = "idle"]
    /\ todo' = [todo EXCEPT ![w] = <<>>]
    /\ success' = [success EXCEPT ![w] = FALSE]
    /\ quiet' = quiet \ {w}
    /\ UNCHANGED <<script, abort, database, missing, runs, faults>>

Step(w) ==
    \/ Extensions(w) \/ Extend(w) \/ Trigger(w) \/ CheckMissing(w)
    \/ TableExists(w) \/ CreateTable(w) \/ UpdateTable(w) \/ EnsureColumns(w)
    \/ Finish(w)

Next ==
    \E w \in Workers :
        Step(w) \/ Begin(w) \/ TriggerFails(w) \/ TransactionFails(w) \/ Crash(w)

Spec == Init /\ [][Next]_vars

-----------------------------------------------------------------------------

\* A run that returned True leaves every table of the directory there, and each
\* that it found missing with all standard columns, whatever other workers,
\* crashes and failed transactions did.  The flag is one of many tables, and the
\* loop goes on after a failure (core/ddl_manager.py:244).
SuccessMeansReady ==
    \A w \in Workers :
        pc[w] = "ended" /\ success[w] =>
            /\ Tables \subseteq exists
            /\ \A t \in missing[w] : columns[t] = Columns

\* When the script of a table is about to run, every table it references, as far
\* as the code can see, is there or has been tried before (lines 343-385).
ParentsTriedFirst ==
    \A w \in Workers :
        pc[w] = "create" =>
            \A p \in script[Head(todo[w])].seen \ {Head(todo[w])} :
                p \in exists \/ p \in missing[w] \ Range(todo[w])

\* Tables that cannot be put in order.
Cyclic(T) ==
    \E S \in (SUBSET T) \ {{}} : \A t \in S : script[t].seen \cap (S \ {t}) # {}

\* A run in which nothing failed by itself and no other worker took part leaves
\* no table out that could be created: it repairs what interrupted runs, races
\* and failures before it have left.  The exceptions are an empty script, a cycle,
\* which is an error before the first table, and a reference the code misses.
QuietRunCompletes ==
    \A w \in quiet :
        pc[w] = "ended" /\ ~Cyclic(missing[w]) =>
            \A t \in Tables \ exists :
                \/ script[t].blank
                \/ script[t].seen # script[t].refs
                \/ ~(Parents(t) \subseteq exists)
=============================================================================
