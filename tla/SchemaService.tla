---------------------------- MODULE SchemaService ----------------------------
(***************************************************************************)
(* DDLLoader in front of DDLManager (utils/ddl_manager.py): the loader     *)
(* cuts the files of the directory into statements, one file after the     *)
(* other, and only a manager whose loader has got through all of them      *)
(* applies anything.  The files are the same for all managers of a         *)
(* release; which statements they hold is given by the constants of        *)
(* SchemaDDL, what the cutting does to them is SqlText.                    *)
(***************************************************************************)
EXTENDS SchemaDDL, SqlText

VARIABLE loader  \* "loading", "loaded", or "failed"

serviceVars == <<loader, scanVars, vars>>

ServiceInit ==
    /\ loader = "loading"
    /\ ScanInit
    /\ Init

\* _load_statements and _load_table: the next piece of a file.
LoadItem ==
    /\ loader = "loading"
    /\ \E c \in Items : Scan(c)
    /\ UNCHANGED <<loader, vars>>

\* The end of a file, which leaves nothing behind for the next one; with it the
\* loading may end.  A file of a table without CREATE TABLE is a ValueError.
EndOfFile ==
    /\ loader = "loading"
    /\ WellFormed
    /\ loader' \in {"loading", "loaded", "failed"}
    /\ core' = [mode |-> "plain", cut |-> FALSE]
    /\ schema' = [mode |-> "plain", outer |-> "plain", depth |-> 0, cut |-> FALSE]
    /\ lex' = [mode |-> "plain", inner |-> 0, depth |-> 0, cut |-> FALSE]
    /\ textOnly' = TRUE
    /\ flat' = TRUE
    /\ UNCHANGED vars

Apply ==
    /\ loader = "loaded"
    /\ Next
    /\ UNCHANGED <<loader, scanVars>>

ServiceNext == LoadItem \/ EndOfFile \/ Apply

ServiceSpec == ServiceInit /\ [][ServiceNext]_serviceVars
=============================================================================
