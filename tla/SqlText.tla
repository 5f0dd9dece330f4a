------------------------------- MODULE SqlText -------------------------------
(***************************************************************************)
(* Cutting a script into statements: _split_sql_statements of both DDL     *)
(* managers, run over the same script as the lexer of psql.  A script is   *)
(* any sequence of items: "x" stands for text, "$1" and "$2" for two       *)
(* dollar tags, "nl" for the end of a line, "dq" for the double quote, and *)
(* the others for themselves.                                              *)
(*                                                                         *)
(* A mode is "plain" or the item that opened what the scan is inside of.   *)
(***************************************************************************)
EXTENDS Naturals

CONSTANT MaxDepth  \* bound on the parentheses and comments open at a time

ASSUME DepthAssumption == MaxDepth \in Nat

VARIABLES
    core,      \* AutoDDLManager's splitter: its mode, whether it has just cut
    schema,    \* the other one: also the comment its dollar body is in, and depth
    lex,       \* psql: also the depth of nested comments, and of parentheses
    textOnly,  \* no comment so far held anything but text
    flat       \* no block comment so far held a dollar tag or another comment

scanVars == <<core, schema, lex, textOnly, flat>>

Quotes == {"'", "dq"}
Tags == {"$1", "$2"}
Comments == {"--", "/*"}
Items == Quotes \cup Tags \cup Comments \cup {"x", ";", "nl", "*/", "(", ")"}

Closer(m) == CASE m = "--" -> "nl" [] m = "/*" -> "*/" [] OTHER -> m

\* From one mode to the next, when the items of "openers" open one.
Follow(m, c, openers) ==
    CASE m # "plain" /\ c = Closer(m) -> "plain"
      [] m = "plain" /\ c \in openers -> c
      [] OTHER -> m

\* Parentheses of plain text, a closing one too many ignored.
Nest(depth, m, c) ==
    CASE m = "plain" /\ c = "(" -> depth + 1
      [] m = "plain" /\ c = ")" /\ depth > 0 -> depth - 1
      [] OTHER -> depth

ScanInit ==
    /\ core = [mode |-> "plain", cut |-> FALSE]
    /\ schema = [mode |-> "plain", outer |-> "plain", depth |-> 0, cut |-> FALSE]
    /\ lex = [mode |-> "plain", inner |-> 0, depth |-> 0, cut |-> FALSE]
    /\ textOnly = TRUE
    /\ flat = TRUE

-----------------------------------------------------------------------------

\* Mutant: any dollar tag ends the body.
CoreStepAnyTag(c) ==
    core' = [mode |-> IF core.mode \in Tags /\ c \in Tags
                        THEN "plain" ELSE Follow(core.mode, c, Quotes \cup Tags),
             cut |-> c = ";" /\ core.mode = "plain"]

\* AutoDDLManager: knows quotes and dollar bodies.  Comments are not told from
\* text until the statement has been cut, and parentheses do not count.
CoreStep(c) ==
    core' = [mode |-> Follow(core.mode, c, Quotes \cup Tags),
             cut |-> c = ";" /\ core.mode = "plain"]

\* The other one: a dollar tag opens a body inside a block comment too, after
\* which the comment goes on, and a block comment does not nest.
SchemaStep(c) ==
    LET m == schema.mode
        inBlock == m = "/*" /\ c \in Tags
        backToBlock == schema.outer = "/*" /\ m \in Tags /\ c = m IN
    schema' = [mode |-> CASE inBlock -> c
                          [] backToBlock -> "/*"
                          [] OTHER -> Follow(m, c, Quotes \cup Tags \cup Comments),
               outer |-> CASE inBlock -> "/*"
                           [] backToBlock -> "plain"
                           [] OTHER -> schema.outer,
               depth |-> Nest(schema.depth, m, c),
               cut |-> c = ";" /\ m = "plain" /\ schema.depth = 0]

\* psql: block comments nest, "inner" counts those within the outermost one.
LexStep(c) ==
    LET m == lex.mode IN
    lex' = [mode |-> IF lex.inner > 0
                       THEN m ELSE Follow(m, c, Quotes \cup Tags \cup Comments),
            inner |-> CASE m = "/*" /\ c = "/*" -> lex.inner + 1
                        [] m = "/*" /\ c = "*/" /\ lex.inner > 0 -> lex.inner - 1
                        [] OTHER -> lex.inner,
            depth |-> Nest(lex.depth, m, c),
            cut |-> c = ";" /\ m = "plain" /\ lex.depth = 0]

Scan(c) ==
    /\ (lex.depth < MaxDepth /\ schema.depth < MaxDepth) \/ c # "("
    /\ lex.inner < MaxDepth \/ c # "/*"
    /\ CoreStep(c)
    /\ SchemaStep(c)
    /\ LexStep(c)
    /\ textOnly' = (textOnly /\ (lex.mode \in Comments => c \in {"x", "nl", "*/"}))
    /\ flat' = (flat /\ (lex.mode = "/*" => c \notin Tags \cup {"/*"}))

ScanSpec == ScanInit /\ [][\E c \in Items : Scan(c)]_scanVars

\* A script that can be run ends outside of everything but a line comment.
WellFormed == lex.mode \in {"plain", "--"} /\ lex.depth = 0

\* Both splitters cut a script where psql does: AutoDDLManager's as long as
\* the comments hold nothing but text and no semicolon is between parentheses,
\* the other one unless a block comment holds a dollar tag or another comment.
\* A statement cut in two, or two taken for one, fails, and its table with it.
CutsAgree ==
    /\ textOnly /\ lex.depth = 0 => core.cut = lex.cut
    /\ flat => schema.cut = lex.cut
=============================================================================
