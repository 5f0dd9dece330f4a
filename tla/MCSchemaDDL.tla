---------------------------- MODULE MCSchemaDDL -----------------------------
(* Two managers and two tables, the second referencing the first.  The second *)
(* release makes a column of a its primary key, which _extract_columns reads  *)
(* as the column of the first, and adds an index to b.                        *)
EXTENDS SchemaService, TLC

CONSTANTS a, b

MCNames == <<a, b>>
MCRefs == [t \in {a, b} |-> IF t = a THEN {} ELSE {a}]
MCShape == [t \in {a, b} |-> IF t = a THEN <<1, 2>> ELSE <<1, 1>>]
MCParsed == [t \in {a, b} |-> <<1, 1>>]
Symmetry == Permutations(Managers)
=============================================================================
