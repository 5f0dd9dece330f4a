----------------------------- MODULE MCAutoDDL ------------------------------
(* Three tables, the second with a trigger: without references, in a chain    *)
(* against the order of the names, one with two parents, a cycle, a reference *)
(* the code does not see, and a parent whose script is empty.                 *)
EXTENDS AutoDDL, TLC

CONSTANTS a, b, c, flag

MCNames == <<a, b, c>>
MCFiles == <<"updated_at">>

Directory(refs, unseen, blank) ==
    [t \in {a, b, c} |->
        [refs |-> refs[t], seen |-> IF t \in unseen THEN {} ELSE refs[t],
         defines |-> IF t = b THEN {flag} ELSE {},
         triggers |-> t = b, blank |-> t \in blank]]

Refs(ra, rb, rc) == a :> ra @@ b :> rb @@ c :> rc

MCDirectories ==
    {Directory(Refs({}, {}, {}), {}, {}),
     Directory(Refs({b, a}, {c}, {}), {}, {}),
     Directory(Refs({b, c}, {}, {b}), {}, {}),
     Directory(Refs({}, {c}, {b}), {}, {}),
     Directory(Refs({c}, {}, {}), {a}, {}),
     Directory(Refs({b}, {}, {}), {}, {b})}
=============================================================================
