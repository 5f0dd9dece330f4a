---------------------------- MODULE MCResources -----------------------------
(* Two aliases, so that a request can ask for one while the other is being   *)
(* closed; the main loop and one more; three executions of close_resources,  *)
(* so that two can lose the same dicts to the third.                         *)
EXTENDS Resources, TLC

Symmetry == Permutations(Aliases) \cup Permutations(Closers)
=============================================================================
