---------------------------- MODULE MCCachedCalls ----------------------------
(* Two calls, by the same or by different users, one of them with number 0;  *)
(* one call may pass in a period of one unit.                                *)
EXTENDS CachedCalls, TLC

Setup(outer, local, parsable, byUser) ==
    [outer |-> outer, local |-> local, parsable |-> parsable, cacheByUser |-> byUser,
     limitByUser |-> byUser /\ ~local]

MCSetups ==
    {Setup("cacher", FALSE, TRUE, TRUE), Setup("limiter", FALSE, TRUE, TRUE),
     Setup("limiter", FALSE, TRUE, FALSE), Setup("cacher", TRUE, TRUE, TRUE),
     Setup("cacher", FALSE, FALSE, TRUE), Setup("limiter", TRUE, FALSE, FALSE)}

Symmetry == Permutations(Calls)
=============================================================================
