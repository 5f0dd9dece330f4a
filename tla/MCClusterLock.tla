--------------------------- MODULE MCClusterLock ----------------------------
(* Three calls: one that outlives its lease, one that takes the lock over,   *)
(* one that waits.  Patience is longer than the lease by one unit, so that a *)
(* waiting call can see an expiry and still be refused.                      *)
EXTENDS ClusterLock
=============================================================================
