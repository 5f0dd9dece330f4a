---------------------------- MODULE MCRWThreads -----------------------------
(* Four threads: two readers can alternate while one writer waits and       *)
(* another holds the lock; sections nest twice.                             *)
EXTENDS RWThreads
=============================================================================
