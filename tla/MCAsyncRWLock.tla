--------------------------- MODULE MCAsyncRWLock ----------------------------
(* Two coroutines over a pool of two workers.                               *)
EXTENDS AsyncRWLock
=============================================================================
