--------------------------- MODULE ReadersWriters ---------------------------
(***************************************************************************)
(* What AsyncReadWriteLock promises to its callers, see its docstring        *)
(* (utils/async_read_write_lock.py:14-21): the lock without counters,        *)
(* condition or wait set.  Readers share, a writer is alone, and nobody     *)
(* starts to read while a writer is pending.                               *)
(***************************************************************************)
CONSTANTS Actors, Nobody

VARIABLES
    readers,    \* the actors inside a read section
    writer,     \* the actor inside a write section, or Nobody
    pending     \* the actors waiting to write

vars == <<readers, writer, pending>>

Init == readers = {} /\ writer = Nobody /\ pending = {}

BeginRead(a) ==
    /\ writer = Nobody
    /\ pending = {}
    /\ a \notin readers
    /\ readers' = readers \cup {a}
    /\ UNCHANGED <<writer, pending>>

EndRead(a) ==
    /\ a \in readers
    /\ readers' = readers \ {a}
    /\ UNCHANGED <<writer, pending>>

RequestWrite(a) ==
    /\ a \notin readers \cup pending
    /\ writer # a
    /\ pending' = pending \cup {a}
    /\ UNCHANGED <<readers, writer>>

BeginWrite(a) ==
    /\ writer = Nobody
    /\ readers = {}
    /\ writer' = a
    /\ pending' = pending \ {a}
    /\ UNCHANGED readers

EndWrite(a) ==
    /\ writer = a
    /\ writer' = Nobody
    /\ UNCHANGED <<readers, pending>>

Next ==
    \E a \in Actors :
        \/ BeginRead(a)
        \/ EndRead(a)
        \/ RequestWrite(a)
        \/ BeginWrite(a)
        \/ EndWrite(a)

Spec == Init /\ [][Next]_vars
=============================================================================
