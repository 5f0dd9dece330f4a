----------------------------- MODULE RWThreads ------------------------------
(***************************************************************************)
(* Threads that use the lock through read_locked and write_locked, the way *)
(* core/config.py does: a thread is in one read section or in a write      *)
(* section, which it may enter again from inside (the only nesting in the  *)
(* code, _set_active_config_class and reset calling                        *)
(* _ensure_cache_initialized).                                             *)
(***************************************************************************)
EXTENDS RWLock

CONSTANT MaxDepth   \* bound on nested write sections

ASSUME MaxDepthAssumption == MaxDepth \in Nat \ {0}

VARIABLE holds      \* the section each thread is inside: "none", "read", "write"

vars == <<lockVars, holds>>

Outside(t) == holds[t] = "none" /\ waitsFor[t] = "none"

Enter(t, section) == holds' = [holds EXCEPT ![t] = section]

Leave(t) == holds' = [holds EXCEPT ![t] = "none"]

-----------------------------------------------------------------------------

Init == LockInit /\ holds = [t \in Threads |-> "none"]

\* acquire_read, up to the first wait or to its return.
AcquireRead(t) ==
    /\ Outside(t)
    /\ \/ TakeRead(t) /\ Enter(t, "read")
       \/ SleepForRead(t) /\ UNCHANGED holds

\* acquire_read, from the return of a wait to the next wait or its return.
ResumeRead(t) ==
    /\ WokenReader(t)
    /\ \/ TakeRead(t) /\ Enter(t, "read")
       \/ SleepForRead(t) /\ UNCHANGED holds

\* The finally block of read_locked.
ExitRead(t) == holds[t] = "read" /\ ReleaseRead /\ Leave(t)

AcquireWrite(t) ==
    /\ Outside(t)
    /\ \/ TakeWriteAtOnce(t) /\ Enter(t, "write")
       \/ AnnounceAndSleep(t) /\ UNCHANGED holds

ResumeWrite(t) ==
    /\ WokenWriter(t)
    /\ \/ TakeWriteWoken(t) /\ Enter(t, "write")
       \/ SleepAgainForWrite(t) /\ UNCHANGED holds

NestWrite(t) ==
    /\ holds[t] = "write"
    /\ writeDepth < MaxDepth
    /\ ReenterWrite(t)
    /\ UNCHANGED holds

\* The finally block of write_locked, of the outermost section or a nested one.
ExitWrite(t) ==
    /\ holds[t] = "write"
    /\ ReleaseWrite(t)
    /\ IF writeDepth = 1 THEN Leave(t) ELSE UNCHANGED holds

Step(t) ==
    \/ AcquireRead(t)  \/ ResumeRead(t)  \/ ExitRead(t)
    \/ AcquireWrite(t) \/ ResumeWrite(t) \/ NestWrite(t) \/ ExitWrite(t)

Next == \E t \in Threads : Step(t)

\* A thread that the condition woke gets _main_lock eventually, and a section
\* ends: the bodies of the with statements of the code only copy dictionaries.
\* Nothing obliges a thread to start a section.
Fairness ==
    \A t \in Threads :
        /\ WF_vars(ResumeRead(t))
        /\ WF_vars(ResumeWrite(t))
        /\ WF_vars(ExitRead(t))
        /\ WF_vars(ExitWrite(t))

Spec == Init /\ [][Next]_vars

FairSpec == Spec /\ Fairness

-----------------------------------------------------------------------------

TypeOK ==
    /\ LockTypeOK
    /\ holds \in [Threads -> {"none", "read", "write"}]

Readers == {t \in Threads : holds[t] = "read"}

Writers == {t \in Threads : waitsFor[t] = "write"}

\* The two counters and the owner agree with what the threads are doing:
\* _num_readers counts the threads inside a read section,
\* _num_writers_waiting those inside the acquire_write loop, and the
\* recursion depth is zero exactly when nobody owns the lock
\* (async_read_write_lock.py:31-69).
CountsMatch ==
    /\ numReaders = Cardinality(Readers)
    /\ numWritersWaiting = Cardinality(Writers)
    /\ \A t \in Threads : holds[t] = "write" <=> writerThread = t
    /\ writeDepth = 0 <=> writerThread = NoThread

\* A thread inside a write section is alone: no other thread is inside any
\* section (the purpose of the lock, async_read_write_lock.py:17).
Exclusion ==
    \A t, u \in Threads :
        t # u /\ holds[t] = "write" => holds[u] = "none"

\* The monitor implements the abstract lock: every method call is one of the
\* abstract operations or changes nothing a caller can see.  In particular
\* nobody starts to read while a writer is pending
\* (async_read_write_lock.py:18, "Writers have priority").
RW == INSTANCE ReadersWriters
        WITH Actors <- Threads, Nobody <- NoThread,
             readers <- Readers, writer <- writerThread, pending <- Writers

ImplementsReadersWriters == RW!Spec

\* Readers cannot starve the writers: once a thread waits to write, some
\* thread becomes the writer, however many readers keep coming
\* (async_read_write_lock.py:18, "to prevent starvation").
WritersNotStarved == Writers # {} ~> writerThread # NoThread
=============================================================================
