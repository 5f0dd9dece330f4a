------------------------------- MODULE RWLock -------------------------------
(***************************************************************************)
(* The monitor of AsyncReadWriteLock (utils/async_read_write_lock.py).     *)
(*                                                                         *)
(* Every method body runs under _main_lock and gives it up only inside     *)
(* Condition.wait, so the stretch from one lock acquisition to the next    *)
(* release is one action.  A thread that evaluates its loop condition to   *)
(* TRUE goes to sleep in the wait set of _condition; notify_all empties    *)
(* the wait set, and every woken thread evaluates its condition again when *)
(* it gets _main_lock back, in any order.                                  *)
(*                                                                         *)
(* The module has no Init/Next of a whole system: RWThreads, AsyncRWLock   *)
(* and ConfigProxy drive these actions with the callers they model.        *)
(***************************************************************************)
EXTENDS Naturals, FiniteSets

CONSTANTS
    Threads,     \* the threads that call the lock
    NoThread     \* the None of _writer_thread

ASSUME NoThreadAssumption == NoThread \notin Threads

ASSUME ThreadsAssumption == IsFiniteSet(Threads)

VARIABLES
    numReaders,          \* _num_readers
    numWritersWaiting,   \* _num_writers_waiting
    writerThread,        \* _writer_thread
    writeDepth,          \* _write_recursion_depth
    waitsFor,            \* the acquire loop each thread is inside, or "none"
    asleep               \* the wait set of _condition

lockVars == <<numReaders, numWritersWaiting, writerThread, writeDepth,
              waitsFor, asleep>>

-----------------------------------------------------------------------------

LockTypeOK ==
    /\ numReaders \in Nat
    /\ numWritersWaiting \in Nat
    /\ writerThread \in Threads \cup {NoThread}
    /\ writeDepth \in Nat
    /\ waitsFor \in [Threads -> {"none", "read", "write"}]
    /\ asleep \in SUBSET Threads

LockInit ==
    /\ numReaders = 0
    /\ numWritersWaiting = 0
    /\ writerThread = NoThread
    /\ writeDepth = 0
    /\ waitsFor = [t \in Threads |-> "none"]
    /\ asleep = {}

\* Mutants of the loop conditions: a reader that looks only at the owner, a
\* writer that looks only at the owner.
ReadBlockedByOwnerOnly == writerThread # NoThread

WriteBlockedByOwnerOnly == writerThread # NoThread

\* The loop conditions of acquire_read and acquire_write.
ReadBlocked == numWritersWaiting > 0 \/ writerThread # NoThread

WriteBlocked == numReaders > 0 \/ writerThread # NoThread

NotifyAll == asleep' = {}

-----------------------------------------------------------------------------
(* acquire_read: the loop exits and the thread is counted, or it waits.     *)

TakeRead(t) ==
    /\ ~ReadBlocked
    /\ numReaders' = numReaders + 1
    /\ waitsFor' = [waitsFor EXCEPT ![t] = "none"]
    /\ UNCHANGED <<numWritersWaiting, writerThread, writeDepth, asleep>>

SleepForRead(t) ==
    /\ ReadBlocked
    /\ waitsFor' = [waitsFor EXCEPT ![t] = "read"]
    /\ asleep' = asleep \cup {t}
    /\ UNCHANGED <<numReaders, numWritersWaiting, writerThread, writeDepth>>

WokenReader(t) == waitsFor[t] = "read" /\ t \notin asleep

ReleaseReadRaises == numReaders = 0

\* Mutant: the last reader leaves without notify_all.
ReleaseReadSilently ==
    /\ ~ReleaseReadRaises
    /\ numReaders' = numReaders - 1
    /\ UNCHANGED <<numWritersWaiting, writerThread, writeDepth, waitsFor, asleep>>

ReleaseRead ==
    /\ ~ReleaseReadRaises
    /\ numReaders' = numReaders - 1
    /\ IF numReaders = 1 THEN NotifyAll ELSE UNCHANGED asleep
    /\ UNCHANGED <<numWritersWaiting, writerThread, writeDepth, waitsFor>>

-----------------------------------------------------------------------------
(* acquire_write: the owner only deepens; any other thread announces        *)
(* itself, and if it need not wait withdraws the announcement in the same   *)
(* critical section.                                                        *)

ReenterWrite(t) ==
    /\ writerThread = t
    /\ writeDepth' = writeDepth + 1
    /\ UNCHANGED <<numReaders, numWritersWaiting, writerThread, waitsFor,
                   asleep>>

BecomeWriter(t) ==
    /\ ~WriteBlocked
    /\ writerThread' = t
    /\ writeDepth' = 1
    /\ waitsFor' = [waitsFor EXCEPT ![t] = "none"]
    /\ UNCHANGED <<numReaders, asleep>>

\* Mutant: withdraws an announcement that was never made.
TakeWriteAtOnceUnannounced(t) ==
    BecomeWriter(t) /\ numWritersWaiting' = numWritersWaiting - 1

TakeWriteAtOnce(t) == BecomeWriter(t) /\ UNCHANGED numWritersWaiting

AnnounceAndSleep(t) ==
    /\ WriteBlocked
    /\ writerThread # t
    /\ numWritersWaiting' = numWritersWaiting + 1
    /\ waitsFor' = [waitsFor EXCEPT ![t] = "write"]
    /\ asleep' = asleep \cup {t}
    /\ UNCHANGED <<numReaders, writerThread, writeDepth>>

WokenWriter(t) == waitsFor[t] = "write" /\ t \notin asleep

\* Mutant: becomes the writer and stays counted as waiting.
TakeWriteWokenStillCounted(t) == BecomeWriter(t) /\ UNCHANGED numWritersWaiting

TakeWriteWoken(t) ==
    /\ BecomeWriter(t)
    /\ numWritersWaiting' = numWritersWaiting - 1

SleepAgainForWrite(t) ==
    /\ WriteBlocked
    /\ asleep' = asleep \cup {t}
    /\ UNCHANGED <<numReaders, numWritersWaiting, writerThread, writeDepth,
                   waitsFor>>

ReleaseWriteRaises(t) == writerThread # t

ReleaseWrite(t) ==
    /\ ~ReleaseWriteRaises(t)
    /\ writeDepth' = writeDepth - 1
    /\ IF writeDepth = 1
         THEN writerThread' = NoThread /\ NotifyAll
         ELSE UNCHANGED <<writerThread, asleep>>
    /\ UNCHANGED <<numReaders, numWritersWaiting, waitsFor>>

-----------------------------------------------------------------------------

\* A sleeping thread's loop condition still holds, so no notify_all that it
\* needed has been missed: release_read notifies only when the count reaches
\* zero and release_write only when the depth does
\* (async_read_write_lock.py:42-43, 67-69).
NoLostWakeup ==
    \A t \in asleep : \/ waitsFor[t] = "read" /\ ReadBlocked
                      \/ waitsFor[t] = "write" /\ WriteBlocked
=============================================================================
