---------------------------- MODULE AsyncRWLock -----------------------------
(***************************************************************************)
(* The coroutine side of AsyncReadWriteLock: every a_* method runs its     *)
(* blocking counterpart through asyncio.to_thread                          *)
(* (utils/async_read_write_lock.py:87-113).  The calls of all coroutines   *)
(* go through the queue of the default executor, and whichever pool worker *)
(* is free takes the next one: current_thread, which the lock records as   *)
(* the owner, is the worker and not the coroutine.  Cancellation of a       *)
(* coroutine is left out.                                                  *)
(***************************************************************************)
EXTENDS RWLock, Sequences

CONSTANTS
    Coroutines,
    Nothing        \* what an idle worker runs

VARIABLES
    pc,       \* coroutine -> "idle", "acquiring", "inside", "releasing", "done"
    section,  \* coroutine -> "read" or "write": the context manager it uses
    queue,    \* the calls submitted and not yet taken by a worker
    runs      \* worker -> the call it runs, or Nothing

vars == <<lockVars, pc, section, queue, runs>>

Call(c, op) == [by |-> c, op |-> op]

Submit(c, op) == queue' = Append(queue, Call(c, op))

Goto(c, l) == pc' = [pc EXCEPT ![c] = l]

Init ==
    /\ LockInit
    /\ pc = [c \in Coroutines |-> "idle"]
    /\ section \in [Coroutines -> {"read", "write"}]
    /\ queue = <<>>
    /\ runs = [w \in Threads |-> Nothing]

-----------------------------------------------------------------------------

\* a_acquire_read or a_acquire_write: the call is queued.
Acquire(c) ==
    /\ pc[c] = "idle"
    /\ Submit(c, "acquire")
    /\ Goto(c, "acquiring")
    /\ UNCHANGED <<lockVars, section, runs>>

\* The finally block of a_read_locked or a_write_locked.
Release(c) ==
    /\ pc[c] = "inside"
    /\ Submit(c, "release")
    /\ Goto(c, "releasing")
    /\ UNCHANGED <<lockVars, section, runs>>

Take(w) ==
    /\ runs[w] = Nothing
    /\ queue # <<>>
    /\ runs' = [runs EXCEPT ![w] = Head(queue)]
    /\ queue' = Tail(queue)
    /\ UNCHANGED <<lockVars, pc, section>>

Finish(w) == runs' = [runs EXCEPT ![w] = Nothing]

RunAcquireRead(w, c) ==
    /\ section[c] = "read"
    /\ waitsFor[w] = "none" \/ WokenReader(w)
    /\ \/ TakeRead(w) /\ Finish(w) /\ Goto(c, "inside")
       \/ SleepForRead(w) /\ UNCHANGED <<runs, pc>>

RunAcquireWrite(w, c) ==
    /\ section[c] = "write"
    /\ \/ /\ waitsFor[w] = "none"
          /\ ReenterWrite(w) \/ TakeWriteAtOnce(w)
          /\ Finish(w)
          /\ Goto(c, "inside")
       \/ waitsFor[w] = "none" /\ AnnounceAndSleep(w) /\ UNCHANGED <<runs, pc>>
       \/ /\ WokenWriter(w)
          /\ TakeWriteWoken(w)
          /\ Finish(w)
          /\ Goto(c, "inside")
       \/ WokenWriter(w) /\ SleepAgainForWrite(w) /\ UNCHANGED <<runs, pc>>

\* A release that raises RuntimeError changes nothing; the exception ends the
\* coroutine's with statement all the same.
RunRelease(w, c) ==
    /\ IF section[c] = "read"
         THEN ReleaseRead \/ (ReleaseReadRaises /\ UNCHANGED lockVars)
         ELSE ReleaseWrite(w) \/ (ReleaseWriteRaises(w) /\ UNCHANGED lockVars)
    /\ Finish(w)
    /\ Goto(c, "done")

Run(w) ==
    /\ runs[w] # Nothing
    /\ LET c == runs[w].by IN
         \/ runs[w].op = "acquire" /\ (RunAcquireRead(w, c) \/ RunAcquireWrite(w, c))
         \/ runs[w].op = "release" /\ RunRelease(w, c)
    /\ UNCHANGED <<section, queue>>

Next ==
    \/ \E c \in Coroutines : Acquire(c) \/ Release(c)
    \/ \E w \in Threads : Take(w) \/ Run(w)

Spec == Init /\ [][Next]_vars

-----------------------------------------------------------------------------

Using(c) == pc[c] \in {"acquiring", "inside", "releasing"}

\* The async context managers release what they acquired: while a worker owns
\* the write lock, some coroutine is between the start of the acquisition and
\* the end of its with statement
\* (async_read_write_lock.py:20, "to ensure timely release").
TimelyRelease ==
    writerThread # NoThread =>
        \E c \in Coroutines : section[c] = "write" /\ Using(c)
=============================================================================
