---------------------------- MODULE ConfigProxy -----------------------------
(***************************************************************************)
(* LinglongConfigProxy (core/config.py): a cache of the attributes of the  *)
(* active config class, filled on first use and guarded by an              *)
(* AsyncReadWriteLock.  Several threads call its operations.               *)
(*                                                                         *)
(* What runs between two lock calls is one action.  The code outside the   *)
(* lock is split where another thread can come between: the test of        *)
(* _cache_initialized, hasattr and getattr on the active class, and the    *)
(* write-back of what they found.  A critical section that writes several  *)
(* attributes is still one action, since the code outside the lock reads   *)
(* one attribute at a time.                                                *)
(***************************************************************************)
EXTENDS RWLock

CONSTANTS
    Keys,        \* public upper-case attribute names
    Values,
    Absent,      \* no attribute of that name, or no such key in the cache
    Classes,     \* the config classes
    FirstClass,  \* LinglongConfigBase, the active class at import
    ClassAttrs,  \* what each class defines: [Classes -> [Keys -> values]]
    Updates,     \* arguments of __setattr__ and apply_updates
    Dicts,       \* arguments of load_from_dict
    MaxOps       \* bound on the calls each thread makes

MaybeValue == Values \cup {Absent}

Empty == [k \in Keys |-> Absent]

ASSUME ConfigAssumption ==
    /\ Absent \notin Values
    /\ FirstClass \in Classes
    /\ ClassAttrs \in [Classes -> [Keys -> MaybeValue]]
    /\ Updates \subseteq [Keys -> MaybeValue] \ {Empty}   \* an empty batch returns at once
    /\ Dicts \subseteq [Keys -> MaybeValue]
    /\ MaxOps \in Nat

VARIABLES
    activeClass,        \* _active_config_class
    attrs,              \* the attributes of every config class
    cache,              \* _config_cache
    cacheInitialized,   \* _cache_initialized
    pc,                 \* where each thread is
    call,               \* the call it is in: operation and argument, or NoCall
    found,              \* the value its getattr returned, until the call ends
    callsMade,          \* calls it has started
    writtenBack         \* history: keys last cached by a write-back

configVars == <<activeClass, attrs, cache, cacheInitialized, writtenBack>>

vars == <<lockVars, configVars, pc, call, found, callsMade>>

\* dict.update, and a loop of setattr over a dict.
Merge(f, g) == [k \in Keys |-> IF g[k] = Absent THEN f[k] ELSE g[k]]

Present(f) == {k \in Keys : f[k] # Absent}

Calls ==
    [op : {"get"}, key : Keys]
    \cup [op : {"snapshot", "reset"}]
    \cup [op : {"update"}, batch : Updates]
    \cup [op : {"load"}, batch : Dicts]
    \cup [op : {"switch"}, cls : Classes]

NoCall == [op |-> "none"]

Op(t) == call[t].op

\* The next step of a call; at "idle" the call has ended and its frame is gone.
Goto(t, l) ==
    /\ pc' = [pc EXCEPT ![t] = l]
    /\ call' = IF l = "idle" THEN [call EXCEPT ![t] = NoCall] ELSE call
    /\ found' = IF l = "idle" THEN [found EXCEPT ![t] = Absent] ELSE found
    /\ UNCHANGED callsMade

Stay == UNCHANGED <<pc, call, found, callsMade>>

-----------------------------------------------------------------------------

Init ==
    /\ LockInit
    /\ activeClass = FirstClass
    /\ attrs = ClassAttrs
    /\ cache = Empty
    /\ cacheInitialized = FALSE
    /\ pc = [t \in Threads |-> "idle"]
    /\ call = [t \in Threads |-> NoCall]
    /\ found = [t \in Threads |-> Absent]
    /\ callsMade = [t \in Threads |-> 0]
    /\ writtenBack = {}

\* The with statements of the code: what a thread does at label l0 and l1
\* around a critical section.  A thread stays at l0 until it has the lock.
LockWrite(t, l0, l1) ==
    /\ pc[t] = l0
    /\ \/ /\ waitsFor[t] = "none"
          /\ ReenterWrite(t) \/ TakeWriteAtOnce(t)
          /\ Goto(t, l1)
       \/ waitsFor[t] = "none" /\ AnnounceAndSleep(t) /\ Stay
       \/ WokenWriter(t) /\ TakeWriteWoken(t) /\ Goto(t, l1)
       \/ WokenWriter(t) /\ SleepAgainForWrite(t) /\ Stay
    /\ UNCHANGED configVars

LockRead(t, l0, l1) ==
    /\ pc[t] = l0
    /\ waitsFor[t] = "none" \/ WokenReader(t)
    /\ \/ TakeRead(t) /\ Goto(t, l1)
       \/ SleepForRead(t) /\ Stay
    /\ UNCHANGED configVars

UnlockWrite(t, l0, l1) ==
    /\ pc[t] = l0
    /\ ReleaseWrite(t)
    /\ Goto(t, l1)
    /\ UNCHANGED configVars

UnlockRead(t, l0, l1) ==
    /\ pc[t] = l0
    /\ ReleaseRead
    /\ Goto(t, l1)
    /\ UNCHANGED configVars

-----------------------------------------------------------------------------
(* Start of a call.  get, snapshot and updates begin with                   *)
(* _ensure_cache_initialized; reset, load_from_dict and                     *)
(* _set_active_config_class begin with the write lock.                      *)

Begin(t) ==
    /\ pc[t] = "idle"
    /\ callsMade[t] < MaxOps
    /\ \E c \in Calls :
         /\ call' = [call EXCEPT ![t] = c]
         /\ pc' = [pc EXCEPT ![t] = IF c.op \in {"get", "snapshot", "update"}
                                      THEN "check" ELSE "lock_rebuild"]
    /\ callsMade' = [callsMade EXCEPT ![t] = @ + 1]
    /\ UNCHANGED <<lockVars, configVars, found>>

-----------------------------------------------------------------------------
(* _ensure_cache_initialized: an unlocked test, then the write lock and a   *)
(* second test.  Its caller goes on at AfterEnsure.                         *)

AfterEnsure(t) ==
    CASE Op(t) \in {"get", "snapshot"}  -> "lock_read"
      [] Op(t) = "update"               -> "lock_update"
      [] Op(t) \in {"reset", "switch"}  -> "unlock_rebuild"
      [] Op(t) = "load"                 -> "idle"

CheckInitialized(t) ==
    /\ pc[t] = "check"
    /\ Goto(t, IF cacheInitialized THEN AfterEnsure(t) ELSE "lock_fill")
    /\ UNCHANGED <<lockVars, configVars>>

LockFill(t) == LockWrite(t, "lock_fill", "fill")

Fill(t) ==
    /\ pc[t] = "fill"
    /\ IF cacheInitialized
         THEN UNCHANGED configVars
         ELSE /\ cache' = Merge(cache, attrs[activeClass])
              /\ cacheInitialized' = TRUE
              /\ writtenBack' = {}
              /\ UNCHANGED <<activeClass, attrs>>
    /\ Goto(t, "unlock_fill")
    /\ UNCHANGED lockVars

UnlockFill(t) == UnlockWrite(t, "unlock_fill", AfterEnsure(t))

-----------------------------------------------------------------------------
(* get and __getattr__: the cache under the read lock; if the key is not    *)
(* there, the active class without a lock; what that gave is then cached    *)
(* under the write lock.                                                    *)

LockForReading(t) == LockRead(t, "lock_read", "read")

ReadCache(t) ==
    /\ pc[t] = "read"
    /\ Op(t) = "get"
    /\ Goto(t, IF call[t].key \in Present(cache) THEN "unlock_read"
                                                 ELSE "unlock_missed")
    /\ UNCHANGED <<lockVars, configVars>>

UnlockAfterRead(t) == UnlockRead(t, "unlock_read", "idle")

\* Mutant: goes to the slow path with the read lock still held.
UnlockMissedNever(t) ==
    pc[t] = "unlock_missed" /\ Goto(t, "hasattr") /\ UNCHANGED <<lockVars, configVars>>

UnlockMissed(t) == UnlockRead(t, "unlock_missed", "hasattr")

\* Without the attribute get returns the default and __getattr__ raises.
HasAttr(t) ==
    /\ pc[t] = "hasattr"
    /\ Goto(t, IF call[t].key \in Present(attrs[activeClass]) THEN "getattr"
                                                              ELSE "idle")
    /\ UNCHANGED <<lockVars, configVars>>

\* The class is looked at a second time; if it has changed and lacks the
\* attribute, AttributeError ends the call.
GetAttr(t) ==
    /\ pc[t] = "getattr"
    /\ LET value == attrs[activeClass][call[t].key] IN
         IF value = Absent
           THEN Goto(t, "idle")
           ELSE /\ found' = [found EXCEPT ![t] = value]
                /\ pc' = [pc EXCEPT ![t] = "lock_write_back"]
                /\ UNCHANGED <<call, callsMade>>
    /\ UNCHANGED <<lockVars, configVars>>

\* Mutant: writes back under the read lock.
LockWriteBackShared(t) == LockRead(t, "lock_write_back", "write_back")

LockWriteBack(t) == LockWrite(t, "lock_write_back", "write_back")

WriteBack(t) ==
    /\ pc[t] = "write_back"
    /\ cache' = [cache EXCEPT ![call[t].key] = found[t]]
    /\ writtenBack' = writtenBack \cup {call[t].key}
    /\ Goto(t, "unlock_write_back")
    /\ UNCHANGED <<lockVars, activeClass, attrs, cacheInitialized>>

UnlockWriteBack(t) == UnlockWrite(t, "unlock_write_back", "idle")

-----------------------------------------------------------------------------

\* snapshot: the copy is of the cache as it is now.
TakeSnapshot(t) ==
    /\ pc[t] = "read"
    /\ Op(t) = "snapshot"
    /\ Goto(t, "unlock_read")
    /\ UNCHANGED <<lockVars, configVars>>

-----------------------------------------------------------------------------
(* __setattr__ and apply_updates: cache and class together.                 *)

LockUpdate(t) == LockWrite(t, "lock_update", "update")

\* Mutant: updates the cache and forgets the class.
ApplyUpdatesToCache(t) ==
    /\ pc[t] = "update"
    /\ cache' = Merge(cache, call[t].batch)
    /\ writtenBack' = writtenBack \ Present(call[t].batch)
    /\ Goto(t, "unlock_update")
    /\ UNCHANGED <<lockVars, activeClass, attrs, cacheInitialized>>

ApplyUpdates(t) ==
    /\ pc[t] = "update"
    /\ LET batch == call[t].batch IN
         /\ cache' = Merge(cache, batch)
         /\ attrs' = [attrs EXCEPT ![activeClass] = Merge(@, batch)]
         /\ writtenBack' = writtenBack \ Present(batch)
    /\ Goto(t, "unlock_update")
    /\ UNCHANGED <<lockVars, activeClass, cacheInitialized>>

UnlockUpdate(t) == UnlockWrite(t, "unlock_update", "idle")

-----------------------------------------------------------------------------
(* reset, _set_active_config_class and load_from_dict.                      *)

LockRebuild(t) == LockWrite(t, "lock_rebuild", "rebuild")

\* Mutant: gives up the write lock before the cache is filled again.
ClearCacheOnly(t) ==
    /\ pc[t] = "rebuild"
    /\ Op(t) \in {"reset", "switch"}
    /\ activeClass' = IF Op(t) = "switch" THEN call[t].cls ELSE activeClass
    /\ cache' = Empty
    /\ cacheInitialized' = FALSE
    /\ writtenBack' = {}
    /\ Goto(t, "unlock_rebuild")
    /\ UNCHANGED <<lockVars, attrs>>

ClearCache(t) ==
    /\ pc[t] = "rebuild"
    /\ Op(t) \in {"reset", "switch"}
    /\ activeClass' = IF Op(t) = "switch" THEN call[t].cls ELSE activeClass
    /\ cache' = Empty
    /\ cacheInitialized' = FALSE
    /\ writtenBack' = {}
    /\ Goto(t, "check")
    /\ UNCHANGED <<lockVars, attrs>>

LoadFromDict(t) ==
    /\ pc[t] = "rebuild"
    /\ Op(t) = "load"
    /\ cache' = call[t].batch
    /\ attrs' = [attrs EXCEPT ![activeClass] = Merge(@, call[t].batch)]
    /\ cacheInitialized' = TRUE
    /\ writtenBack' = {}
    /\ Goto(t, "unlock_rebuild")
    /\ UNCHANGED <<lockVars, activeClass>>

\* load_from_dict calls _ensure_cache_initialized once more, unlocked.
UnlockRebuild(t) ==
    UnlockWrite(t, "unlock_rebuild", IF Op(t) = "load" THEN "check" ELSE "idle")

-----------------------------------------------------------------------------

Continue(t) ==
    \/ CheckInitialized(t) \/ LockFill(t) \/ Fill(t) \/ UnlockFill(t)
    \/ LockForReading(t) \/ ReadCache(t) \/ UnlockAfterRead(t) \/ UnlockMissed(t)
    \/ HasAttr(t) \/ GetAttr(t)
    \/ LockWriteBack(t) \/ WriteBack(t) \/ UnlockWriteBack(t)
    \/ TakeSnapshot(t)
    \/ LockUpdate(t) \/ ApplyUpdates(t) \/ UnlockUpdate(t)
    \/ LockRebuild(t) \/ ClearCache(t) \/ LoadFromDict(t) \/ UnlockRebuild(t)

Next == \E t \in Threads : Begin(t) \/ Continue(t)

Spec == Init /\ [][Next]_vars

\* A call that has begun goes on: no thread is stopped, and _main_lock is free
\* again after finitely many instructions.
FairSpec == Spec /\ \A t \in Threads : WF_vars(Continue(t))

-----------------------------------------------------------------------------

Labels ==
    {"idle", "check", "lock_fill", "fill", "unlock_fill", "lock_read", "read",
     "unlock_read", "unlock_missed", "hasattr", "getattr", "lock_write_back",
     "write_back", "unlock_write_back", "lock_update", "update",
     "unlock_update", "lock_rebuild", "rebuild", "unlock_rebuild"}

TypeOK ==
    /\ LockTypeOK
    /\ activeClass \in Classes
    /\ attrs \in [Classes -> [Keys -> MaybeValue]]
    /\ cache \in [Keys -> MaybeValue]
    /\ cacheInitialized \in BOOLEAN
    /\ pc \in [Threads -> Labels]
    /\ call \in [Threads -> Calls \cup {NoCall}]
    /\ found \in [Threads -> MaybeValue]
    /\ callsMade \in [Threads -> 0 .. MaxOps]
    /\ writtenBack \in SUBSET Keys

\* A thread that has the read lock never sees the cache between the clear and
\* the refill of reset or _set_active_config_class, although it tested
\* _cache_initialized before it asked for the lock (config.py:102-111, 128-130).
ReadersSeeFilledCache == numReaders > 0 => cacheInitialized

\* While nobody writes, a cached value is the attribute of the active class,
\* whatever calls have raced, except for keys that get or __getattr__ wrote
\* back (config.py:132-136): what they write was read without the lock.
CacheAgreesWithClass ==
    writerThread = NoThread =>
        \A k \in Present(cache) \ writtenBack : cache[k] = attrs[activeClass][k]

\* No step changes the configuration while a thread has the read lock
\* (config.py:93-94, "thread-safe caching").
StableUnderReaders == [][numReaders > 0 => UNCHANGED configVars]_vars

\* Every call ends: no order of nested write locks, read locks and upgrades by
\* way of release and acquire leaves threads waiting for each other.
CallsEnd == \A t \in Threads : pc[t] # "idle" ~> pc[t] = "idle"

\* When every class, update and dict gives all keys one value, so does the
\* copy a snapshot is about to take (tests/test_config.py:36-39, "Batched
\* config updates should not expose mixed intermediate snapshots").
SnapshotNotMixed ==
    \A t \in Threads :
        pc[t] = "read" /\ Op(t) = "snapshot" =>
            \A k, l \in Present(cache) : cache[k] = cache[l]
=============================================================================
