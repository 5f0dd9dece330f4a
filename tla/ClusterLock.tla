---------------------------- MODULE ClusterLock -----------------------------
(***************************************************************************)
(* The cluster_lock decorator (core/cluster_lock.py): calls of decorated   *)
(* functions in several processes share one Redis key.  Redis and the lock *)
(* object of redis-py are modelled as wrapper uses them: the key is set if *)
(* absent with a token of the call and a time to live, deleted only by the *)
(* token that set it, and expires by itself.  Acquisition retries until    *)
(* its patience is over.                                                   *)
(*                                                                         *)
(* Time is counted down: a tick takes one unit from the lease and from the *)
(* patience of every call that waits.  Each call is made once.             *)
(***************************************************************************)
EXTENDS Naturals, FiniteSets

CONSTANTS
    Calls,       \* calls of functions with the same lock key
    NoCall,      \* the key is absent
    Ttl,         \* timeout_seconds
    Patience     \* blocking_timeout_seconds, or timeout_seconds if None

ASSUME ClusterLockAssumption ==
    /\ NoCall \notin Calls
    /\ Ttl \in Nat \ {0}        \* decorating with a timeout <= 0 raises
    /\ Patience \in Nat

VARIABLES
    hasPool,    \* call -> its process has a Redis pool
    stage,      \* call -> where it is
    holder,     \* the call whose token the key holds
    lease,      \* time the key has still to live
    patience,   \* call -> time it goes on trying
    held        \* history: call -> time since its lock was set, up to Ttl

lockVars == <<hasPool, stage, holder, lease, patience, held>>

Proceed(c, l) == stage' = [stage EXCEPT ![c] = l]

Ended(c) == stage[c] \in {"returned", "refused", "raised", "crashed"}

LockInit ==
    /\ hasPool \in [Calls -> BOOLEAN]
    /\ stage = [c \in Calls |-> "idle"]
    /\ holder = NoCall
    /\ lease = 0
    /\ patience = [c \in Calls |-> Patience]
    /\ held = [c \in Calls |-> 0]

-----------------------------------------------------------------------------

\* Without a pool the function runs with no lock at all.
Enter(c) ==
    /\ stage[c] = "idle"
    /\ Proceed(c, IF hasPool[c] THEN "acquiring" ELSE "unguarded")
    /\ UNCHANGED <<hasPool, holder, lease, patience, held>>

\* SET NX PX.
SetKey(c) ==
    /\ stage[c] = "acquiring"
    /\ holder = NoCall
    /\ holder' = c
    /\ lease' = Ttl
    /\ UNCHANGED <<hasPool, patience, held>>

\* Mutant: the lock is created without its timeout.
AcquireForEver(c) ==
    /\ stage[c] = "acquiring"
    /\ holder = NoCall
    /\ holder' = c
    /\ UNCHANGED <<hasPool, lease, patience, held>>
    /\ Proceed(c, "running")

\* Mutant: the waiting time is passed as the lock's timeout.
AcquireForPatience(c) ==
    /\ stage[c] = "acquiring"
    /\ holder = NoCall
    /\ holder' = c
    /\ lease' = Patience
    /\ UNCHANGED <<hasPool, patience, held>>
    /\ Proceed(c, "running")

Acquire(c) == SetKey(c) /\ Proceed(c, "running")

\* Redis fails during the acquisition, before or after it has set the key;
\* wrapper logs and raises.
AcquireRaises(c) ==
    /\ stage[c] = "acquiring"
    /\ Proceed(c, "raised")
    /\ \/ UNCHANGED <<hasPool, holder, lease, patience, held>>
       \/ SetKey(c)

\* Mutant: goes on without looking at what acquire returned.
GiveUpAndRun(c) ==
    /\ stage[c] = "acquiring"
    /\ holder # NoCall
    /\ patience[c] = 0
    /\ Proceed(c, "running")
    /\ UNCHANGED <<hasPool, holder, lease, patience, held>>

\* acquire returns False: on_fail or ClusterLockError, in either case without
\* the function.
GiveUp(c) ==
    /\ stage[c] = "acquiring"
    /\ holder # NoCall
    /\ patience[c] = 0
    /\ Proceed(c, "refused")
    /\ UNCHANGED <<hasPool, holder, lease, patience, held>>

\* The function returns or raises; with a lock the finally block follows.
FunctionEnds(c) ==
    /\ \/ stage[c] = "running" /\ Proceed(c, "releasing")
       \/ stage[c] = "unguarded" /\ Proceed(c, "returned")
    /\ UNCHANGED <<hasPool, holder, lease, patience, held>>

\* Mutant: deletes the key whoever holds it.
ReleaseAnyone(c) ==
    /\ stage[c] = "releasing"
    /\ Proceed(c, "returned")
    /\ holder' = NoCall
    /\ lease' = 0
    /\ UNCHANGED <<hasPool, patience, held>>

\* release deletes the key if the token is still there; if the lease has run
\* out, or Redis fails, the error is logged and the key stays as it is.  The
\* test of lock.locked() is that of a coroutine object and always true.
Release(c) ==
    /\ stage[c] = "releasing"
    /\ Proceed(c, "returned")
    /\ \/ holder = c /\ holder' = NoCall /\ lease' = 0
       \/ UNCHANGED <<holder, lease>>
    /\ UNCHANGED <<hasPool, patience, held>>

\* The process of a call ends at any point.
CallCrashes(c) ==
    /\ stage[c] # "idle"
    /\ ~Ended(c)
    /\ Proceed(c, "crashed")
    /\ UNCHANGED <<hasPool, holder, lease, patience, held>>

\* A unit of time.  Calls retry many times in a unit: one whose patience is
\* over has returned, and no call misses a key that is free.
Tick ==
    /\ \A c \in Calls : stage[c] = "acquiring" => patience[c] > 0 /\ holder # NoCall
    /\ \E c \in Calls : stage[c] = "acquiring" \/ holder = c
    /\ lease' = IF lease = 0 THEN 0 ELSE lease - 1
    /\ holder' = IF lease = 1 THEN NoCall ELSE holder
    /\ patience' = [c \in Calls |->
                      IF stage[c] = "acquiring" THEN patience[c] - 1 ELSE patience[c]]
    /\ held' = [c \in Calls |-> IF stage[c] = "running" /\ held[c] < Ttl
                                  THEN held[c] + 1 ELSE held[c]]
    /\ UNCHANGED <<hasPool, stage>>

LockNext ==
    \/ \E c \in Calls :
         \/ Enter(c) \/ Acquire(c) \/ AcquireRaises(c) \/ GiveUp(c)
         \/ FunctionEnds(c) \/ Release(c) \/ CallCrashes(c)
    \/ Tick

LockSpec == LockInit /\ [][LockNext]_lockVars

\* Time passes and the code around the function runs; the function itself may
\* never return.
Fairness ==
    /\ WF_lockVars(Tick)
    /\ \A c \in Calls : WF_lockVars(Acquire(c) \/ GiveUp(c)) /\ WF_lockVars(Release(c))

FairLockSpec == LockSpec /\ Fairness

-----------------------------------------------------------------------------

TypeOK ==
    /\ hasPool \in [Calls -> BOOLEAN]
    /\ stage \in [Calls -> {"idle", "acquiring", "running", "unguarded", "releasing",
                            "returned", "refused", "raised", "crashed"}]
    /\ holder \in Calls \cup {NoCall}
    /\ lease \in 0 .. Ttl
    /\ patience \in [Calls -> 0 .. Patience]
    /\ held \in [Calls -> 0 .. Ttl]

\* A function that runs under the lock holds it until its lease runs out: no
\* refused or failed call of another process, no late release after an expiry,
\* takes it away (cluster_lock.py:111-124).
KeepsLockWithinLease ==
    \A c \in Calls : stage[c] = "running" /\ held[c] < Ttl => holder = c

\* Two guarded functions run at once only if one of them has outlived its
\* lease (cluster_lock.py:103; docs/cluster_lock.html:61 leaves the condition
\* out).
ExclusiveWithinLease ==
    \A c, d \in Calls :
        c # d /\ stage[c] = "running" /\ stage[d] = "running" =>
            held[c] = Ttl \/ held[d] = Ttl

\* The key is never held for ever by a call that has ended, crashed calls and
\* failed releases included (cluster_lock.py:103, the timeout of the lock).
LockIsFreed == \A c \in Calls : holder = c /\ Ended(c) ~> holder # c
=============================================================================
