----------------------------- MODULE CachedCalls -----------------------------
(***************************************************************************)
(* A coroutine under the decorators cacher (core/cacher.py) and limiter or *)
(* limiter_local (core/limiter.py, core/limiter_local.py), in either       *)
(* order, called by concurrent requests.  What it computes depends on the  *)
(* user and on the time, so a value stands for both.                       *)
(*                                                                         *)
(* Redis and limits, as the code uses them: GET, SETEX and the hit of a    *)
(* moving window are atomic, any of them may fail, and a SETEX may fail    *)
(* after it was done.  All calls are to the same function with the same    *)
(* add_str.                                                                *)
(***************************************************************************)
EXTENDS Integers, FiniteSets

CONSTANTS
    Calls,      \* calls of the decorated function, each made once
    Users,      \* numbers of users that are logged in
    Anonymous,  \* None
    Setups,     \* how the function may be decorated, to choose from
    TTL,        \* expire_time
    Limit,      \* the rate limit: calls
    Window,     \* ... in a period
    Slow,       \* the function and the storing of its value take no longer
    MaxTime,    \* bound on the time
    MaxFaults   \* bound on the failures of Redis

\* The decorator outside, whether the limiter is limiter_local, which knows no
\* users, whether the rate can be parsed, cache_by_user and limit_by_user.
Decorators == [outer : {"cacher", "limiter"}, local : BOOLEAN, parsable : BOOLEAN,
               cacheByUser : BOOLEAN, limitByUser : BOOLEAN]

ASSUME CacheAssumption ==
    /\ Users \subseteq Nat
    /\ Setups \subseteq Decorators
    /\ \A d \in Setups : d.local => ~d.limitByUser
    /\ Anonymous \notin Nat
    /\ {TTL, Limit, Window} \subseteq Nat \ {0}
    /\ {Slow, MaxTime, MaxFaults} \subseteq Nat

Keys == Users \cup {Anonymous}

VARIABLES
    setup,        \* the decorators, never changes
    user,         \* call -> user id of its context, never changes
    pool,         \* RedisPool is set
    limiter,      \* the limiter of the resource manager is set
    now,
    cache,        \* key -> the value stored and the time it expires, or Nothing
    hits,         \* key -> the hits of the moving window: whose, and when
    pc,           \* call -> where it is
    fell,         \* call -> it is past the wrapper's try block
    value,        \* call -> the value it has computed, or returned
    admitted,     \* call -> hits of its own
    free,         \* call -> it was let through without a limiter
    executed,     \* call -> executions of the function begun
    failed,       \* call -> something of the first try failed
    faults

given == <<setup, user>>
redis == <<pool, limiter, cache>>
calls == <<pc, fell, value, admitted, free, executed, failed>>
vars == <<given, redis, now, hits, calls, faults>>

Nothing == [of |-> Anonymous, at |-> -1]

Init ==
    /\ setup \in Setups
    /\ user \in [Calls -> Keys]
    /\ pool \in BOOLEAN
    /\ limiter = pool
    /\ now = 0
    /\ cache = [k \in Keys |-> [value |-> Nothing, until |-> 0]]
    /\ hits = [k \in Keys |-> {}]
    /\ pc = [c \in Calls |-> "idle"]
    /\ fell = [c \in Calls |-> FALSE]
    /\ value = [c \in Calls |-> Nothing]
    /\ admitted = [c \in Calls |-> 0]
    /\ free = [c \in Calls |-> FALSE]
    /\ executed = [c \in Calls |-> 0]
    /\ failed = [c \in Calls |-> FALSE]
    /\ faults = 0

-----------------------------------------------------------------------------

Goto(c, l) == pc' = [pc EXCEPT ![c] = l]

\* What the inner decorator is called as, and what a call begins with.
Inside == IF setup.outer = "cacher" THEN "limit" ELSE "func"
Outside == IF setup.outer = "cacher" THEN "key" ELSE "limit"
Within == IF setup.outer = "cacher" THEN "func" ELSE "key"

\* Mutant: goes back into the try block.
CaughtAgain(c) ==
    /\ Goto(c, IF pool THEN "get" ELSE Inside)
    /\ failed' = [failed EXCEPT ![c] = TRUE]
    /\ UNCHANGED fell

\* An exception: the wrapper of cacher catches those of its try block, whether
\* they are of Redis, of the function or of a limiter inside, and calls the
\* function once more; all others end the call.
Caught(c) ==
    /\ Goto(c, IF fell[c] THEN "raised" ELSE Inside)
    /\ fell' = [fell EXCEPT ![c] = TRUE]
    /\ failed' = [failed EXCEPT ![c] = TRUE]

\* An exception that no wrapper catches.
Uncaught(c) == Goto(c, "raised") /\ UNCHANGED <<fell, failed>>

Begin(c) ==
    /\ pc[c] = "idle"
    /\ Goto(c, Outside)
    /\ UNCHANGED <<given, redis, now, hits, fell, value, admitted, free, executed,
                   failed, faults>>

-----------------------------------------------------------------------------
(* The limiter                                                              *)

LimitKey(c) == IF setup.limitByUser THEN user[c] ELSE Anonymous

\* The hits of a key in the period that ends at t.
Recent(k, t) == Cardinality({h \in hits[k] : h.at <= t /\ h.at > t - Window})

\* Without a limiter, or with a rate limiter_local cannot parse, all pass.
LimitAbsent(c) ==
    /\ pc[c] = "limit"
    /\ IF setup.local THEN ~setup.parsable ELSE ~limiter
    /\ Goto(c, Within)
    /\ free' = [free EXCEPT ![c] = TRUE]
    /\ UNCHANGED <<given, redis, now, hits, fell, value, admitted, executed, failed,
                   faults>>

LimitAsked(c) ==
    /\ pc[c] = "limit"
    /\ setup.parsable
    /\ setup.local \/ limiter
    /\ UNCHANGED <<given, redis, now, value, free, executed>>

LimitPasses(c) ==
    /\ LimitAsked(c)
    /\ Recent(LimitKey(c), now) < Limit
    /\ LET hit == [call |-> c, nth |-> admitted[c], at |-> now] IN
         hits' = [hits EXCEPT ![LimitKey(c)] = @ \cup {hit}]
    /\ admitted' = [admitted EXCEPT ![c] = @ + 1]
    /\ Goto(c, Within)
    /\ UNCHANGED <<fell, failed, faults>>

\* LimiterError, which a cacher outside takes for a failure of Redis.
LimitRefuses(c) ==
    /\ LimitAsked(c)
    /\ Recent(LimitKey(c), now) >= Limit
    /\ IF setup.outer = "cacher" THEN Caught(c) ELSE Uncaught(c)
    /\ UNCHANGED <<hits, admitted, faults>>

\* Redis, or the parsing of the rate.
LimitFails(c) ==
    /\ pc[c] = "limit"
    /\ ~setup.local
    /\ limiter
    /\ \/ ~setup.parsable /\ UNCHANGED faults
       \/ setup.parsable /\ faults < MaxFaults /\ faults' = faults + 1
    /\ IF setup.outer = "cacher" THEN Caught(c) ELSE Uncaught(c)
    /\ UNCHANGED <<given, redis, now, hits, value, admitted, free, executed>>

-----------------------------------------------------------------------------
(* The cacher                                                               *)

\* Mutant: one entry for all.
CacheKeyForAll(c) == Anonymous

\* _build_cache_key: the user is left out when there is none, or when it is 0.
CacheKey(c) ==
    IF setup.cacheByUser /\ user[c] # Anonymous /\ user[c] # 0 THEN user[c] ELSE Anonymous

\* Without Redis there is no try block to fall out of.
Key(c) ==
    /\ pc[c] = "key"
    /\ Goto(c, IF pool THEN "get" ELSE Inside)
    /\ fell' = [fell EXCEPT ![c] = ~pool]
    /\ UNCHANGED <<given, redis, now, hits, value, admitted, free, executed,
                   failed, faults>>

Get(c) ==
    LET entry == cache[CacheKey(c)] IN
    /\ pc[c] = "get"
    /\ IF entry.until > now
         THEN Goto(c, "returned") /\ value' = [value EXCEPT ![c] = entry.value]
         ELSE Goto(c, Inside) /\ UNCHANGED value
    /\ UNCHANGED <<given, redis, now, hits, fell, admitted, free, executed, failed,
                   faults>>

\* The function looks at its data at the beginning.
FunctionBegins(c) ==
    /\ pc[c] = "func"
    /\ Goto(c, "running")
    /\ value' = [value EXCEPT ![c] = [of |-> user[c], at |-> now]]
    /\ executed' = [executed EXCEPT ![c] = @ + 1]
    /\ UNCHANGED <<given, redis, now, hits, fell, admitted, free, failed, faults>>

FunctionReturns(c) ==
    /\ pc[c] = "running"
    /\ Goto(c, IF fell[c] THEN "returned" ELSE "setex")
    /\ UNCHANGED <<given, redis, now, hits, fell, value, admitted, free, executed,
                   failed, faults>>

\* Its own exception is taken for one of Redis.
FunctionRaises(c) ==
    /\ pc[c] = "running"
    /\ Caught(c)
    /\ UNCHANGED <<given, redis, now, hits, value, admitted, free, executed, faults>>

\* Mutant: the entry is stored until the time it is stored is over twice.
StoreLonger(c) ==
    cache' = [cache EXCEPT ![CacheKey(c)] = [value |-> value[c], until |-> now + 2 * TTL]]

Store(c) ==
    cache' = [cache EXCEPT ![CacheKey(c)] = [value |-> value[c], until |-> now + TTL]]

Setex(c) ==
    /\ pc[c] = "setex"
    /\ Store(c)
    /\ Goto(c, "returned")
    /\ UNCHANGED <<given, pool, limiter, now, hits, fell, value, admitted, free, executed,
                   failed, faults>>

\* GET or SETEX fails, the latter before or after it was done, or a value cannot be
\* encoded.
RedisFails(c) ==
    /\ faults < MaxFaults
    /\ faults' = faults + 1
    /\ Caught(c)
    /\ \/ pc[c] \in {"get", "setex"} /\ UNCHANGED cache
       \/ pc[c] = "setex" /\ Store(c)
    /\ UNCHANGED <<given, pool, limiter, now, hits, value, admitted, free, executed>>

\* CancelledError is not an Exception.
Cancel(c) ==
    /\ pc[c] \in {"limit", "get", "running", "setex"}
    /\ Uncaught(c)
    /\ UNCHANGED <<given, redis, now, hits, value, admitted, free, executed, faults>>

-----------------------------------------------------------------------------

\* init_resources and close_resources, which leaves the limiter.
InitResources ==
    /\ ~pool
    /\ pool' = TRUE
    /\ limiter' = TRUE
    /\ UNCHANGED <<given, now, cache, hits, calls, faults>>

CloseResources ==
    /\ pool
    /\ pool' = FALSE
    /\ UNCHANGED <<given, limiter, now, cache, hits, calls, faults>>

\* reset_limiter: a new storage.
ResetLimiter ==
    /\ setup.local
    /\ hits' = [k \in Keys |-> {}]
    /\ UNCHANGED <<given, redis, now, calls, faults>>

Tick ==
    /\ now < MaxTime
    /\ \A c \in Calls : pc[c] \in {"running", "setex"} => now - value[c].at < Slow
    /\ now' = now + 1
    /\ UNCHANGED <<given, redis, hits, calls, faults>>

Next ==
    \/ InitResources \/ CloseResources \/ ResetLimiter \/ Tick
    \/ \E c \in Calls :
          \/ Begin(c) \/ Key(c) \/ Get(c)
          \/ LimitAbsent(c) \/ LimitPasses(c) \/ LimitRefuses(c) \/ LimitFails(c)
          \/ FunctionBegins(c) \/ FunctionReturns(c) \/ FunctionRaises(c)
          \/ Setex(c) \/ RedisFails(c) \/ Cancel(c)

Spec == Init /\ [][Next]_vars

-----------------------------------------------------------------------------

Values == [of : Keys, at : Int]

TypeOK ==
    /\ setup \in Setups
    /\ user \in [Calls -> Keys]
    /\ now \in Nat
    /\ cache \in [Keys -> [value : Values, until : Nat]]
    /\ pc \in [Calls -> {"idle", "limit", "key", "get", "func", "running", "setex",
                         "returned", "raised"}]
    /\ value \in [Calls -> Values]

\* In no period do more calls of one key get through than the limit allows, and
\* none of these executes the function more often than it was let through, or
\* twice when the limiter is outside and something of the first try has failed.
\* The exceptions of the function, of Redis and of a limiter inside take the same
\* way through the wrapper (cacher.py:76-88, limiter.py:44-48).
RateKept ==
    /\ \A k \in Keys, t \in 0 .. now : Recent(k, t) <= Limit
    /\ \A c \in Calls :
          /\ executed[c] <= IF failed[c] THEN 2 ELSE 1
          /\ ~free[c] => executed[c] <= IF setup.outer = "cacher" THEN admitted[c]
                                                             ELSE 2 * admitted[c]

\* With cache_by_user nobody who is logged in, but for a user 0, gets what was
\* computed for somebody else, whichever calls of others overlap with his and
\* wherever they fail (cacher.py:44-50).
OwnValues ==
    \A c \in Calls :
        pc[c] = "returned" /\ setup.cacheByUser /\ user[c] \notin {Anonymous, 0} =>
            value[c].of = user[c]

\* No entry that a call could still be served is older than expire_time and one
\* execution: a slow execution may overwrite a newer value with an older one, but
\* not one that has expired (cacher.py:77-84).
BoundedAge ==
    \A k \in Keys :
        cache[k].until > now => now - cache[k].value.at < TTL + Slow
=============================================================================
