-------------------------- MODULE CachedCallsProofs --------------------------
(***************************************************************************)
(* Whose value a call gets, how old an entry of the cache may be and how   *)
(* often the function is executed, for any number of calls and users,      *)
(* every rate, expiry and window, and any number of failures of Redis.     *)
(*                                                                         *)
(* A call holds a value of its own from the beginning of the function to   *)
(* the SETEX, so an entry under the key of a user is of that user, and it  *)
(* expires TTL after a storing that came at most Slow after the value was  *)
(* computed.  For these the limiter and the failures only decide where a   *)
(* call goes next; RateInv, below, counts what they have let through.      *)
(***************************************************************************)
EXTENDS CachedCalls, FiniteSetTheorems, TLAPS

\* Where a call holds no value.
Empty == {"idle", "limit", "key", "get", "func", "raised"}

\* What a call holds it has computed for its own user, and not long ago.
Computed ==
    \A c \in Calls :
        pc[c] \in {"running", "setex"} =>
            value[c].of = user[c] /\ now - value[c].at <= Slow

\* The entries of users are theirs, and expire in time.
Stored ==
    \A k \in Keys :
        cache[k].until > 0 =>
            /\ setup.cacheByUser /\ k \notin {Anonymous, 0} => cache[k].value.of = k
            /\ cache[k].until <= cache[k].value.at + TTL + Slow

IInv ==
    /\ TypeOK
    /\ Computed
    /\ Stored
    /\ OwnValues

-----------------------------------------------------------------------------

LEMMA Constants == TTL \in Nat /\ Slow \in Nat /\ Anonymous \notin Nat
  BY CacheAssumption DEF CacheAssumption

LEMMA CacheKeyType ==
    ASSUME TypeOK, NEW c \in Calls
    PROVE  /\ CacheKey(c) \in Keys
           /\ setup.cacheByUser /\ CacheKey(c) \notin {Anonymous, 0}
                => CacheKey(c) = user[c]
           /\ setup.cacheByUser /\ user[c] \notin {Anonymous, 0} => CacheKey(c) = user[c]
  BY DEF TypeOK, CacheKey, Keys

\* A step that goes anywhere but to where a value is held.
LEMMA Elsewhere ==
    ASSUME IInv, NEW c \in Calls, NEW l \in Empty,
           Goto(c, l), UNCHANGED <<setup, user, now, cache, value>>
    PROVE  IInv'
  BY DEF IInv, TypeOK, Computed, Stored, OwnValues, Goto, Empty

\* A step of no call.
LEMMA Aside ==
    ASSUME IInv, UNCHANGED <<setup, user, now, cache, value, pc>>
    PROVE  IInv'
  BY DEF IInv, TypeOK, Computed, Stored, OwnValues

LEMMA CaughtElsewhere ==
    ASSUME IInv, NEW c \in Calls, Caught(c) \/ Uncaught(c),
           UNCHANGED <<setup, user, now, cache, value>>
    PROVE  IInv'
  <1>1. PICK l \in {"raised", "limit", "func"} : Goto(c, l)
    BY DEF Caught, Uncaught, Inside
  <1>2. QED
    BY <1>1, Elsewhere DEF Empty

\* SETEX, whether it is answered or not.
LEMMA StoreKeeps ==
    ASSUME IInv, NEW c \in Calls, pc[c] = "setex", Store(c)
    PROVE  /\ cache' \in [Keys -> [value : Values, until : Nat]]
           /\ setup' = setup => Stored'
  <1>1. /\ CacheKey(c) \in Keys /\ value[c] \in Values /\ now \in Nat
        /\ value[c].of = user[c] /\ now - value[c].at <= Slow /\ value[c].at \in Int
    BY CacheKeyType DEF IInv, TypeOK, Computed, Values
  <1>2. cache' = [cache EXCEPT ![CacheKey(c)] = [value |-> value[c], until |-> now + TTL]]
    BY DEF Store
  <1>3. cache' \in [Keys -> [value : Values, until : Nat]]
    BY <1>1, <1>2, Constants DEF IInv, TypeOK
  <1>4. ASSUME setup' = setup, NEW k \in Keys, cache'[k].until > 0
        PROVE  /\ setup'.cacheByUser /\ k \notin {Anonymous, 0} => cache'[k].value.of = k
               /\ cache'[k].until <= cache'[k].value.at + TTL + Slow
    <2>1. CASE k = CacheKey(c)
      <3>1. cache'[k].value = value[c] /\ cache'[k].until = now + TTL
        BY <1>1, <1>2, <2>1 DEF IInv, TypeOK
      <3>2. setup.cacheByUser /\ k \notin {Anonymous, 0} => k = user[c]
        BY <2>1, CacheKeyType DEF IInv
      <3>3. QED
        BY <1>1, <1>4, <3>1, <3>2, Constants
    <2>2. CASE k # CacheKey(c)
      <3>1. cache'[k] = cache[k]
        BY <1>2, <2>2 DEF IInv, TypeOK
      <3>2. QED
        BY <1>4, <3>1 DEF IInv, Stored
    <2>3. QED
      BY <2>1, <2>2
  <1>5. QED
    BY <1>3, <1>4 DEF Stored

-----------------------------------------------------------------------------

LEMMA InitInv == Init => IInv
  <1> SUFFICES ASSUME Init PROVE IInv
    OBVIOUS
  <1>1. Nothing \in Values
    BY DEF Nothing, Values, Keys
  <1>2. TypeOK
    BY <1>1 DEF Init, TypeOK, Empty
  <1>3. Computed /\ OwnValues
    BY DEF Init, Computed, OwnValues
  <1>4. Stored
    BY DEF Init, Stored
  <1>5. QED
    BY <1>2, <1>3, <1>4 DEF IInv

LEMMA CallStep ==
    ASSUME IInv, NEW c \in Calls,
           \/ Begin(c) \/ Key(c) \/ Get(c)
           \/ LimitAbsent(c) \/ LimitPasses(c) \/ LimitRefuses(c) \/ LimitFails(c)
           \/ FunctionBegins(c) \/ FunctionReturns(c) \/ FunctionRaises(c)
           \/ Setex(c) \/ RedisFails(c) \/ Cancel(c)
    PROVE  IInv'
  <1>1. /\ Inside \in Empty
        /\ Outside \in Empty
        /\ Within \in Empty
    BY DEF Inside, Outside, Within, Empty
  <1>2. CASE Begin(c)
    BY <1>1, <1>2, Elsewhere DEF Begin, given, redis
  <1>3. CASE Key(c)
    <2>1. PICK l \in Empty : Goto(c, l)
      BY <1>1, <1>3 DEF Key, Empty
    <2>2. QED
      BY <1>3, <2>1, Elsewhere DEF Key, given, redis
  <1>4. CASE Get(c)
    <2>1. UNCHANGED <<setup, user, now, cache>>
      BY <1>4 DEF Get, given, redis
    <2>2. CASE cache[CacheKey(c)].until > now
      <3>1. pc' = [pc EXCEPT ![c] = "returned"]
        BY <1>4, <2>2 DEF Get, Goto
      <3>2. value' = [value EXCEPT ![c] = cache[CacheKey(c)].value]
        BY <1>4, <2>2 DEF Get
      <3>3. CacheKey(c) \in Keys /\ cache[CacheKey(c)].value \in Values
        BY CacheKeyType DEF IInv, TypeOK
      <3>4. cache[CacheKey(c)].until > 0
        BY <2>2, <3>3 DEF IInv, TypeOK
      <3>5. setup.cacheByUser /\ user[c] \notin {Anonymous, 0}
              => cache[CacheKey(c)].value.of = user[c]
        BY <3>3, <3>4, CacheKeyType DEF IInv, Stored
      <3>6. TypeOK'
        BY <2>1, <3>1, <3>2, <3>3 DEF IInv, TypeOK
      <3>7. Computed' /\ Stored'
        BY <2>1, <3>1, <3>2 DEF IInv, TypeOK, Computed, Stored
      <3>8. OwnValues'
        BY <2>1, <3>1, <3>2, <3>5 DEF IInv, TypeOK, OwnValues
      <3>9. QED
        BY <3>6, <3>7, <3>8 DEF IInv
    <2>3. CASE ~(cache[CacheKey(c)].until > now)
      <3>1. Goto(c, Inside) /\ UNCHANGED value
        BY <1>4, <2>3 DEF Get
      <3>2. QED
        BY <1>1, <2>1, <3>1, Elsewhere
    <2>4. QED
      BY <2>2, <2>3
  <1>5. CASE LimitAbsent(c)
    BY <1>1, <1>5, Elsewhere DEF LimitAbsent, given, redis
  <1>6. CASE LimitPasses(c)
    BY <1>1, <1>6, Elsewhere DEF LimitPasses, LimitAsked, given, redis
  <1>7. CASE LimitRefuses(c)
    BY <1>7, CaughtElsewhere DEF LimitRefuses, LimitAsked, given, redis
  <1>8. CASE LimitFails(c)
    BY <1>8, CaughtElsewhere DEF LimitFails, given, redis
  <1>9. CASE FunctionBegins(c)
    <2>1. /\ pc' = [pc EXCEPT ![c] = "running"]
          /\ value' = [value EXCEPT ![c] = [of |-> user[c], at |-> now]]
          /\ UNCHANGED <<setup, user, now, cache>>
      BY <1>9 DEF FunctionBegins, Goto, given, redis
    <2>2. TypeOK'
      BY <2>1 DEF IInv, TypeOK, Values
    <2>3. Computed'
      BY <2>1, Constants DEF IInv, TypeOK, Computed
    <2>4. Stored' /\ OwnValues'
      BY <2>1 DEF IInv, TypeOK, Stored, OwnValues
    <2>5. QED
      BY <2>2, <2>3, <2>4 DEF IInv
  <1>10. CASE FunctionReturns(c)
    <2>1. PICK l \in {"returned", "setex"} : pc' = [pc EXCEPT ![c] = l]
      BY <1>10 DEF FunctionReturns, Goto
    <2>2. pc[c] = "running" /\ UNCHANGED <<setup, user, now, cache, value>>
      BY <1>10 DEF FunctionReturns, given, redis
    <2>3. QED
      BY <2>1, <2>2 DEF IInv, TypeOK, Computed, Stored, OwnValues
  <1>11. CASE FunctionRaises(c)
    BY <1>11, CaughtElsewhere DEF FunctionRaises, given, redis
  <1>12. CASE Setex(c)
    <2>1. /\ pc[c] = "setex" /\ pc' = [pc EXCEPT ![c] = "returned"]
          /\ Store(c) /\ UNCHANGED <<setup, user, now, value>>
      BY <1>12 DEF Setex, Goto, given
    <2>2. Stored' /\ TypeOK'
      BY <2>1, StoreKeeps DEF IInv, TypeOK
    <2>3. Computed' /\ OwnValues'
      BY <2>1 DEF IInv, TypeOK, Computed, OwnValues
    <2>4. QED
      BY <2>2, <2>3 DEF IInv
  <1>13. CASE RedisFails(c)
    <2>1. Caught(c) /\ UNCHANGED <<setup, user, now, value>>
      BY <1>13 DEF RedisFails, given
    <2>2. CASE UNCHANGED cache
      BY <2>1, <2>2, CaughtElsewhere
    <2>3. CASE pc[c] = "setex" /\ Store(c)
      <3>1. PICK l \in {"raised", "limit", "func"} : pc' = [pc EXCEPT ![c] = l]
        BY <2>1 DEF Caught, Inside, Goto
      <3>2. Stored' /\ TypeOK'
        BY <2>1, <2>3, <3>1, StoreKeeps DEF IInv, TypeOK, Empty
      <3>3. Computed' /\ OwnValues'
        BY <2>1, <3>1 DEF IInv, TypeOK, Computed, OwnValues
      <3>4. QED
        BY <3>2, <3>3 DEF IInv
    <2>4. QED
      BY <1>13, <2>2, <2>3 DEF RedisFails
  <1>14. CASE Cancel(c)
    BY <1>14, CaughtElsewhere DEF Cancel, given, redis
  <1>15. QED
    BY <1>2, <1>3, <1>4, <1>5, <1>6, <1>7, <1>8, <1>9, <1>10, <1>11, <1>12, <1>13, <1>14

LEMMA TickStep == ASSUME IInv, Tick PROVE IInv'
  <1>1. /\ now' = now + 1 /\ UNCHANGED <<setup, user, cache, value, pc>>
        /\ \A c \in Calls : pc[c] \in {"running", "setex"} => now - value[c].at < Slow
    BY DEF Tick, given, redis, calls
  <1>2. TypeOK'
    BY <1>1 DEF IInv, TypeOK
  <1>3. Computed'
    <2> SUFFICES ASSUME NEW c \in Calls, pc'[c] \in {"running", "setex"}
                 PROVE  value'[c].of = user'[c] /\ now' - value'[c].at <= Slow
      BY DEF Computed
    <2>1. value[c].at \in Int /\ now \in Nat
      BY DEF IInv, TypeOK, Values
    <2>2. now - value[c].at < Slow /\ value[c].of = user[c]
      BY <1>1 DEF IInv, Computed
    <2>3. QED
      BY <1>1, <2>1, <2>2, Constants
  <1>4. Stored' /\ OwnValues'
    BY <1>1 DEF IInv, Stored, OwnValues
  <1>5. QED
    BY <1>2, <1>3, <1>4 DEF IInv

LEMMA InvStep == IInv /\ [Next]_vars => IInv'
  <1> SUFFICES ASSUME IInv, [Next]_vars PROVE IInv'
    OBVIOUS
  <1>1. CASE InitResources \/ CloseResources \/ ResetLimiter \/ UNCHANGED vars
    BY <1>1, Aside
    DEF InitResources, CloseResources, ResetLimiter, given, redis, calls, vars
  <1>2. CASE Tick
    BY <1>2, TickStep
  <1>3. QED
    BY <1>1, <1>2, CallStep DEF Next

\* The state has its type: no call holds, and no key stores, anything but a value of
\* somebody, wherever Redis, a limiter or the function fails.
THEOREM TypeCorrect == Spec => []TypeOK
  <1>1. IInv => TypeOK
    BY DEF IInv
  <1>2. QED
    BY <1>1, InitInv, InvStep, PTL DEF Spec

\* With cache_by_user nobody who is logged in gets what was computed for somebody else,
\* whichever calls overlap and whatever fails in them.
THEOREM OwnValuesReturned == Spec => []OwnValues
  <1>1. IInv => OwnValues
    BY DEF IInv
  <1>2. QED
    BY <1>1, InitInv, InvStep, PTL DEF Spec

\* No entry that may still be served is older than its expiry and one execution.
THEOREM NothingOlder == Spec => []BoundedAge
  <1>1. IInv => BoundedAge
    <2> SUFFICES ASSUME IInv, NEW k \in Keys, cache[k].until > now
                 PROVE  now - cache[k].value.at < TTL + Slow
      BY DEF BoundedAge
    <2>1. now \in Nat /\ cache[k].until \in Nat /\ cache[k].value.at \in Int
      BY DEF IInv, TypeOK, Values
    <2>2. cache[k].until <= cache[k].value.at + TTL + Slow
      BY <2>1 DEF IInv, Stored
    <2>3. QED
      BY <2>1, <2>2, Constants
  <1>2. QED
    BY <1>1, InitInv, InvStep, PTL DEF Spec
-----------------------------------------------------------------------------
(* The rate.  A hit comes only where the window that ends now has room, and  *)
(* windows that ended before get no more.  A call executes the function once *)
(* in the try block and once after it, and passes the limiter before either  *)
(* where this is inside, before both where it is outside.                    *)

RateTypes ==
    /\ hits \in [Keys -> SUBSET [call : Calls, nth : Nat, at : Nat]]
    /\ fell \in [Calls -> BOOLEAN]
    /\ admitted \in [Calls -> Nat]
    /\ free \in [Calls -> BOOLEAN]
    /\ executed \in [Calls -> Nat]
    /\ failed \in [Calls -> BOOLEAN]

\* No window has more hits than the limit, and none is yet to come.
WindowsKept ==
    \A k \in Keys :
        /\ IsFiniteSet(hits[k])
        /\ \A h \in hits[k] : h.at <= now
        /\ \A t \in Nat : Recent(k, t) <= Limit

\* How often the function was executed by a call that is at l, fell out of the try
\* block, and has failed there.
Executions(l, f, g, e) ==
    /\ l \in {"idle", "key", "get"} => e = 0 /\ ~f
    /\ l = "limit" /\ setup.outer = "limiter" => e = 0 /\ ~f
    /\ l \in {"limit", "func"} => e <= IF f /\ g THEN 1 ELSE 0
    /\ l \in {"running", "setex"} => e <= IF f /\ g THEN 2 ELSE 1
    /\ l = "setex" => ~f
    /\ g /\ l \notin {"returned", "raised"} => f
    /\ e <= IF g THEN 2 ELSE 1

\* How often it was executed by one that is at l, let through a times.
Admissions(l, a, e) ==
    IF setup.outer = "cacher"
      THEN e <= a /\ (l = "func" => e < a)
      ELSE e <= 2 * a /\ (l \in {"key", "get", "func", "running", "setex"} => a > 0)

RateInv ==
    /\ RateTypes
    /\ WindowsKept
    /\ \A c \in Calls :
          /\ Executions(pc[c], fell[c], failed[c], executed[c])
          /\ ~free[c] => Admissions(pc[c], admitted[c], executed[c])

LEMMA LimitConstants == Limit \in Nat /\ Limit > 0 /\ Window \in Nat /\ Window > 0
  BY CacheAssumption DEF CacheAssumption

LEMMA OuterType == ASSUME TypeOK PROVE setup.outer \in {"cacher", "limiter"}
  BY CacheAssumption DEF CacheAssumption, TypeOK, Decorators

\* The finite sets of hits.
LEMMA OneMore ==
    ASSUME NEW S, NEW x, IsFiniteSet(S)
    PROVE  /\ IsFiniteSet(S \cup {x})
           /\ Cardinality(S) \in Nat /\ Cardinality(S \cup {x}) \in Nat
           /\ Cardinality(S \cup {x}) <= Cardinality(S) + 1
  <1>1. Cardinality(S) \in Nat
    BY FS_CardinalityType
  <1>2. /\ IsFiniteSet(S \cup {x})
        /\ Cardinality(S \cup {x}) = IF x \in S THEN Cardinality(S) ELSE Cardinality(S) + 1
    BY FS_AddElement
  <1>3. QED
    BY <1>1, <1>2

LEMMA Smaller ==
    ASSUME NEW S, IsFiniteSet(S), NEW T, T \subseteq S
    PROVE  /\ Cardinality(S) \in Nat /\ Cardinality(T) \in Nat
           /\ Cardinality(T) <= Cardinality(S)
  BY FS_Subset, FS_CardinalityType

\* A step that takes no hits keeps the windows, if the time does not run back.
LEMMA WindowsStay ==
    ASSUME WindowsKept, RateTypes, now \in Nat, now' \in Nat, now' >= now, UNCHANGED hits
    PROVE  WindowsKept'
  <1> SUFFICES ASSUME NEW k \in Keys
               PROVE  /\ IsFiniteSet(hits'[k])
                      /\ \A h \in hits'[k] : h.at <= now'
                      /\ \A t \in Nat : Recent(k, t)' <= Limit
    BY DEF WindowsKept
  <1>1. \A t \in Nat : Recent(k, t)' = Recent(k, t)
    BY DEF Recent
  <1>2. \A h \in hits[k] : h.at \in Nat /\ h.at <= now
    BY DEF WindowsKept, RateTypes
  <1>3. \A h \in hits[k] : h.at <= now'
    BY <1>2
  <1>4. QED
    BY <1>1, <1>3 DEF WindowsKept

\* A hit where there is room.
LEMMA WindowsGrow ==
    ASSUME WindowsKept, RateTypes, now \in Nat, NEW q \in Keys, NEW hit,
           hit \in [call : Calls, nth : Nat, at : Nat], hit.at = now,
           Recent(q, now) < Limit, UNCHANGED now,
           hits' = [hits EXCEPT ![q] = @ \cup {hit}]
    PROVE  WindowsKept'
  <1> SUFFICES ASSUME NEW k \in Keys
               PROVE  /\ IsFiniteSet(hits'[k])
                      /\ \A h \in hits'[k] : h.at <= now'
                      /\ \A t \in Nat : Recent(k, t)' <= Limit
    BY DEF WindowsKept
  <1>1. /\ IsFiniteSet(hits[k])
        /\ \A h \in hits[k] : h.at \in Nat /\ h.at <= now
        /\ \A t \in Nat : Recent(k, t) <= Limit
    BY DEF WindowsKept, RateTypes
  <1>2. CASE k # q
    <2>1. hits'[k] = hits[k]
      BY <1>2 DEF RateTypes
    <2>2. \A t \in Nat : Recent(k, t)' = Recent(k, t)
      BY <2>1 DEF Recent
    <2>3. QED
      BY <1>1, <2>1, <2>2
  <1>3. CASE k = q
    <2>1. hits'[k] = hits[k] \cup {hit}
      BY <1>3 DEF RateTypes
    <2>2. IsFiniteSet(hits'[k])
      BY <1>1, <2>1, FS_AddElement
    <2>3. \A h \in hits'[k] : h.at <= now
      BY <1>1, <2>1
    <2>4. ASSUME NEW t \in Nat PROVE Recent(k, t)' <= Limit
      <3> DEFINE Old(u) == {h \in hits[k] : h.at <= u /\ h.at > u - Window}
                 New == {h \in hits'[k] : h.at <= t /\ h.at > t - Window}
      <3>1. Recent(k, t)' = Cardinality(New) /\ Recent(k, t) = Cardinality(Old(t))
        BY DEF Recent
      <3>2. IsFiniteSet(Old(t)) /\ IsFiniteSet(Old(now))
        BY <1>1, FS_Subset
      <3>3. Cardinality(Old(t)) \in Nat /\ Cardinality(Old(now)) \in Nat
        BY <3>2, FS_CardinalityType
      <3>4. CASE t < now
        <4>1. New = Old(t)
          BY <2>1, <3>4
        <4>2. QED
          BY <1>1, <3>1, <4>1
      <3>5. CASE t >= now
        <4>1. Old(t) \subseteq Old(now)
          BY <1>1, <3>5, LimitConstants
        <4>2. Cardinality(Old(t)) <= Cardinality(Old(now))
          BY <3>2, <4>1, Smaller
        <4>3. Cardinality(Old(now)) < Limit
          BY <1>3 DEF Recent
        <4>4. /\ IsFiniteSet(Old(t) \cup {hit}) /\ Cardinality(Old(t) \cup {hit}) \in Nat
              /\ Cardinality(Old(t) \cup {hit}) <= Cardinality(Old(t)) + 1
          <5>1. PICK S : S = Old(t)
            OBVIOUS
          <5>2. IsFiniteSet(S)
            BY <3>2, <5>1
          <5>3. /\ IsFiniteSet(S \cup {hit}) /\ Cardinality(S \cup {hit}) \in Nat
                /\ Cardinality(S \cup {hit}) <= Cardinality(S) + 1
            BY <5>2, OneMore
          <5>4. QED
            BY ONLY <5>1, <5>3
        <4>5. New \subseteq Old(t) \cup {hit}
          BY <2>1
        <4>6. Cardinality(New) <= Cardinality(Old(t) \cup {hit}) /\ Cardinality(New) \in Nat
          BY <4>4, <4>5, Smaller
        <4>7. QED
          BY <3>1, <3>3, <4>2, <4>3, <4>4, <4>6, LimitConstants
      <3>6. QED
        BY <3>4, <3>5
    <2>5. QED
      BY <2>2, <2>3, <2>4
  <1>4. QED
    BY <1>2, <1>3

LEMMA RateInit == Init => RateInv
  <1> SUFFICES ASSUME Init PROVE RateInv
    OBVIOUS
  <1>1. RateTypes
    BY DEF Init, RateTypes
  <1>2. WindowsKept
    <2> SUFFICES ASSUME NEW k \in Keys
                 PROVE  IsFiniteSet({}) /\ \A t \in Nat : Recent(k, t) <= Limit
      BY DEF Init, WindowsKept
    <2>1. \A t \in Nat : Recent(k, t) = Cardinality({})
      BY DEF Recent, Init
    <2>2. QED
      BY <2>1, FS_EmptySet, LimitConstants
  <1>3. \A c \in Calls :
           /\ Executions(pc[c], fell[c], failed[c], executed[c])
           /\ ~free[c] => Admissions(pc[c], admitted[c], executed[c])
    BY DEF Init, Executions, Admissions
  <1>4. QED
    BY <1>1, <1>2, <1>3 DEF RateInv

\* A step of one call changes what is its own.
Changes(c) ==
    /\ fell' = [fell EXCEPT ![c] = fell'[c]] /\ fell'[c] \in BOOLEAN
    /\ failed' = [failed EXCEPT ![c] = failed'[c]] /\ failed'[c] \in BOOLEAN
    /\ free' = [free EXCEPT ![c] = free'[c]] /\ free'[c] \in BOOLEAN
    /\ admitted' = [admitted EXCEPT ![c] = admitted'[c]] /\ admitted'[c] \in Nat
    /\ executed' = [executed EXCEPT ![c] = executed'[c]] /\ executed'[c] \in Nat

\* A step of one call, which goes to l, and leaves the others where they are.
LEMMA OneCall ==
    ASSUME IInv, RateInv, NEW c \in Calls, NEW l,
           UNCHANGED setup, WindowsKept',
           hits' \in [Keys -> SUBSET [call : Calls, nth : Nat, at : Nat]],
           Goto(c, l), Changes(c),
           Executions(l, fell'[c], failed'[c], executed'[c]),
           ~free'[c] => Admissions(l, admitted'[c], executed'[c])
    PROVE  RateInv'
  <1>1. RateTypes'
    BY DEF RateInv, RateTypes, Changes
  <1>2. ASSUME NEW d \in Calls
        PROVE  /\ Executions(pc'[d], fell'[d], failed'[d], executed'[d])
               /\ ~free'[d] => Admissions(pc'[d], admitted'[d], executed'[d])
    <2>1. CASE d = c
      <3>1. pc'[d] = l
        BY <2>1 DEF IInv, TypeOK, Goto
      <3>2. QED
        BY <2>1, <3>1
    <2>2. CASE d # c
      <3>1. /\ pc'[d] = pc[d] /\ fell'[d] = fell[d] /\ failed'[d] = failed[d]
            /\ free'[d] = free[d] /\ admitted'[d] = admitted[d]
            /\ executed'[d] = executed[d]
        BY <2>2 DEF RateInv, RateTypes, IInv, TypeOK, Goto, Changes
      <3>2. QED
        BY <3>1 DEF RateInv
    <2>3. QED
      BY <2>1, <2>2
  <1>3. \A d \in Calls :
           /\ Executions(pc[d], fell[d], failed[d], executed[d])'
           /\ ~free'[d] => Admissions(pc[d], admitted[d], executed[d])'
    BY <1>2 DEF Executions, Admissions
  <1>4. QED
    BY <1>1, <1>3 DEF RateInv

LEMMA CallTypes ==
    ASSUME IInv, RateInv, NEW c \in Calls
    PROVE  /\ fell[c] \in BOOLEAN /\ failed[c] \in BOOLEAN /\ free[c] \in BOOLEAN
           /\ admitted[c] \in Nat /\ executed[c] \in Nat
           /\ setup.outer \in {"cacher", "limiter"}
           /\ Executions(pc[c], fell[c], failed[c], executed[c])
           /\ ~free[c] => Admissions(pc[c], admitted[c], executed[c])
  BY OuterType DEF IInv, RateInv, RateTypes

\* A step that executes nothing and takes no hit.
LEMMA Moves ==
    ASSUME IInv, RateInv, NEW c \in Calls, NEW l, Goto(c, l), Changes(c),
           UNCHANGED <<setup, now, hits>>,
           Executions(l, fell'[c], failed'[c], executed'[c]),
           ~free'[c] => Admissions(l, admitted'[c], executed'[c])
    PROVE  RateInv'
  <1>1. WindowsKept' /\ hits' \in [Keys -> SUBSET [call : Calls, nth : Nat, at : Nat]]
    BY WindowsStay DEF RateInv, RateTypes, IInv, TypeOK
  <1>2. QED
    BY <1>1, OneCall

LEMMA FailureMoves ==
    ASSUME IInv, RateInv, NEW c \in Calls,
           UNCHANGED <<setup, now, hits, free, admitted, executed>>,
           \/ Uncaught(c)
           \/ /\ Caught(c)
              /\ \/ pc[c] \in {"get", "running", "setex"}
                 \/ pc[c] = "limit" /\ setup.outer = "cacher"
    PROVE  RateInv'
  <1>1. CASE Uncaught(c)
    <2>1. Goto(c, "raised") /\ UNCHANGED <<fell, failed>>
      BY <1>1 DEF Uncaught
    <2>2. Changes(c)
      BY <2>1 DEF RateInv, RateTypes, Changes
    <2>3. /\ Executions("raised", fell'[c], failed'[c], executed'[c])
          /\ ~free'[c] => Admissions("raised", admitted'[c], executed'[c])
      BY <2>1, CallTypes DEF Executions, Admissions
    <2>4. QED
      BY <2>1, <2>2, <2>3, Moves
  <1>2. CASE /\ Caught(c)
             /\ \/ pc[c] \in {"get", "running", "setex"}
                \/ pc[c] = "limit" /\ setup.outer = "cacher"
    <2>1. PICK l : l = IF fell[c] THEN "raised" ELSE Inside
      OBVIOUS
    <2>2. /\ Goto(c, l) /\ fell' = [fell EXCEPT ![c] = TRUE]
          /\ failed' = [failed EXCEPT ![c] = TRUE]
      BY <1>2, <2>1 DEF Caught
    <2>3. Changes(c) /\ fell'[c] = TRUE /\ failed'[c] = TRUE
      BY <2>2 DEF RateInv, RateTypes, Changes
    <2>4. Executions(l, fell'[c], failed'[c], executed'[c])
      BY <1>2, <2>1, <2>3, CallTypes DEF Executions, Inside
    <2>5. ~free'[c] => Admissions(l, admitted'[c], executed'[c])
      BY <1>2, <2>1, CallTypes DEF Executions, Admissions, Inside
    <2>6. QED
      BY <2>2, <2>3, <2>4, <2>5, Moves
  <1>3. QED
    BY <1>1, <1>2

LEMMA RateCallStep ==
    ASSUME IInv, RateInv, NEW c \in Calls,
           \/ Begin(c) \/ Key(c) \/ Get(c)
           \/ LimitAbsent(c) \/ LimitPasses(c) \/ LimitRefuses(c) \/ LimitFails(c)
           \/ FunctionBegins(c) \/ FunctionReturns(c) \/ FunctionRaises(c)
           \/ Setex(c) \/ RedisFails(c) \/ Cancel(c)
    PROVE  RateInv'
  <1>1. CASE Begin(c)
    <2>1. PICK l : l = Outside
      OBVIOUS
    <2>2. Goto(c, l) /\ UNCHANGED <<setup, now, hits>>
      BY <1>1, <2>1 DEF Begin, given, redis
    <2>3. Changes(c)
      BY <1>1 DEF Begin, RateInv, RateTypes, Changes
    <2>4. Executions(l, fell'[c], failed'[c], executed'[c])
      BY <1>1, <2>1, CallTypes DEF Begin, RateInv, RateTypes, Executions, Inside, Outside, Within
    <2>5. ~free'[c] => Admissions(l, admitted'[c], executed'[c])
      BY <1>1, <2>1, CallTypes
      DEF Begin, RateInv, RateTypes, Executions, Admissions, Inside, Outside, Within
    <2>6. QED
      BY <2>2, <2>3, <2>4, <2>5, Moves
  <1>2. CASE Key(c)
    <2>1. PICK l : l = IF pool THEN "get" ELSE Inside
      OBVIOUS
    <2>2. Goto(c, l) /\ UNCHANGED <<setup, now, hits>>
      BY <1>2, <2>1 DEF Key, given, redis
    <2>3. Changes(c)
      BY <1>2 DEF Key, RateInv, RateTypes, Changes
    <2>4. Executions(l, fell'[c], failed'[c], executed'[c])
      BY <1>2, <2>1, CallTypes DEF Key, RateInv, RateTypes, Executions, Inside, Outside, Within
    <2>5. ~free'[c] => Admissions(l, admitted'[c], executed'[c])
      BY <1>2, <2>1, CallTypes
      DEF Key, RateInv, RateTypes, Executions, Admissions, Inside, Outside, Within
    <2>6. QED
      BY <2>2, <2>3, <2>4, <2>5, Moves
  <1>3. CASE Get(c)
    <2>1. PICK l : l = IF cache[CacheKey(c)].until > now THEN "returned" ELSE Inside
      OBVIOUS
    <2>2. Goto(c, l) /\ UNCHANGED <<setup, now, hits>>
      BY <1>3, <2>1 DEF Get, given, redis
    <2>3. Changes(c)
      BY <1>3 DEF Get, RateInv, RateTypes, Changes
    <2>4. Executions(l, fell'[c], failed'[c], executed'[c])
      BY <1>3, <2>1, CallTypes DEF Get, RateInv, RateTypes, Executions, Inside, Outside, Within
    <2>5. ~free'[c] => Admissions(l, admitted'[c], executed'[c])
      BY <1>3, <2>1, CallTypes
      DEF Get, RateInv, RateTypes, Executions, Admissions, Inside, Outside, Within
    <2>6. QED
      BY <2>2, <2>3, <2>4, <2>5, Moves
  <1>4. CASE LimitAbsent(c)
    <2>1. PICK l : l = Within
      OBVIOUS
    <2>2. Goto(c, l) /\ UNCHANGED <<setup, now, hits>>
      BY <1>4, <2>1 DEF LimitAbsent, given, redis
    <2>3. Changes(c)
      BY <1>4 DEF LimitAbsent, RateInv, RateTypes, Changes
    <2>4. Executions(l, fell'[c], failed'[c], executed'[c])
      BY <1>4, <2>1, CallTypes DEF LimitAbsent, RateInv, RateTypes, Executions, Inside, Outside, Within
    <2>5. ~free'[c] => Admissions(l, admitted'[c], executed'[c])
      BY <1>4, <2>1, CallTypes
      DEF LimitAbsent, RateInv, RateTypes, Executions, Admissions, Inside, Outside, Within
    <2>6. QED
      BY <2>2, <2>3, <2>4, <2>5, Moves
  <1>5. CASE FunctionBegins(c)
    <2>1. PICK l : l = "running"
      OBVIOUS
    <2>2. Goto(c, l) /\ UNCHANGED <<setup, now, hits>>
      BY <1>5, <2>1 DEF FunctionBegins, given, redis
    <2>3. Changes(c)
      BY <1>5 DEF FunctionBegins, RateInv, RateTypes, Changes
    <2>4. Executions(l, fell'[c], failed'[c], executed'[c])
      BY <1>5, <2>1, CallTypes DEF FunctionBegins, RateInv, RateTypes, Executions, Inside, Outside, Within
    <2>5. ~free'[c] => Admissions(l, admitted'[c], executed'[c])
      BY <1>5, <2>1, CallTypes
      DEF FunctionBegins, RateInv, RateTypes, Executions, Admissions, Inside, Outside, Within
    <2>6. QED
      BY <2>2, <2>3, <2>4, <2>5, Moves
  <1>6. CASE FunctionReturns(c)
    <2>1. PICK l : l = IF fell[c] THEN "returned" ELSE "setex"
      OBVIOUS
    <2>2. Goto(c, l) /\ UNCHANGED <<setup, now, hits>>
      BY <1>6, <2>1 DEF FunctionReturns, given, redis
    <2>3. Changes(c)
      BY <1>6 DEF FunctionReturns, RateInv, RateTypes, Changes
    <2>4. Executions(l, fell'[c], failed'[c], executed'[c])
      BY <1>6, <2>1, CallTypes DEF FunctionReturns, RateInv, RateTypes, Executions, Inside, Outside, Within
    <2>5. ~free'[c] => Admissions(l, admitted'[c], executed'[c])
      BY <1>6, <2>1, CallTypes
      DEF FunctionReturns, RateInv, RateTypes, Executions, Admissions, Inside, Outside, Within
    <2>6. QED
      BY <2>2, <2>3, <2>4, <2>5, Moves
  <1>7. CASE Setex(c)
    <2>1. PICK l : l = "returned"
      OBVIOUS
    <2>2. Goto(c, l) /\ UNCHANGED <<setup, now, hits>>
      BY <1>7, <2>1 DEF Setex, given, redis
    <2>3. Changes(c)
      BY <1>7 DEF Setex, RateInv, RateTypes, Changes
    <2>4. Executions(l, fell'[c], failed'[c], executed'[c])
      BY <1>7, <2>1, CallTypes DEF Setex, RateInv, RateTypes, Executions, Inside, Outside, Within
    <2>5. ~free'[c] => Admissions(l, admitted'[c], executed'[c])
      BY <1>7, <2>1, CallTypes
      DEF Setex, RateInv, RateTypes, Executions, Admissions, Inside, Outside, Within
    <2>6. QED
      BY <2>2, <2>3, <2>4, <2>5, Moves
  <1>8. CASE LimitPasses(c)
    <2>1. PICK l : l = Within
      OBVIOUS
    <2>2. Goto(c, l) /\ UNCHANGED <<setup, now>> /\ pc[c] = "limit"
      BY <1>8, <2>1 DEF LimitPasses, LimitAsked, given
    <2>3. Changes(c) /\ admitted'[c] = admitted[c] + 1
      BY <1>8 DEF LimitPasses, LimitAsked, RateInv, RateTypes, Changes
    <2>4. UNCHANGED <<fell, failed, free, executed>>
      BY <1>8 DEF LimitPasses, LimitAsked
    <2>5. Executions(l, fell'[c], failed'[c], executed'[c])
      BY <2>1, <2>2, <2>4, CallTypes DEF Executions, Within
    <2>6. ~free'[c] => Admissions(l, admitted'[c], executed'[c])
      BY <2>1, <2>2, <2>3, <2>4, CallTypes DEF Executions, Admissions, Within
    <2>7. PICK hit : hit = [call |-> c, nth |-> admitted[c], at |-> now]
      OBVIOUS
    <2>8. hit \in [call : Calls, nth : Nat, at : Nat] /\ hit.at = now /\ now \in Nat
      BY <2>7, CallTypes DEF IInv, TypeOK
    <2>9. LimitKey(c) \in Keys
      BY DEF LimitKey, IInv, TypeOK, Keys
    <2>10. hits' = [hits EXCEPT ![LimitKey(c)] = @ \cup {hit}] /\ Recent(LimitKey(c), now) < Limit
      BY <1>8, <2>7 DEF LimitPasses
    <2>11. hits' \in [Keys -> SUBSET [call : Calls, nth : Nat, at : Nat]]
      BY <2>8, <2>9, <2>10 DEF RateInv, RateTypes
    <2>12. WindowsKept'
      BY <2>2, <2>8, <2>9, <2>10, WindowsGrow DEF RateInv
    <2>13. QED
      BY <2>2, <2>3, <2>5, <2>6, <2>11, <2>12, OneCall
  <1>9. CASE LimitRefuses(c)
    BY <1>9, FailureMoves, CallTypes DEF LimitRefuses, LimitAsked, given
  <1>10. CASE LimitFails(c)
    BY <1>10, FailureMoves, CallTypes DEF LimitFails, given
  <1>11. CASE FunctionRaises(c)
    BY <1>11, FailureMoves DEF FunctionRaises, given
  <1>12. CASE RedisFails(c)
    BY <1>12, FailureMoves DEF RedisFails, given
  <1>13. CASE Cancel(c)
    BY <1>13, FailureMoves DEF Cancel, given
  <1>14. QED
    BY <1>1, <1>2, <1>3, <1>4, <1>5, <1>6, <1>7, <1>8, <1>9, <1>10, <1>11, <1>12, <1>13

\* A step of no call: of the manager, of the limiter's storage, or of the time.
LEMMA RateAside ==
    ASSUME IInv, RateInv, InitResources \/ CloseResources \/ ResetLimiter \/ Tick
                          \/ UNCHANGED vars
    PROVE  RateInv'
  <1>1. UNCHANGED <<setup, pc, fell, failed, free, admitted, executed>>
    BY DEF InitResources, CloseResources, ResetLimiter, Tick, given, calls, vars
  <1>2. \A c \in Calls :
           /\ Executions(pc[c], fell[c], failed[c], executed[c])'
           /\ ~free'[c] => Admissions(pc[c], admitted[c], executed[c])'
    BY <1>1 DEF RateInv, Executions, Admissions
  <1>3. RateTypes' /\ WindowsKept'
    <2>1. CASE ResetLimiter
      <3>1. /\ hits' = [k \in Keys |-> {}] /\ \A k \in Keys : hits'[k] = {}
        BY <2>1 DEF ResetLimiter
      <3>2. RateTypes'
        BY <1>1, <3>1 DEF RateInv, RateTypes
      <3>3. \A k \in Keys, t \in Nat : Recent(k, t)' = Cardinality({})
        BY <3>1 DEF Recent
      <3>4. WindowsKept'
        BY <3>1, <3>3, FS_EmptySet, LimitConstants DEF WindowsKept
      <3>5. QED
        BY <3>2, <3>4
    <2>2. CASE InitResources \/ CloseResources \/ Tick \/ UNCHANGED vars
      <3>1. /\ UNCHANGED hits /\ now \in Nat /\ now' \in Nat /\ now' >= now
        BY <2>2 DEF InitResources, CloseResources, Tick, vars, IInv, TypeOK
      <3>2. QED
        BY <1>1, <3>1, WindowsStay DEF RateInv, RateTypes
    <2>3. QED
      BY <2>1, <2>2
  <1>4. QED
    BY <1>2, <1>3 DEF RateInv

\* No window of any key has more hits than the limit, and no call executes the function
\* more often than it was let through, or twice, wherever the limiter stands and
\* whatever fails.
THEOREM RatesKept == Spec => []RateKept
  <1>1. IInv /\ RateInv /\ [Next]_vars => RateInv'
    BY RateCallStep, RateAside DEF Next
  <1>2. IInv /\ RateInv => RateKept
    <2> SUFFICES ASSUME IInv, RateInv PROVE RateKept
      OBVIOUS
    <2>1. \A k \in Keys, t \in 0 .. now : Recent(k, t) <= Limit
      BY DEF RateInv, WindowsKept, IInv, TypeOK
    <2>2. ASSUME NEW c \in Calls
          PROVE  /\ executed[c] <= IF failed[c] THEN 2 ELSE 1
                 /\ ~free[c] => executed[c] <= IF setup.outer = "cacher" THEN admitted[c]
                                                                    ELSE 2 * admitted[c]
      BY CallTypes DEF Executions, Admissions
    <2>3. QED
      BY <2>1, <2>2 DEF RateKept
  <1>3. QED
    BY <1>1, <1>2, InitInv, InvStep, RateInit, PTL DEF Spec
=============================================================================
