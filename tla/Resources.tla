------------------------------ MODULE Resources ------------------------------
(***************************************************************************)
(* ResourceManager, init_resources and close_resources (core/resource.py). *)
(* PostgreSQL engines are cached by alias and event loop; the other        *)
(* resources are one client each.  Loops run in threads of their own;      *)
(* init_resources and the executions of close_resources, one for every     *)
(* execution of the shutdown callbacks, are tasks of the main loop.        *)
(*                                                                         *)
(* A task of the main loop is not interrupted between two awaits by        *)
(* another task of it.  get_pgsql_engine is synchronous and one action:    *)
(* threads that meet in the middle of it are left out.                     *)
(***************************************************************************)
EXTENDS Naturals, Sequences

CONSTANTS
    Aliases,      \* database aliases
    Loops,        \* event loops
    MainLoop,     \* the loop of the server
    Closers,      \* executions of close_resources
    NoAlias,
    Configurations,   \* sets of clients that are configured together
    MaxEngines    \* bound on the engines created

NoEngine == 0

ASSUME ResourcesAssumption ==
    /\ MainLoop \in Loops
    /\ NoAlias \notin Aliases
    /\ Configurations \subseteq SUBSET {"redis", "rabbitmq", "mongodb", "celery"}
    /\ MaxEngines \in Nat

\* What close_resources closes after the engines, in order.
Clients == <<"redis", "rabbitmq", "mongodb", "celery">>

VARIABLES
    configured,  \* the clients of the configuration
    toInit,      \* aliases init_resources has still to set up
    init,        \* where init_resources is
    params,      \* _pgsql_engine_params
    engines,     \* _pgsql_engines: alias -> loop -> engine
    present,     \* its keys; an alias without engines may be one
    loopRefs,    \* _pgsql_engine_loops, as a set of <<alias, loop>>
    home,        \* history: engine -> the loop it was created on
    registered,  \* history: the engines that init_resources created
    disposed,    \* engines disposed or scheduled to be, with the loop for it
    loopState,   \* "new", "running", "closed"
    session,     \* loop -> the engine of its pg_session
    open,        \* the clients that have their attribute set
    mqClosed,    \* is_closed of the RabbitMQ connection
    pc,          \* closer -> where it is
    failedAt,    \* history: closer -> what it awaited when it failed
    toClose,     \* closer -> aliases of its snapshot still to come
    alias,       \* closer -> the alias it is at
    work,        \* closer -> items of this alias still to come
    shared,      \* closer -> the dicts of its snapshot are still those in use
    old,         \* closer -> what they contain when they no longer are
    sharers      \* closer -> the closers that have lost the same dicts

engineVars == <<params, engines, present, loopRefs, home, registered, disposed>>
initVars == <<configured, toInit, init>>
snapshotVars == <<toClose, alias, work, shared, old, sharers>>
closeVars == <<pc, failedAt, mqClosed, snapshotVars>>
vars == <<engineVars, initVars, closeVars, loopState, session, open>>

Running(l) == loopState[l] = "running"

Engines == 1 .. Len(home)

Cached(a, l) == engines[a][l] # NoEngine

NoEngines == [a \in Aliases |-> [l \in Loops |-> NoEngine]]

\* Every closer of the main loop awaits something, or has not begun.
Awaits == {"disposing"} \cup {Clients[i] : i \in 1 .. Len(Clients)}

MainIsFree == \A c \in Closers : pc[c] \in Awaits \cup {"idle", "done", "failed"}

\* init_resources_from_conf: which databases and clients the configuration
\* asks for.
FromConf ==
    /\ configured \in Configurations
    /\ toInit \in SUBSET Aliases

Init ==
    /\ FromConf
    /\ init = "pgsql"
    /\ params = {}
    /\ engines = NoEngines
    /\ present = {}
    /\ loopRefs = {}
    /\ home = <<>>
    /\ registered = {}
    /\ disposed = {}
    /\ loopState = [l \in Loops |-> IF l = MainLoop THEN "running" ELSE "new"]
    /\ session = [l \in Loops |-> NoEngine]
    /\ open = {}
    /\ mqClosed = FALSE
    /\ pc = [c \in Closers |-> "idle"]
    /\ failedAt = [c \in Closers |-> "none"]
    /\ toClose = [c \in Closers |-> {}]
    /\ alias = [c \in Closers |-> NoAlias]
    /\ work = [c \in Closers |-> {}]
    /\ shared = [c \in Closers |-> FALSE]
    /\ old = [c \in Closers |-> NoEngines]
    /\ sharers = [c \in Closers |-> {}]

-----------------------------------------------------------------------------
(* init_resources                                                           *)

InitUnchanged == UNCHANGED <<configured, closeVars, loopState, session, disposed>>

\* create_async_engine on loop l.
NewEngine(l) ==
    /\ Len(home) < MaxEngines
    /\ home' = Append(home, l)

\* _init_pgsql of one alias, after _ensure_database_exists has returned:
\* register_pgsql_engine on the main loop.
InitPgsql(a) ==
    /\ init = "pgsql"
    /\ a \in toInit
    /\ toInit' = toInit \ {a}
    /\ NewEngine(MainLoop)
    /\ registered' = registered \cup {Len(home')}
    /\ params' = params \cup {a}
    /\ engines' = [engines EXCEPT ![a][MainLoop] = Len(home')]
    /\ present' = present \cup {a}
    /\ loopRefs' = loopRefs \cup {<<a, MainLoop>>}
    /\ UNCHANGED <<init, open>>
    /\ InitUnchanged

\* Redis sets its attribute without an await; so does Celery at the end.
\* RabbitMQ and MongoDB await an answer first.
InitRedis ==
    /\ init = "pgsql"
    /\ toInit = {}
    /\ init' = "rabbitmq"
    /\ open' = configured \cap {"redis"}
    /\ UNCHANGED <<params, engines, present, loopRefs, home, registered, toInit>>
    /\ InitUnchanged

InitRabbitmq ==
    /\ init = "rabbitmq"
    /\ init' = "mongodb"
    /\ open' = open \cup (configured \cap {"rabbitmq"})
    /\ UNCHANGED <<params, engines, present, loopRefs, home, registered, toInit>>
    /\ InitUnchanged

InitMongodb ==
    /\ init = "mongodb"
    /\ init' = "done"
    /\ open' = open \cup (configured \cap {"mongodb", "celery"})
    /\ UNCHANGED <<params, engines, present, loopRefs, home, registered, toInit>>
    /\ InitUnchanged

\* A database or a broker cannot be reached.  What has been set up stays.
InitFails ==
    /\ \/ init = "pgsql" /\ toInit # {}
       \/ init \in {"rabbitmq", "mongodb"} /\ init \in configured
    /\ init' = "failed"
    /\ UNCHANGED <<params, engines, present, loopRefs, home, registered, toInit, open>>
    /\ InitUnchanged

-----------------------------------------------------------------------------
(* get_pgsql_engine and pg_session, on any loop                             *)

SessionUnchanged == UNCHANGED <<initVars, closeVars, loopState, open>>

CanAsk(l, a) ==
    /\ Running(l)
    /\ l = MainLoop => MainIsFree
    /\ session[l] = NoEngine
    /\ a \in params

\* Mutant: an engine of whatever loop will do.
GetAnyCached(l, a) ==
    /\ CanAsk(l, a)
    /\ \E o \in Loops : Cached(a, o) /\ session' = [session EXCEPT ![l] = engines[a][o]]
    /\ UNCHANGED engineVars
    /\ SessionUnchanged

GetCached(l, a) ==
    /\ CanAsk(l, a)
    /\ Cached(a, l)
    /\ session' = [session EXCEPT ![l] = engines[a][l]]
    /\ UNCHANGED engineVars
    /\ SessionUnchanged

Others(a, l) == {o \in Loops \ {l} : Cached(a, o)}

\* Mutant: the stale engines are dropped from the cache and forgotten.
GetNewForgetting(l, a) ==
    /\ CanAsk(l, a)
    /\ ~Cached(a, l)
    /\ NewEngine(l)
    /\ engines' = [engines EXCEPT ![a] =
                     [o \in Loops |-> IF o = l THEN Len(home') ELSE NoEngine]]
    /\ present' = present \cup {a}
    /\ loopRefs' = loopRefs \ {<<a, o>> : o \in Others(a, l)}
    /\ session' = [session EXCEPT ![l] = Len(home')]
    /\ UNCHANGED <<params, registered, disposed>>
    /\ SessionUnchanged

\* The engines of other loops count as stale: they leave the cache and are
\* disposed on their loop if it is known and runs.  The loop of the new
\* engine is not recorded.
GetNew(l, a) ==
    /\ CanAsk(l, a)
    /\ ~Cached(a, l)
    /\ NewEngine(l)
    /\ engines' = [engines EXCEPT ![a] =
                     [o \in Loops |-> IF o = l THEN Len(home') ELSE NoEngine]]
    /\ present' = present \cup {a}
    /\ LET reachable == {o \in Others(a, l) : <<a, o>> \in loopRefs /\ Running(o)} IN
         disposed' = disposed \cup {<<engines[a][o], o>> : o \in reachable}
    /\ loopRefs' = loopRefs \ {<<a, o>> : o \in Others(a, l)}
    /\ session' = [session EXCEPT ![l] = Len(home')]
    /\ UNCHANGED <<params, registered>>
    /\ SessionUnchanged

EndSession(l) ==
    /\ session[l] # NoEngine
    /\ l = MainLoop => MainIsFree
    /\ session' = [session EXCEPT ![l] = NoEngine]
    /\ UNCHANGED engineVars
    /\ SessionUnchanged

\* A thread starts an event loop, and closes it when its work is done.
LoopStarts(l) ==
    /\ loopState[l] = "new"
    /\ loopState' = [loopState EXCEPT ![l] = "running"]
    /\ UNCHANGED <<engineVars, initVars, closeVars, session, open>>

LoopCloses(l) ==
    /\ l # MainLoop
    /\ Running(l)
    /\ session[l] = NoEngine
    /\ loopState' = [loopState EXCEPT ![l] = "closed"]
    /\ UNCHANGED <<engineVars, initVars, closeVars, session, open>>

-----------------------------------------------------------------------------
(* close_resources                                                          *)

CloseUnchanged ==
    UNCHANGED <<initVars, params, home, registered, loopState, session, mqClosed, failedAt>>

Goto(c, l) == pc' = [pc EXCEPT ![c] = l]

\* Called when init_resources has ended, in whatever way.
CloseBegins(c) ==
    /\ pc[c] = "idle"
    /\ init \in {"done", "failed"}
    /\ MainIsFree
    /\ Goto(c, "aliases")
    /\ toClose' = [toClose EXCEPT ![c] = present]
    /\ shared' = [shared EXCEPT ![c] = TRUE]
    /\ UNCHANGED <<engines, present, loopRefs, disposed, alias, work, old, sharers, open>>
    /\ CloseUnchanged

\* The dicts of the snapshot, also when another closer has cleared
\* _pgsql_engines since.
Dicts(c) == IF shared[c] THEN engines ELSE old[c]

\* Mutant: detached engines stay in the dict as None.
CloseAliasWithNone(c) ==
    /\ pc[c] = "aliases"
    /\ \E a \in toClose[c] :
         /\ toClose' = [toClose EXCEPT ![c] = @ \ {a}]
         /\ alias' = [alias EXCEPT ![c] = a]
         /\ work' = [work EXCEPT ![c] =
              {[engine |-> Dicts(c)[a][l], loop |-> l, known |-> <<a, l>> \in loopRefs] :
                 l \in {x \in Loops : loopState[x] # "new"}}]
    /\ Goto(c, "items")
    /\ UNCHANGED <<engines, present, loopRefs, disposed, shared, old, sharers, open>>
    /\ CloseUnchanged

\* The list of the engines of one alias, with the loops known for them.
CloseAlias(c) ==
    /\ pc[c] = "aliases"
    /\ \E a \in toClose[c] :
         /\ toClose' = [toClose EXCEPT ![c] = @ \ {a}]
         /\ alias' = [alias EXCEPT ![c] = a]
         /\ work' = [work EXCEPT ![c] =
              {[engine |-> Dicts(c)[a][l], loop |-> l, known |-> <<a, l>> \in loopRefs] :
                 l \in {x \in Loops : Dicts(c)[a][x] # NoEngine}}]
    /\ Goto(c, "items")
    /\ UNCHANGED <<engines, present, loopRefs, disposed, shared, old, sharers, open>>
    /\ CloseUnchanged

TakeItem(c, item) ==
    /\ pc[c] = "items"
    /\ work' = [work EXCEPT ![c] = @ \ {item}]
    /\ UNCHANGED <<engines, present, loopRefs, toClose, alias, shared, old, sharers, open>>
    /\ CloseUnchanged

Dispose(item) == disposed' = disposed \cup {<<item.engine, MainLoop>>}

\* Mutant: every engine is disposed on the loop that closes.
DisposeHere(c) ==
    \E item \in work[c] : TakeItem(c, item) /\ Dispose(item) /\ Goto(c, "disposing")

\* The engine of this loop: dispose is called and awaited.
DisposeOwn(c) ==
    \E item \in work[c] :
        /\ item.loop = MainLoop
        /\ TakeItem(c, item)
        /\ Dispose(item)
        /\ Goto(c, "disposing")

\* The engine of another loop: dispose is scheduled there if the loop is known
\* and runs.
ScheduleOther(c) ==
    \E item \in work[c] :
        /\ item.loop # MainLoop
        /\ TakeItem(c, item)
        /\ disposed' = IF item.known /\ Running(item.loop)
                         THEN disposed \cup {<<item.engine, item.loop>>}
                         ELSE disposed
        /\ UNCHANGED pc

DisposeReturns(c) ==
    /\ pc[c] = "disposing"
    /\ MainIsFree
    /\ Goto(c, "items")
    /\ UNCHANGED <<engines, present, loopRefs, disposed, snapshotVars, open>>
    /\ CloseUnchanged

\* engines.clear() of the alias.
ClearAlias(c) ==
    /\ pc[c] = "items"
    /\ work[c] = {}
    /\ LET none == [l \in Loops |-> NoEngine] IN
         IF shared[c]
           THEN engines' = [engines EXCEPT ![alias[c]] = none] /\ UNCHANGED old
           ELSE /\ old' = [d \in Closers |-> IF d = c \/ d \in sharers[c]
                                              THEN [old[d] EXCEPT ![alias[c]] = none]
                                              ELSE old[d]]
                /\ UNCHANGED engines
    /\ alias' = [alias EXCEPT ![c] = NoAlias]
    /\ Goto(c, "aliases")
    /\ UNCHANGED <<present, loopRefs, disposed, toClose, work, shared, sharers, open>>
    /\ CloseUnchanged

\* Both maps are cleared; what another closer has still of its snapshot is no
\* longer what get_pgsql_engine looks at.
ClearAll(c) ==
    /\ pc[c] = "aliases"
    /\ toClose[c] = {}
    /\ engines' = NoEngines
    /\ present' = {}
    /\ loopRefs' = {}
    /\ LET losers == {d \in Closers \ {c} : shared[d]} IN
         /\ old' = [d \in Closers |-> IF d \in losers THEN engines ELSE old[d]]
         /\ sharers' = [d \in Closers |-> IF d \in losers THEN losers ELSE sharers[d]]
    /\ shared' = [d \in Closers |-> FALSE]
    /\ Goto(c, "at_redis")
    /\ UNCHANGED <<disposed, toClose, alias, work, open>>
    /\ CloseUnchanged

AtLabel(i) == IF i > 3 THEN "at_celery"
              ELSE <<"at_redis", "at_rabbitmq", "at_mongodb">>[i]

AtClient(c, i) ==
    /\ pc[c] = AtLabel(i)
    /\ UNCHANGED <<engines, present, loopRefs, disposed, snapshotVars>>
    /\ CloseUnchanged

SaysClosed(i) == Clients[i] = "rabbitmq" /\ mqClosed

\* A client that is set is closed, and awaited; a RabbitMQ connection only when
\* it does not say that it is closed.
CloseClient(c) ==
    \E i \in 1 .. 3 :
        /\ AtClient(c, i)
        /\ Clients[i] \in open
        /\ ~SaysClosed(i)
        /\ Goto(c, Clients[i])
        /\ UNCHANGED open

\* A client that is not set is passed over, and so is a RabbitMQ connection that
\* says it is closed: that one stays set.
PassClient(c) ==
    \E i \in 1 .. 3 :
        /\ AtClient(c, i)
        /\ Clients[i] \notin open \/ SaysClosed(i)
        /\ Goto(c, AtLabel(i + 1))
        /\ UNCHANGED open

ClientAwaited(c, i) ==
    /\ pc[c] = Clients[i]
    /\ MainIsFree
    /\ UNCHANGED <<engines, present, loopRefs, disposed, snapshotVars>>
    /\ CloseUnchanged

\* Mutant: the attribute keeps the closed client.
ClientStays(c) ==
    \E i \in 1 .. 3 : ClientAwaited(c, i) /\ Goto(c, AtLabel(i + 1)) /\ UNCHANGED open

ClientCloses(c) ==
    \E i \in 1 .. 3 :
        /\ ClientAwaited(c, i)
        /\ Goto(c, AtLabel(i + 1))
        /\ open' = open \ {Clients[i]}

CloseCelery(c) ==
    /\ pc[c] = "at_celery"
    /\ Goto(c, "done")
    /\ open' = open \ {"celery"}
    /\ UNCHANGED <<engines, present, loopRefs, disposed, snapshotVars>>
    /\ CloseUnchanged

\* An exception out of any await ends close_resources; _cleanup_resources of
\* the server logs it.
CloseFails(c) ==
    /\ pc[c] \in Awaits
    /\ MainIsFree
    /\ Goto(c, "failed")
    /\ failedAt' = [failedAt EXCEPT ![c] = pc[c]]
    /\ UNCHANGED <<engineVars, initVars, snapshotVars, loopState, session, open, mqClosed>>

\* The RabbitMQ connection is closed: a close() that a closer awaits has come so
\* far, or code of the application has called it.
ConnectionCloses ==
    /\ "rabbitmq" \in open
    /\ ~mqClosed
    /\ MainIsFree
    /\ mqClosed' = TRUE
    /\ UNCHANGED <<engineVars, initVars, pc, failedAt, snapshotVars, loopState, session, open>>

-----------------------------------------------------------------------------

Next ==
    \/ \E a \in Aliases : InitPgsql(a)
    \/ InitRedis \/ InitRabbitmq \/ InitMongodb \/ InitFails
    \/ \E l \in Loops :
         \/ \E a \in Aliases : GetCached(l, a) \/ GetNew(l, a)
         \/ EndSession(l) \/ LoopStarts(l) \/ LoopCloses(l)
    \/ \E c \in Closers :
         \/ CloseBegins(c) \/ CloseAlias(c) \/ DisposeOwn(c) \/ ScheduleOther(c)
         \/ DisposeReturns(c) \/ ClearAlias(c) \/ ClearAll(c)
         \/ CloseClient(c) \/ PassClient(c) \/ ClientCloses(c) \/ CloseCelery(c)
         \/ CloseFails(c)
    \/ ConnectionCloses

Spec == Init /\ [][Next]_vars

-----------------------------------------------------------------------------

Cache == [Aliases -> [Loops -> 0 .. MaxEngines]]

Labels == {"idle", "aliases", "items", "at_redis", "at_rabbitmq", "at_mongodb",
           "at_celery", "done", "failed"} \cup Awaits

TypeOK ==
    /\ toInit \in SUBSET Aliases
    /\ init \in {"pgsql", "rabbitmq", "mongodb", "done", "failed"}
    /\ params \in SUBSET Aliases
    /\ engines \in Cache
    /\ present \in SUBSET Aliases
    /\ loopRefs \in SUBSET (Aliases \X Loops)
    /\ home \in Seq(Loops) /\ Len(home) <= MaxEngines
    /\ registered \in SUBSET Engines
    /\ disposed \in SUBSET (Engines \X Loops)
    /\ loopState \in [Loops -> {"new", "running", "closed"}]
    /\ session \in [Loops -> 0 .. MaxEngines]
    /\ {configured, open} \subseteq SUBSET {"redis", "rabbitmq", "mongodb", "celery"}
    /\ mqClosed \in BOOLEAN
    /\ pc \in [Closers -> Labels]
    /\ failedAt \in [Closers -> Awaits \cup {"none"}]
    /\ toClose \in [Closers -> SUBSET Aliases]
    /\ alias \in [Closers -> Aliases \cup {NoAlias}]
    /\ work \in [Closers ->
                   SUBSET [engine : Engines, loop : Loops, known : BOOLEAN]]
    /\ shared \in [Closers -> BOOLEAN]
    /\ old \in [Closers -> Cache]
    /\ sharers \in [Closers -> SUBSET Closers]

\* An engine is disposed on no loop but its own, however requests of several
\* loops and several executions of close_resources interleave
\* (resource.py:176-185, "on the engine's own event loop").
DisposedAtHome == \A d \in disposed : home[d[1]] = d[2]

\* A session gets an engine of its own loop (resource.py:182-184).
SessionOnOwnLoop == \A l \in Loops : session[l] # NoEngine => home[session[l]] = l

\* An engine that init_resources created is in the cache, or has been disposed:
\* neither the change of loop nor a close that races with another, or fails,
\* drops it (resource.py:236-260, 281-304).
RegisteredAccountedFor ==
    \A e \in registered :
        \/ <<e, MainLoop>> \in disposed
        \/ \E a \in Aliases : engines[a][MainLoop] = e

\* Where an execution of close_resources is once it has got past a client.
After(x) ==
    CASE x = "redis"    -> {"at_rabbitmq", "rabbitmq", "at_mongodb", "mongodb", "at_celery", "done"}
      [] x = "rabbitmq" -> {"at_mongodb", "mongodb", "at_celery", "done"}
      [] x = "mongodb"  -> {"at_celery", "done"}
      [] OTHER          -> {"done"}

Reached(c) == IF pc[c] = "failed" THEN failedAt[c] ELSE pc[c]

\* An execution of close_resources that returns leaves no client set, and one
\* that fails none before the one that raised, however several of them
\* interleave; but for a RabbitMQ connection that says it is closed
\* (resource.py:384-388, 662-677).
NoneLeftBehind ==
    \A c \in Closers, x \in open :
        Reached(c) \in After(x) => x = "rabbitmq" /\ mqClosed
=============================================================================
