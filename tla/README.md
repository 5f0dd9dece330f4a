# Verification of linglong_web in TLA+

linglong_web is a Python framework around FastAPI: an application server with
graceful shutdown, a configuration proxy with a read-write lock of its own, a
resource manager for databases and brokers, a Redis cluster lock, caching,
rate limiting, an HTTP client and two managers of database schemas. This
directory holds TLA+ modules for its stateful parts, TLC configurations that check them on small
instances and proofs that TLAPS checks for all instances. Line numbers below
are those of the files under `src/linglong_web/`.

To check a run: `tlc -workers 2 -config MCRWThreads.cfg MCRWThreads`. To check
the proofs: `tlapm M.tla` for each M of `RWThreadsProofs`, `ConfigProxyProofs`,
`AppServerProofs`, `ResourcesProofs`, `HttpClientProofs`, `WorkersProofs`,
`SchemaServiceProofs` and `CachedCallsProofs`.
`PROJECT.json` lists the runs, what each definition models line by line, the
hazards with the properties that cover them, the findings, and for every
property a mutation of the model that breaks it.

## 1. The system

| Component | State | Operations | Hard behaviour | Correct when |
|---|---|---|---|---|
| Read-write lock, `utils/async_read_write_lock.py` | reader count, waiting-writer count, owner thread, recursion depth, one condition | acquire/release for reading and writing, re-entrant write, context managers, `a_*` forms over `asyncio.to_thread` | every `notify_all` lets all sleepers race; owner is a thread while coroutines share threads | writers alone, no sleeper forgotten, writers not starved, what is acquired is released |
| Configuration proxy, `core/config.py` | active class, its attributes, a cache of them, an initialised flag | get and attribute access, snapshot, set, batch update, load from dict, reset, change of class | flag tested without the lock; read lock given up before the write lock is asked for; nested write sections | readers see a filled, unmixed cache; cache and class agree; no call hangs |
| Signals and shutdown, `utils/signal_handler.py` | two shutdown flags, installed handlers, list of cleanup functions | install, restore, handle a signal, run callbacks with a timeout, `shutdown()` | several executions of the callbacks interleave; duplicates; timeout; restore during another execution | duplicates start nothing; cleanup done before the end |
| Application server, `core/server.py`, `core/server_extensions.py` | tasks of the server, the scheduler, the waiter; lifespan; signal handlers | `initialize`, `start`, startup and shutdown hooks | a signal at any step; three owners of SIGTERM; first task decides; cancellation swallowed | a signal ends the process, after cleanup and after the tasks of `start()` |
| Scheduler group, `core/scheduler.py` | tasks and triggers | decorate, wrap, serve | wrapped jobs swallow cancellation | jobs end at shutdown |
| Resource manager, `core/resource.py` | engines by name and loop, pools, clients | init from configuration, lazy engines, sessions, close | failure half way; stale engines of other loops; re-initialisation | what was opened is closed, once |
| Cluster lock, `core/cluster_lock.py` | a Redis key with a lease | decorated calls | lease expires while the function runs; crash; Redis fails | exclusive within the lease; key freed |
| Cacher, `core/cacher.py` | Redis entries | decorated calls | any exception, the function's own included, calls the function again; overlapping calls store in any order | own values, not too old, no third execution |
| Rate limiters, `core/limiter.py`, `core/limiter_local.py` | moving windows in Redis or in memory | decorated calls, reset | absent limiter, rate that cannot be parsed; refusal caught by a cacher outside | no more calls than the rate |
| HTTP client, `core/http.py` | a shared session | fetch with retries, close | session closed or its loop replaced under a call; retry after 5xx, 401/404, exceptions | one open session, retries exactly as many as asked for, every call ends |
| Auto DDL manager, `core/ddl_manager.py` | the database: tables, columns, extension, functions | `check_and_init_tables`; the splitting of scripts | workers that start together, failures half way, dependency order, cycles, comments and quotes | True means ready; parents first; a later run completes an interrupted one |
| Schema DDL manager, `utils/ddl_manager.py` | databases, tables, comments with a hash, `ddl_registry` | ensure, diff, rebuild of a database or of tables; loading of scripts | managers of several releases, dropped databases, failing statements, crashes between statements | a later run repairs what earlier ones left, up to the first table whose columns are right; a dry run writes nothing |
| Request context, router, auth, CORS, responses, errors, constants, logging, time | none or context variables | adapters | none of their own | not modelled |

How they interact. `start()` installs the signal handlers, whose cleanup list
closes the resources; the lifespan handler runs the extensions' hooks and calls
`shutdown()` again. The configuration proxy takes the read-write lock in every
operation, and is read by the resource manager, the HTTP client and the
limiters. The cluster lock and the cacher use the Redis pool of the resource
manager and do nothing without one, as the limiter does without its own; a
cacher around a limiter takes the limiter's refusal for a failure of Redis. The
two DDL managers work on a database that other workers of the service, or of
other releases, change at the same time. The server, the scheduler group and every
execution of the shutdown callbacks are tasks of one event loop; the read-write
lock is used by threads; the cluster lock is shared between processes.

## 2. Modules

| Module | Models | Based on |
|---|---|---|
| `RWLock` | the monitor: one action per stretch of code between two waits | |
| `ReadersWriters` | what the lock promises: abstract readers-writers with pending writers first | |
| `RWThreads` | threads in `read_locked`/`write_locked`, with nested write sections | extends `RWLock`, refines `ReadersWriters` |
| `RWThreadsProofs` | proofs about `RWThreads` | |
| `AsyncRWLock` | the `a_*` methods over a pool of workers | extends `RWLock` |
| `ConfigProxy` | the proxy's operations by several threads | extends `RWLock` |
| `ConfigProxyProofs` | proofs about `ConfigProxy`, which implements `RWThreads` | instance of `RWThreadsProofs` |
| `GracefulShutdown` | `SignalHandler`, `ServiceGracefulShutdown` | |
| `AppServer` | `start()`, server task, lifespan, scheduler, waiter, signals | extends `GracefulShutdown` |
| `AppServerProofs` | proofs about `AppServer` and `GracefulShutdown` | |
| `Resources` | engines by alias and loop, `init_resources`, `close_resources` | |
| `ResourcesProofs` | proofs about `Resources` | |
| `HttpClient` | the session and the retries of `fetch` | |
| `HttpClientProofs` | proofs about `HttpClient` | |
| `ClusterLock` | the decorator over a Redis key | |
| `CachedCalls` | a function under `cacher` and a limiter, in either order | |
| `CachedCallsProofs` | proofs about `CachedCalls` | |
| `AutoDDL` | `check_and_init_tables` by several workers | |
| `WorkersProofs` | proofs about `AutoDDL` and `ClusterLock`, the components that workers of a service share | |
| `SqlText` | both splitters of scripts, run beside the lexer of psql | |
| `SchemaDDL` | the operations of `DDLManager` on one database by several managers | |
| `SchemaService` | the loader in front of a manager | extends `SchemaDDL` and `SqlText` |
| `SchemaServiceProofs` | proofs about `SqlText`, `SchemaDDL` and `SchemaService` | |

`MC*` modules give the constants of a run.

**RWLock.** `numReaders`, `numWritersWaiting`, `writerThread` and `writeDepth`
are the fields of the class. `waitsFor[t]` is the method whose wait a thread is
inside, and `asleep` the wait set of the condition: a `notify_all` empties it,
and a thread that waits for something without being asleep has still to get the
mutex. `_main_lock` is held from entry to wait or return, so
each such stretch is one action: `TakeRead`, `SleepForRead`,
`TakeWriteAtOnce`, `AnnounceAndSleep`, `TakeWriteWoken`, `SleepAgainForWrite`,
`ReenterWrite`, `ReleaseRead`, `ReleaseWrite`. The actions take no program
counter, so that three different users of the lock can compose them.

**AsyncRWLock.** A call of an `a_*` method is put in the queue of the default
executor; a free worker takes the head. The owner the lock records is the
worker, as `current_thread()` gives it.

**ConfigProxy.** A call goes through labels (`pc`): the unlocked test of
`_cache_initialized`, the lock calls, the critical sections, the unlocked
`hasattr` and `getattr`, the write-back. `__getattr__` and `get` differ only in
what they answer when the attribute is missing and are one operation, as are
`__setattr__` and `apply_updates` (a batch of one key). `writtenBack` is a
history variable: the keys whose cached value came from a write-back.

**GracefulShutdown and AppServer.** An execution of the shutdown callbacks is a
*run* with a phase of its own; `MainRun` is the one `start()` awaits,
`LifespanRun` that of the lifespan, the others belong to signals. `onTerm` says
who has SIGTERM: nobody, `SignalHandler`, uvicorn or the server's own handler.
Each action is what one task does between two awaits. uvicorn appears as
`start()` and the lifespan see it: it takes SIGTERM while serving, runs the
lifespan in a task a cancellation does not reach, gives the handler back and
re-raises a captured signal.

**Resources.** `engines` and `loopRefs` are the two maps of `ResourceManager`;
`home` and `registered` are history. `disposed` holds an engine with
the loop on which its `dispose` has been called or scheduled. Executions of
`close_resources` take a snapshot of the map and go on with the dicts of that
snapshot when another execution has cleared the map (`shared`, `old`); those
that lose the same dicts see each other's changes to them (`sharers`). A
snapshot has the aliases that are keys of the map at the time (`present`). Tasks of
the main loop do not interrupt each other between two awaits (`MainIsFree`);
requests on other loops do. `mqClosed` is what the RabbitMQ connection
answers to `is_closed`: it may close by itself at any time
(`ConnectionCloses`), and a close then passes it by and leaves it set, as
`resource.py:385` does. `failedAt` is history: the client at which an execution
raised. FromConf stands for the reading of the
configuration: any set of aliases and one of the listed sets of clients.

**HttpClient.** A call keeps the session it began with (`mine`) and counts its
attempts; what answers, and what aiohttp raises when the session is closed, is
nondeterministic. Loops follow one another.

**ClusterLock.** `stage` is where a call is in the wrapper. `holder` and `lease` are the Redis key; `Tick` is one unit of
time for the lease and for the patience of every waiting call. `held` is a
history variable: how long a function has run under its lock.

**CachedCalls.** `hits` is the window of each key: which call was let through,
as which of its hits, and when. A call goes through labels (`pc`): the hit of the limiter, the
test of the pool, GET, the function, SETEX; every await is between two actions.
`setup` says which decorator is outside, whether the limiter is `limiter_local`
and what each does per user. `Caught` is the `except` of the cacher: it sends
the call to the function, or to a limiter inside, once more, and `fell` says
that there is no such way any longer. A value stands for the user it was
computed for and the time at which the function looked; `admitted`, `free`,
`executed` and `failed` are history. The pool and the limiter come and go with
`init_resources` and `close_resources`, which leaves the limiter.

**AutoDDL.** A transaction is one action; the workers interleave between them.
`script` is the directory: for each table what it references, what the pattern
of the code sees of that (`seen`), which standard columns it names, whether it
has triggers and whether it is empty. `todo` is first the list of trigger files,
then that of tables in the order `Order` gives, which is Kahn's algorithm of
`_topological_sort` step for step, as a recursive function: `Pop` takes the head
of the queue and appends the tables this frees (`FreedBy`) in the order of the
list (`Among`). Tables on a cycle never come into the queue; the result is then
shorter than the list, and `CheckMissing` ends the run, where the code raises
"Circular dependency detected". `CREATE EXTENSION` is two steps, since two of them conflict. `quiet` is history: the runs that
nothing has interfered with and in which nothing failed.

**SqlText.** A script is any sequence of items: quotes, two dollar tags, the
openers and closers of comments, parentheses, semicolons, ends of lines, text.
Three scanners read it in step: the splitter of `core/ddl_manager.py` (`core`),
that of `utils/ddl_manager.py` (`schema`) and psql's lexer (`lex`). `cut` says
whether the item just read ended a statement.

**SchemaDDL and SchemaService.** Every statement is an action. A table is its
shape and whether its other statements have been executed; a shape is a number.
`_apply_table` is `CreateTable`, `Extras`, then the questions of
`_compute_table_diff`, one statement each (`DiffExists`, `DiffColumns`,
`DiffHash`), and between the last two `WriteComment`, for a table whose columns
are right. PostgreSQL rejects that statement, so `WriteComment` ends the run;
no comment and no row of `ddl_registry` is ever written, and of that table the model
keeps only that it is there (`registry`). `StatementFails` is wherever the code
reports a failed statement and goes on, and `Raise` wherever it does not.
`Terminate` kills the connections of the others (`conn` becomes "dead"), after
which their next statement fails. `Parsed` is what the code reads as the columns
of a script, any shape: a primary key is not seen as NOT NULL, so it may be that
of another release. `rebuild_tables` runs beside other managers like every operation.
`SchemaService` puts the loader before: files are cut one after the other, and
nothing is applied before all are.

## 3. Runs

| Run | Question | Result |
|---|---|---|
| `rwlock` | four threads, two levels of nesting: counters, exclusion, no lost wake-up, writers not starved, refinement of `ReadersWriters` | holds |
| `async_rwlock_release` | two coroutines, two workers: is the lock released when its users have left? | violated |
| `config_proxy` | two threads, any two calls each, two keys, two classes: readers see a filled cache, cache agrees with the class, nothing changes under a reader, every call ends | holds |
| `config_snapshot` | as above with whole batches only: is a snapshot ever mixed? | violated |
| `app_server` | two signals, two cleanup functions, all scheduler kinds: duplicates ignored, cleanup before the end, the tasks of `start()` ended at the exit, a signal ends the process | holds |
| `app_server_stop` | does a signal always end the process? | violated |
| `resources` | two aliases, two loops, three overlapping closes, any failure: engines disposed and used on their own loop, none made by init forgotten, no client left set by a close before the one it raised at | holds |
| `http_client` | two calls, closes and a new loop: one open session, retries used up exactly, calls end | holds |
| `cluster_lock` | three calls with expiry, impatience, crash and Redis failure: exclusive within the lease, key freed | holds |
| `cached_calls` | two calls under six ways to decorate, Redis failing and closing, cancellation, expiry: rate kept, own values, bounded age | holds |
| `auto_ddl` | two workers, six directories of three tables, any state left by earlier runs, failures and crashes: True means ready, parents first, a quiet run completes | holds |
| `schema_ddl` | two managers of two releases behind a loader of any text, all operations, failures and crashes: how far a quiet run comes in whatever others left, a dry run writes nothing, scripts cut where psql cuts them | holds |

What the violated ones show:

* `a_write_locked` releases on whichever pool worker is free. If that is not
  the worker that acquired, `release_write` raises and the lock stays owned
  (`async_read_write_lock.py:97`, against the docstring at line 20).
* `get` and `__getattr__` read the class without the lock and cache the value
  later; a batch applied in between, after `load_from_dict` has dropped keys
  from the cache, is half overwritten, and a snapshot shows one key of each
  batch (`config.py:133`, against `tests/test_config.py:38`).
* If a finite scheduler group ends first, `start()` goes into `gather` and
  never looks at the shutdown event again; SIGTERM then closes the resources
  and leaves the server running (`server.py:296`, against
  `docs/server.html:241`).

Disagreements met while modelling that have no run of their own; the module
named has the behaviour, and the property named states what does hold:

* SIGTERM starts the cleanup directly and the server task is then cancelled, or
  `serve()` returns because uvicorn has captured the signal during startup; in
  neither case does anyone ask the lifespan to shut down, so the extensions'
  `on_shutdown` hooks do not run (`server.py:280` and 311, against
  `server_extensions.py:22`; `hooksRan` in `AppServer`).
* `get_pgsql_engine` stores the engine it creates but not its loop; a close on
  another loop drops the engine without disposing it (`resource.py:263`,
  against `docs/resource.html:121`; `Resources`, `RegisteredAccountedFor`).
* `get`, documented never to raise, raises when the class changes between
  `hasattr` and `getattr` (`config.py:133`; `GetAttr` in `ConfigProxy`).
* The cluster lock is not exclusive once the lease has run out
  (`cluster_lock.py:103`, against `docs/cluster_lock.html:61`;
  `ExclusiveWithinLease`).
* The cache key leaves out the arguments of the call (`cacher.py:44`, against
  `docs/cacher.html:63`), and a user with number 0 (`OwnValues` exempts 0).
* A limiter's refusal inside a cacher is logged as a failure of Redis and the
  limited function tried again, so a refused request may still be let through
  (`cacher.py:86`; `LimitRefuses` with `Caught` in `CachedCalls`, `RateKept`).
* The splitter of `core/ddl_manager.py` recognises comments only after it has
  cut (line 431, against its docstring at 398): a quote or semicolon in a comment
  misleads it (`CutsAgree`, where `textOnly` is the condition).
* Columns are added only to a table that another worker creates during the run:
  once all tables exist the run ends before it looks at any
  (`core/ddl_manager.py:104`, against line 278; `SuccessMeansReady`).
* `REFERENCES public.users` is no dependency, because the pattern takes the
  schema for the table (`core/ddl_manager.py:358`; `QuietRunCompletes`).
* Two `ensure_schema` that both find the database missing both create it, and
  the second raises (`utils/ddl_manager.py:803`, against line 676;
  `CreateDatabase` in `SchemaDDL`).
* `COMMENT ON TABLE ... IS $1` has a bind parameter where PostgreSQL takes none,
  and nothing catches the error: `ensure_schema` raises at the first table whose
  columns agree with its script, and the tables after it are never created
  (`utils/ddl_manager.py:966`, against line 676; `WriteComment`,
  `QuietRunReaches`). `rebuild_tables` has by then dropped all of them.
* A column that is PRIMARY KEY is read as one that may be NULL (line 527 of
  `utils/ddl_manager.py`). A table made from its own script then shows drift for
  ever, and the table of a release without the key compares clean, so that line 880
  would record a hash of other columns than the table has, against the comment
  at line 879; what keeps it from doing so is the rejected comment (`Parsed`
  beside `Shape` in `SchemaDDL`).
* `diff_schema` connects to a database that does not exist and raises
  (`utils/ddl_manager.py:698`, against line 687; `Connect` in `SchemaDDL`).

**Properties in context.** `CacheAgreesWithClass` exempts written-back keys
because of the second finding. `SignalEndsProcess` exempts two situations by
name: `main = "gathering"` (the finding about `server.py:296`) and `swallowed`, a
scheduled job that swallowed the cancellation `start()` awaits, after which nobody
cancels it again. `TasksEndedAtExit` is about the tasks that `start()` creates; what
uvicorn runs beside `serve()`, requests and the lifespan, may still be at work
when `os._exit` comes. `NoneLeftBehind` exempts a RabbitMQ connection that says
it is closed, which `close_resources` leaves set, as a test of the repository
expects. `QuietRunCompletes` exempts what no run can repair, a cycle
or a parent the pattern has missed, and `QuietRunReaches` says how far a run
comes: it has left each table before the one it stands at complete, but with
columns that differ from what it reads, or not created for want of a parent; it
raises at a table whose columns agree, and nowhere else. They speak of a run without interference because
a run that meets another may raise (above); the point is that whatever the
interference left behind, the next run puts right.

**Bounds.** `rwlock`: four threads are the fewest in which two readers can
alternate while one writer waits and another holds the lock; depth 2 has every
transition of the recursion. `config_proxy`: races are between a call and one
that changes what it saw, which takes two threads; two calls each let a thread
meet the state left by an earlier race; the second class lacks one of the two
keys so that a change of class can take an attribute away. `app_server`: the
first signal starts the shutdown, the second meets it, or finds the default
handlers restored; with two cleanup functions a run can stand between them; the
three scheduler kinds are none, one whose triggers end and one whose triggers
do not. `resources`: two aliases let a request ask for one
while the other is being closed; two loops let each find the other's engine
stale; three engines are those of init and one more, or one of init that another
loop and then the main loop replace; of three closers two can lose the same
dicts to the third; the symmetry is between aliases and between closers, which
the module treats alike. `http_client`: two calls, one to find the session the other has left;
two retries, so that server errors and exceptions mix; a caller that begins
over the limit; two closes, one before and one after a session is replaced.
`cluster_lock`: one call that outlives its lease, one that takes over,
one that waits; a lease of two units can be half used, and a patience of three
is longer than the lease, so that a waiting call can see an expiry and still be
refused. `cached_calls`: two calls, one to fill or overwrite the entry the other
reads; a rate of one call, so that every second hit is refused; expiry, window
and the function's slowness of one unit in two units of time, so that an entry
and a hit can expire while a function runs; one failure of Redis, since each
call has one second try and the function's own exceptions are not bounded; six
of the decorations, which have each switch on and off. `auto_ddl`: three runs by
two workers are two that race and one that comes after them; one failing
transaction beside any number of crashes; three tables make a chain that is
sorted against the names, a cycle with a table that is not on it, and a parent
that fails before its child. `schema_ddl`: three runs, so that one of each
release can race and a third follow, and a rebuild can meet both; one table
referencing the other; two releases, of which the second makes a column of the
first table its primary key, so that its script is read as the shape of the
first release, and adds an index to the other table; parentheses and comments two deep, which is one more than the splitters
must tell apart; files of any length, as the state does not grow with them.
Each instance is explored completely.

**Deadlock** is checked in no configuration but `rwlock`: there threads come
and go for ever, in the others the system stops when the calls, signals or
lifetimes are used up. `CallsEnd`, `SignalEndsProcess` and `LockIsFreed` rule
out that it stops too early. In `cached_calls`, `auto_ddl` and `schema_ddl` no
action waits for another actor, and the state in which all calls and runs are
used up is the only one without a step.

**Fairness.** `RWThreads`: weak fairness of a woken thread and of leaving a
section, since the bodies of the code's `with` statements only copy
dictionaries; nobody is obliged to start a section. `ConfigProxy`: weak
fairness of continuing a call, since no thread is stopped and the mutex is
held for finitely many instructions. `AppServer`: weak fairness of every task,
as the event loop runs all that are ready; strong fairness only for the end of
a finite scheduler group, which is enabled again and again between jobs. A
signal and a spontaneous stop of the server are never obliged. `HttpClient`: a
request ends by its own timeout and a pause by its delay. `ClusterLock`:
time passes and the wrapper's own code runs, the function need not return.
`CachedCalls`, `AutoDDL` and `SchemaDDL` state none: their properties are of
safety, since a statement of PostgreSQL or Redis may take for ever.

## 4. Proofs

Every property of a passing run but the four of liveness is also a theorem, for
every value of the constants that the named assumptions of the modules allow.
What those say is what the code guarantees (an empty batch returns at once, the
files of a directory have different names) or that a bound is a number; the
threads are finitely many. The invariants are proved by `Init => IInv`,
`IInv /\ [Next]_vars => IInv'`, `IInv => P`; TLC has checked each `IInv` on the
instance of its run before it was proved. What each invariant adds to the
properties, and why they are not inductive without it:

`RWThreadsProofs`, for any finite set of threads and any nesting depth:
`TypeCorrect`, `CountsCorrect`, `MutualExclusion`, `NoWakeupIsLost` and
`Implementation` (refinement of `ReadersWriters`). Exclusion
is not inductive: whether a thread may enter is decided by counters. The
invariant adds that the counters agree with the threads
(`CountsMatch`), that a thread inside a section waits for nothing (`OneThing`),
and that readers and a writer never coexist in the counters (`Apart`). Each
action changes a cardinality by one, for which `CountOneMore` and
`CountOneLess` are stated once. The refinement maps every action to an abstract
operation or a stutter, under the invariant.

`ConfigProxyProofs`, for any finite set of threads, any classes, keys, batches and
dicts: `UsesLockAsSpecified`, `TypeCorrect`, `ReadersAreServed`,
`CacheIsFaithful` and `ReadersSeeNoChange` (an action property). The proxy is
the lock's user, so its proof takes the lock's from `RWThreadsProofs` by INSTANCE:
`Section` reads off a thread's label the section it is in, `LockSimulated` maps
each step to a step of `RWThreads`, and the invariant of that module then holds
here. The rest says what a thread's label tells of its call (`FrameInv`), how
deep its write section is (`DepthFits`), and, of the cache, that once somebody
is past `_ensure_cache_initialized` it is filled, or a rebuild that has the write
lock is about to fill it again (`FilledOnceEnsured`). That last disjunct is why
`ReadersSeeFilledCache` alone is not inductive: the flag is tested before the
lock is taken, and only exclusion brings a reader past the rebuild.

`AppServerProofs`, for any number of signals, of cleanup functions and any
schedulers: `TypeCorrect`, `CallbacksStartedOnce`, `CleanupFirst`,
`TasksEndFirst`. A default handler kills the process, so `CleanupFirst` needs that
a handler is the default one only after a run of the callbacks is over
(`DefaultOnlyAfterCleanup`), and that no run starts a second time, which would
take back that it was over (`RunsFresh`, `LifespanFollowsServer`).
`TasksEndFirst` needs that a task that has not ended is still on the list of
those to cancel, or the one `start()` awaits (`PendingCovered`); it says
nothing of the tasks of uvicorn.

`ResourcesProofs`, for any aliases, loops, engines and executions of
`close_resources`: `TypeCorrect`, `DisposedOnOwnLoop`, `SessionsOnOwnLoop`,
`NoEngineLost`, `ClientsClosed`. The first two follow from where engines are kept:
in the map, in a snapshot that was lost to another execution, or in a list of
work, it is always under their own loop (`KeptAtHome`). `NoEngineLost` is about the two
places that forget engines. A request from another loop disposes what it
forgets, as the loop of an engine of init is on record (`OnRecord`) and runs
(`InitFirst`). An execution that clears an alias, or everything, has dealt with
its engines before (`ClosedBehind`, `AtOneAlias`), or another one has
(`ClearedByAnother`). `ClientsClosed` is inductive beside these:
`NoneLeftBehind` says already, of every place of an execution, which clients are
behind it, and no client is set once executions have begun (`ClientStepLeaves`
has their steps).

`HttpClientProofs`, for any calls, retries, closes and loops: `TypeCorrect`,
`SessionsAreClosed`, `RetriesBounded`. The invariant accounts
for sessions, each of which but the first was created for a close or a new loop
(`SessionsAccounted`), and relates, at each place of the retry loop, the requests
sent to the attempts counted (`AttemptsAccounted`).

`WorkersProofs`, two components in one module. Of `ClusterLock`, for any calls,
lease and patience: `LockTypes`, `KeepsLock`, `Exclusive`. That a tick does not
expire the key of a running function depends on how much of the lease is left,
so the invariant adds that time held and time left make up the whole lease
(`LeaseCountsDown`) and that a call without the lock has held it for no time. Of
`AutoDDL`, for any workers, tables, scripts, failures and crashes: `SuccessReady`,
`ParentsFirst`, `QuietCompletes`. These rest on what the recursive function of
`Order` returns for every list of tables. The library's induction theorems take
an operator as a parameter and cannot be used; `SetInduction` states induction
over a set of numbers, derived from `WFMin`, and `Recursion` that
the function is what its definition says. `KahnInit` and `KahnPop` show that the
steps of the algorithm keep `KahnInv` (what is listed and what is queued is distinct,
comes after what it references, and the queue has every table that is free);
`OrderSorts` concludes that the result has every table once, and parents first
where there is no cycle. `DDLInv` says of a worker what its list still holds
(`Queue`, `Sorted`), what success so far means (`Ready`), and of a quiet run
that no other worker acts (`Alone`) and why a table it passed is still missing
(`LeftOut`): the run lacks a parent that it will not make any more.

`SchemaServiceProofs`, for scripts of any length and depth and any managers,
tables, releases, shapes, numbers of runs and of failures. `SplittersAgree`: as
long as the script is of the kind the condition names, `schema` is in the mode
of `lex`, and `core` in the same but for comments, which it takes for plain text
(`ScanInv`); the cuts follow from the modes before the item. `SchemaAssumption`
says only that there is a table and that shapes are numbers; `Parsed` may be any
misreading. `QuietRunsReach` (the property `QuietRunReaches`) holds of one run at
any place by `QuietOne`: nobody else runs (`RunsAlone`), so what it has found
stays so; it has a database and, further on, `ddl_registry` and the common statements
(`RunGoesOn`); the table it is at is as far as its place says (`Halfway`); and
each table behind it is complete with other columns, or wants a parent
(`PassedBehind`, over which `PassedKept` and `BehindGrows` carry the tables
created later). `TypeCorrect` needs that a manager at work on a table is within
its list (`Working`), and both need that a manager's place is one of its operation
(`OpFits`). `DryRunWritesNothing` is an action property. `ServiceApplies` is a
refinement: the manager behind the loader implements `SchemaDDL`, so that the
above holds of the whole, and `FilesCutAlike` that its files are cut as
`SplittersAgree` says.

`CachedCallsProofs`, for any calls, users, decorations, rates, expiries and
failures: `TypeCorrect`, `OwnValuesReturned`, `NothingOlder`, `RatesKept`. What
is served comes from entries, and entries from calls, so
the invariant adds that a call from the function to SETEX holds a value of its
own user, not older than `Slow` (`Computed`), and that entries are of their user
and expire in time (`Stored`). `RatesKept` is about cardinalities: of every window
that ever was, now or later, the hits are finite and within the limit
(`WindowsKept`), and at each place of a call its executions are bounded by the
hits it was let through (`Executions`, `Admissions`).

Only model-checked: the liveness properties (`WritersNotStarved`, `CallsEnd` of
both modules, `SignalEndsProcess`, `LockIsFreed`), which need fairness and
`ENABLED` and are out of the prover's reach; and the three violated runs, whose
properties are not true. `AsyncRWLock` has no other property than the violated
one.

## 5. What is abstracted or left out

* Lock: no timeouts (the code has none); no spurious wake-ups (CPython's
  condition has none); asynchronous exceptions out of `wait`; cancellation of a
  coroutine inside an `a_*` method. A second read section inside a first, which
  blocks for ever if a writer waits, occurs nowhere in the code and is not a
  step of `RWThreads`.
* Configuration: values are opaque; inheritance between config classes is left
  out, each class has attributes of its own; loading modules and environment
  variables is input to `Dicts` and `Updates`.
* Server: SIGINT is treated as SIGTERM, as the code does; failure to bind and
  `SystemExit` from uvicorn, exceptions of awaited pending tasks, and whether
  the selector wakes up for a handler installed with `signal.signal` are left
  out; `force_shutdown_if_needed`, `remove_shutdown_callback` and the elapsed
  time accessors have no caller in the server. `initialize()` before the
  start is left out but for the resources.
* Resources: threads that meet in the middle of `get_pgsql_engine`; the
  reuse of a loop's identity by a later loop; the setters, which nothing in the
  code calls; the limiter and the clock, which have nothing to close. Whether a
  scheduled `dispose` gets to run before its loop stops is not distinguished
  from its being scheduled. The databases and brokers appear as success or
  failure of each await.
* HTTP client: headers, logging and the length of pauses.
* Cacher and limiters: the arguments of the function, as the key leaves them out;
  other functions and suffixes, which have other keys; encoding, but that it may
  fail. `Slow` bounds the time from the function's start to the end of SETEX; the
  code has no such bound, so `BoundedAge` is relative to it.
* Auto DDL: `enable_auto_init` is on. A script is not text here but what
  the code finds in it; trigger files and scripts are there when they are read.
* Schema DDL: one database of several; the connection to the administrative
  database fails like any statement (`Raise`). A statement is not text but its
  effect; the parsing of columns is `Parsed`; classification of statements,
  status and report texts are left out. What would follow `COMMENT`, the row
  of `ddl_registry`, is never reached.
* Scripts: a dollar tag in the middle of a word, backslash quotes and `BEGIN;`
  lines are left out; two tags stand for any number.
* Cluster lock: how the key is composed is the choice of `Calls`: calls that
  share a key. Clocks of Redis and its clients run at one rate.

Not modelled: middleware and error handlers (a stateless mapping), request
context (context variables, private to a task), router, auth and CORS
dependencies (adapters over FastAPI without state), responses, schemas, errors,
constants (data), logging, time and package plumbing (setup). None of these has
a state that two steps could disagree about.

## 6. Plan

Done: the lock and its users, because everything else stands on it; the life of
the server; the cluster lock; resources and HTTP client; the DDL managers with
their splitters; cacher and limiters; proofs of every safety property of these.
Left, in this order:

1. Composition of `Resources` and `HttpClient` with the cleanup functions of
   `GracefulShutdown`: does a request that is being served find its resources?
2. `AsyncRWLock`: cancellation of a coroutine that acquires, and the pool whose
   workers all wait, as properties of their own.
3. Proofs of what holds in the violated runs: that a snapshot is unmixed as long
   as nothing is written back, that an `a_*` lock is released by its acquirer's
   worker; and of the exemptions of `SignalEndsProcess` as a safety property.
