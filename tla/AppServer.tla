----------------------------- MODULE AppServer ------------------------------
(***************************************************************************)
(* LinglongAppServer from start() to the end of the process                *)
(* (core/server.py): the main coroutine, the task that serves the API, the *)
(* lifespan task inside it, the scheduler task, the task that waits for    *)
(* the shutdown event, and the runs of GracefulShutdown.  All are tasks of *)
(* one event loop; signals arrive between any two steps.                   *)
(*                                                                         *)
(* The server process is uvicorn's, modelled by what start() and the       *)
(* lifespan handler see of it: it takes over SIGTERM while it serves,      *)
(* hands it back when it ends, and drives the lifespan in a task of its    *)
(* own, which a cancellation of the server does not reach.                 *)
(***************************************************************************)
EXTENDS GracefulShutdown

CONSTANT Schedulers   \* subset of {"none", "finite", "endless"}: triggers to try

ASSUME SchedulersAssumption == Schedulers \subseteq {"none", "finite", "endless"}

VARIABLES
    process,       \* "up", "exited" (os._exit), "returned", "killed"
    signals,       \* signals received so far
    main,          \* where start() is
    toCancel,      \* the pending tasks start() has still to cancel and await
    awaiting,      \* the cancelled task start() awaits, or "none"
    api,           \* the task of server.serve()
    captured,      \* the signal uvicorn has captured, 0 if none
    lifespan,      \* where the lifespan handler is
    hooksRan,      \* the on_shutdown hooks of the extensions have run
    scheduler,     \* kind of the scheduler group
    sched,         \* the task of aioclock_app.serve()
    swallowed,     \* a wrapped job has swallowed a cancellation
    waiter         \* the task of wait_for_shutdown_signal()

taskVars == <<api, captured, lifespan, hooksRan, scheduler, sched, swallowed, waiter>>

mainVars == <<main, toCancel, awaiting>>

vars == <<shutdownVars, process, signals, mainVars, taskVars>>

Init ==
    /\ ShutdownInit
    /\ process = "up"
    /\ signals = 0
    /\ main = "initialized"
    /\ toCancel = {}
    /\ awaiting = "none"
    /\ api = "none"
    /\ captured = 0
    /\ lifespan = "none"
    /\ hooksRan = FALSE
    /\ scheduler \in Schedulers
    /\ sched = "none"
    /\ swallowed = FALSE
    /\ waiter = "none"

\* The process runs; once it has ended, nothing happens any more.
Up == process = "up"

Ended(task) ==
    CASE task = "api"    -> api = "ended"
      [] task = "sched"  -> sched = "ended"
      [] task = "waiter" -> waiter = "ended"

Tasks == {"api", "waiter"} \cup (IF scheduler = "none" THEN {} ELSE {"sched"})

\* start() has called cancel() on the task, awaits it, and the task has still
\* to see the cancellation.
Cancelled(task) == awaiting = task /\ ~(task = "sched" /\ swallowed)

-----------------------------------------------------------------------------
(* start()                                                                  *)

\* Up to asyncio.wait: the handlers are installed, the tasks created.
StartService ==
    /\ Up
    /\ main = "initialized"
    /\ main' = "waiting"
    /\ InstallSignalHandlers
    /\ api' = "created"
    /\ sched' = IF scheduler = "none" THEN "none" ELSE "idle"
    /\ waiter' = "waiting"
    /\ UNCHANGED <<shuttingDown, phase, cleaned, bare, process, signals, toCancel,
                   awaiting, captured, lifespan, hooksRan, scheduler, swallowed>>

\* Mutant: waits for all tasks and not for the first.
WaitForAllReturns ==
    /\ Up
    /\ main = "waiting"
    /\ \A task \in Tasks : Ended(task)
    /\ main' = IF shuttingDown THEN "cancelling" ELSE "gathering"
    /\ UNCHANGED <<shutdownVars, process, signals, toCancel, awaiting, taskVars>>

\* Mutant: cancels a scheduler task that was never created.
WaitReturnsForEveryTask ==
    /\ Up
    /\ main = "waiting"
    /\ \E task \in Tasks : Ended(task)
    /\ IF shuttingDown
         THEN /\ main' = "cancelling"
              /\ toCancel' = {task \in {"api", "sched", "waiter"} : ~Ended(task)}
         ELSE main' = "gathering" /\ UNCHANGED toCancel
    /\ UNCHANGED <<shutdownVars, process, signals, awaiting, taskVars>>

\* The first task has completed.  Without a shutdown under way start() gathers
\* the tasks, whatever happens later.
WaitReturns ==
    /\ Up
    /\ main = "waiting"
    /\ \E task \in Tasks : Ended(task)
    /\ IF shuttingDown
         THEN /\ main' = "cancelling"
              /\ toCancel' = {task \in Tasks : ~Ended(task)}
         ELSE main' = "gathering" /\ UNCHANGED toCancel
    /\ UNCHANGED <<shutdownVars, process, signals, awaiting, taskVars>>

CancelPending(task) ==
    /\ Up
    /\ main = "cancelling"
    /\ awaiting = "none"
    /\ task \in toCancel
    /\ toCancel' = toCancel \ {task}
    /\ awaiting' = task
    /\ UNCHANGED <<shutdownVars, process, signals, main, taskVars>>

\* Mutant: cancels the task and does not await it.
AwaitNothing ==
    /\ Up
    /\ awaiting # "none"
    /\ awaiting' = "none"
    /\ UNCHANGED <<shutdownVars, process, signals, main, toCancel, taskVars>>

AwaitReturns ==
    /\ Up
    /\ awaiting # "none"
    /\ Ended(awaiting)
    /\ awaiting' = "none"
    /\ UNCHANGED <<shutdownVars, process, signals, main, toCancel, taskVars>>

FinalShutdown ==
    /\ Up
    /\ main = "cancelling"
    /\ awaiting = "none"
    /\ toCancel = {}
    /\ main' = "final_shutdown"
    /\ EnterShutdown(MainRun)
    /\ UNCHANGED <<installed, onTerm, onQuit, cleaned, bare, process, signals,
                   toCancel, awaiting, taskVars>>

\* Mutant: exits without awaiting the final shutdown().
ExitAtOnce ==
    /\ Up
    /\ main = "final_shutdown"
    /\ process' = "exited"
    /\ UNCHANGED <<shutdownVars, signals, mainVars, taskVars>>

Exit ==
    /\ Up
    /\ main = "final_shutdown"
    /\ phase[MainRun] = "done"
    /\ process' = "exited"
    /\ UNCHANGED <<shutdownVars, signals, mainVars, taskVars>>

GatherReturns ==
    /\ Up
    /\ main = "gathering"
    /\ \A task \in Tasks : Ended(task)
    /\ process' = "returned"
    /\ UNCHANGED <<shutdownVars, signals, mainVars, taskVars>>

-----------------------------------------------------------------------------
(* Signals                                                                  *)

\* signal_handler of _setup_signal_handlers: every signal starts a shutdown().
ServerSignal(r) == SetPhase(r, "created") /\ UNCHANGED <<shuttingDown, bare>>

ReceiveTerm ==
    /\ Up
    /\ signals < MaxSignals
    /\ signals' = signals + 1
    /\ CASE onTerm = "default" ->
              /\ process' = "killed"
              /\ UNCHANGED <<shuttingDown, phase, bare, captured>>
         [] onTerm = "graceful" ->
              HandleSignal(signals') /\ UNCHANGED <<process, captured>>
         [] onTerm = "server" ->
              ServerSignal(signals') /\ UNCHANGED <<process, captured>>
         [] onTerm = "uvicorn" ->
              /\ captured' = signals'
              /\ UNCHANGED <<shuttingDown, phase, bare, process>>
    /\ UNCHANGED <<installed, onTerm, onQuit, cleaned, mainVars, api, lifespan,
                   hooksRan, scheduler, sched, swallowed, waiter>>

ReceiveQuit ==
    /\ Up
    /\ signals < MaxSignals
    /\ signals' = signals + 1
    /\ IF onQuit = "default"
         THEN process' = "killed" /\ UNCHANGED <<shuttingDown, phase, bare>>
         ELSE HandleSignal(signals') /\ UNCHANGED process
    /\ UNCHANGED <<installed, onTerm, onQuit, cleaned, mainVars, taskVars>>

-----------------------------------------------------------------------------
(* The server task                                                          *)

ServeBegins ==
    /\ Up
    /\ api = "created"
    /\ ~Cancelled("api")
    /\ api' = "starting"
    /\ onTerm' = "uvicorn"
    /\ lifespan' = "startup_hooks"
    /\ UNCHANGED <<shuttingDown, installed, onQuit, phase, cleaned, bare, process,
                   signals, mainVars, captured, hooksRan, scheduler, sched,
                   swallowed, waiter>>

ServeStarted ==
    /\ Up
    /\ api = "starting"
    /\ ~Cancelled("api")
    /\ lifespan = "running"
    /\ captured = 0
    /\ api' = "serving"
    /\ UNCHANGED <<shutdownVars, process, signals, mainVars, captured, lifespan,
                   hooksRan, scheduler, sched, swallowed, waiter>>

\* The server stops of its own accord, a request limit for instance, and asks
\* the lifespan to shut down.
ServeStops ==
    /\ Up
    /\ api = "serving"
    /\ ~Cancelled("api")
    /\ api' = "stopping"
    /\ lifespan' = "shutdown_hooks"
    /\ UNCHANGED <<shutdownVars, process, signals, mainVars, captured, hooksRan,
                   scheduler, sched, swallowed, waiter>>

\* The server ends: startup failed, a signal came during startup, the lifespan
\* has shut down, or start() cancelled it.  SIGTERM gets back the handler that
\* start() installed, and a captured signal is raised again under it.
ServeEnds ==
    /\ Up
    /\ \/ api = "starting" /\ lifespan = "failed"
       \/ api = "starting" /\ lifespan = "running" /\ captured # 0
       \/ api = "stopping" /\ lifespan = "ended"
       \/ api \in {"starting", "serving", "stopping"} /\ Cancelled("api")
    /\ api' = "ended"
    /\ onTerm' = "graceful"
    /\ IF captured # 0 THEN HandleSignal(captured)
                       ELSE UNCHANGED <<shuttingDown, phase, bare>>
    /\ captured' = 0
    /\ UNCHANGED <<installed, onQuit, cleaned, process, signals, mainVars, lifespan,
                   hooksRan, scheduler, sched, swallowed, waiter>>

\* A task that is cancelled before its first step never runs.
ServeNeverBegins ==
    /\ Up
    /\ api = "created"
    /\ Cancelled("api")
    /\ api' = "ended"
    /\ UNCHANGED <<shutdownVars, process, signals, mainVars, captured, lifespan,
                   hooksRan, scheduler, sched, swallowed, waiter>>

-----------------------------------------------------------------------------
(* The lifespan handler                                                     *)

LifespanGoes(from, to) ==
    /\ Up
    /\ lifespan = from
    /\ lifespan' = to
    /\ UNCHANGED <<process, signals, mainVars, api, captured, scheduler, sched,
                   swallowed, waiter>>

\* on_startup: after the hooks the server takes SIGTERM for itself.
StartupHooks ==
    /\ LifespanGoes("startup_hooks", "startup_callbacks")
    /\ onTerm' = "server"
    /\ UNCHANGED <<shuttingDown, installed, onQuit, phase, cleaned, bare, hooksRan>>

StartupCallbacks ==
    /\ LifespanGoes("startup_callbacks", "running")
    /\ UNCHANGED <<shutdownVars, hooksRan>>

\* A hook or a callback raises before the handler yields.
StartupFails ==
    /\ \/ LifespanGoes("startup_hooks", "failed")
       \/ LifespanGoes("startup_callbacks", "failed")
    /\ UNCHANGED <<shutdownVars, hooksRan>>

\* on_shutdown: the hooks, then shutdown() up to its first await.
ShutdownHooks ==
    /\ LifespanGoes("shutdown_hooks", "shutdown")
    /\ hooksRan' = TRUE
    /\ EnterShutdown(LifespanRun)
    /\ UNCHANGED <<installed, onTerm, onQuit, cleaned, bare>>

ShutdownHookFails ==
    /\ LifespanGoes("shutdown_hooks", "ended")
    /\ UNCHANGED <<shutdownVars, hooksRan>>

\* The shutdown callbacks of the application.
ShutdownCallbacks ==
    /\ LifespanGoes("shutdown", "ended")
    /\ phase[LifespanRun] = "done"
    /\ UNCHANGED <<shutdownVars, hooksRan>>

LifespanStep ==
    \/ StartupHooks \/ StartupCallbacks \/ StartupFails
    \/ ShutdownHooks \/ ShutdownHookFails \/ ShutdownCallbacks

-----------------------------------------------------------------------------
(* The scheduler task and the waiter                                        *)

SchedGoes(to) ==
    /\ Up
    /\ sched' = to
    /\ UNCHANGED <<shutdownVars, process, signals, mainVars, api, captured, lifespan,
                   hooksRan, scheduler, waiter>>

JobBegins ==
    sched = "idle" /\ ~Cancelled("sched") /\ SchedGoes("job") /\ UNCHANGED swallowed

JobEnds ==
    sched = "job" /\ ~Cancelled("sched") /\ SchedGoes("idle") /\ UNCHANGED swallowed

\* _wrap_task catches BaseException: a job ends at the cancellation, the loop of
\* triggers around it goes on, and nobody cancels it again.
JobSwallowsCancel ==
    /\ sched = "job"
    /\ Cancelled("sched")
    /\ SchedGoes("idle")
    /\ swallowed' = TRUE

\* Waiting for a trigger, the task ends when cancelled.
SchedCancelled ==
    /\ sched = "idle"
    /\ Cancelled("sched")
    /\ SchedGoes("ended")
    /\ UNCHANGED swallowed

\* The triggers of a finite group are used up.
SchedEnds ==
    /\ sched = "idle"
    /\ scheduler = "finite"
    /\ SchedGoes("ended")
    /\ UNCHANGED swallowed

SchedStep == JobBegins \/ JobEnds \/ JobSwallowsCancel \/ SchedCancelled \/ SchedEnds

WaiterEnds ==
    /\ Up
    /\ waiter = "waiting"
    /\ shuttingDown \/ Cancelled("waiter")
    /\ waiter' = "ended"
    /\ UNCHANGED <<shutdownVars, process, signals, mainVars, api, captured, lifespan,
                   hooksRan, scheduler, sched, swallowed>>

-----------------------------------------------------------------------------

MainStep ==
    \/ StartService \/ WaitReturns \/ (\E task \in Tasks : CancelPending(task))
    \/ AwaitReturns \/ FinalShutdown \/ Exit \/ GatherReturns

ServeStep == ServeBegins \/ ServeStarted \/ ServeEnds \/ ServeNeverBegins

Run(r) == Up /\ RunStep(r) /\ UNCHANGED <<process, signals, mainVars, taskVars>>

Next ==
    \/ MainStep \/ ServeStep \/ ServeStops \/ LifespanStep \/ SchedStep
    \/ WaiterEnds \/ ReceiveTerm \/ ReceiveQuit
    \/ \E r \in Runs : Run(r)

Spec == Init /\ [][Next]_vars

\* The event loop runs every task that is ready, timeouts expire, and hooks,
\* callbacks and jobs of the application return.  Nothing obliges a signal to
\* arrive or the server to stop of its own accord.
Fairness ==
    /\ WF_vars(MainStep)
    /\ WF_vars(ServeStep)
    /\ WF_vars(LifespanStep)
    /\ WF_vars(WaiterEnds)
    /\ WF_vars(SchedStep)
    /\ SF_vars(SchedEnds)
    /\ \A r \in Runs : WF_vars(Run(r))

FairSpec == Spec /\ Fairness

-----------------------------------------------------------------------------

TypeOK ==
    /\ ShutdownTypeOK
    /\ process \in {"up", "exited", "returned", "killed"}
    /\ signals \in 0 .. MaxSignals
    /\ main \in {"initialized", "waiting", "cancelling", "final_shutdown", "gathering"}
    /\ toCancel \in SUBSET Tasks
    /\ awaiting \in Tasks \cup {"none"}
    /\ api \in {"none", "created", "starting", "serving", "stopping", "ended"}
    /\ captured \in 0 .. MaxSignals
    /\ lifespan \in {"none", "startup_hooks", "startup_callbacks", "running",
                     "failed", "shutdown_hooks", "shutdown", "ended"}
    /\ hooksRan \in BOOLEAN
    /\ scheduler \in Schedulers
    /\ sched \in {"none", "idle", "job", "ended"}
    /\ swallowed \in BOOLEAN
    /\ waiter \in {"none", "waiting", "ended"}

\* The process is not ended by os._exit, nor killed by a signal for want of a
\* handler, before one run of the callbacks is over: every cleanup function has
\* run or the timeout has passed (server.py:276-294, signal_handler.py:195).
TerminationAfterCleanup ==
    process \in {"exited", "killed"} /\ main # "initialized" =>
        \E r \in Runs : CallbacksOver(r)

\* When start() calls os._exit, every task that it created has ended: serve(),
\* the scheduler with the job it was in, and the waiter (server.py:279-284).
\* What uvicorn runs beside serve(), requests and the lifespan, may still be at
\* work then.
TasksEndedAtExit == process = "exited" => \A task \in Tasks : Ended(task)

\* A signal ends the process, whatever the server, its lifespan and the
\* scheduler are doing at the time, unless start() has already given up waiting
\* for the event (server.py:296) or a scheduled job swallowed the cancellation
\* that start() awaits (server.py:279-284, scheduler.py:21-24).
SignalEndsProcess ==
    signals > 0 ~> process # "up" \/ main = "gathering" \/ swallowed

\* The documented sequence begins with the signal and ends with the exit
\* (docs/server.html:240-246).
SignalAlwaysEndsProcess == signals > 0 ~> process # "up"
=============================================================================
