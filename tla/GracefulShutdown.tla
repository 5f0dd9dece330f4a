-------------------------- MODULE GracefulShutdown --------------------------
(***************************************************************************)
(* SignalHandler and ServiceGracefulShutdown (utils/signal_handler.py).    *)
(*                                                                         *)
(* Every execution of the shutdown callbacks is a run of its own: those    *)
(* that a signal starts as a task, the one start() awaits and the one the  *)
(* lifespan awaits.  A run calls the registered cleanup functions one      *)
(* after the other and ends with the last of them or with the timeout.     *)
(* Runs are tasks of one event loop and interleave at every await.         *)
(*                                                                         *)
(* SIGTERM stands for SIGINT too, which the code treats alike; SIGQUIT is  *)
(* the signal that only SignalHandler handles.                             *)
(***************************************************************************)
EXTENDS Naturals, FiniteSets

CONSTANTS
    MaxSignals,       \* bound on the signals the process receives
    CleanupCount      \* length of _cleanup_resources

ASSUME ShutdownAssumption == MaxSignals \in Nat /\ CleanupCount \in Nat \ {0}

SignalRuns == 1 .. MaxSignals      \* the run the n-th signal starts, if any
LifespanRun == 0
MainRun == MaxSignals + 1
Runs == SignalRuns \cup {LifespanRun, MainRun}

VARIABLES
    shuttingDown,   \* _shutdown_event and _is_shutting_down, always set together
    installed,      \* _signal_handlers_installed
    onTerm,         \* what SIGTERM does: "default", "graceful", "uvicorn", "server"
    onQuit,         \* what SIGQUIT does: "default", "graceful"
    phase,          \* run -> "none", "created", "cleaning", "tasks", "done"
    cleaned,        \* run -> how many functions its cleanup loop has finished
    bare            \* the runs of callbacks only, outside shutdown()

shutdownVars == <<shuttingDown, installed, onTerm, onQuit, phase, cleaned, bare>>

ShutdownTypeOK ==
    /\ shuttingDown \in BOOLEAN
    /\ installed \in BOOLEAN
    /\ onTerm \in {"default", "graceful", "uvicorn", "server"}
    /\ onQuit \in {"default", "graceful"}
    /\ phase \in [Runs -> {"none", "created", "cleaning", "tasks", "done"}]
    /\ cleaned \in [Runs -> 0 .. CleanupCount]
    /\ bare \in SUBSET Runs

ShutdownInit ==
    /\ shuttingDown = FALSE
    /\ installed = FALSE
    /\ onTerm = "default"
    /\ onQuit = "default"
    /\ phase = [r \in Runs |-> "none"]
    /\ cleaned = [r \in Runs |-> 0]
    /\ bare = {}

SetPhase(r, p) == phase' = [phase EXCEPT ![r] = p]

-----------------------------------------------------------------------------

\* install_signal_handlers, called once per server by initialize.
InstallSignalHandlers ==
    /\ installed' = TRUE
    /\ onTerm' = "graceful"
    /\ onQuit' = "graceful"

\* restore_signal_handlers: only if installed; the originals are the defaults.
RestoreSignalHandlers ==
    /\ installed' = FALSE
    /\ onTerm' = IF installed THEN "default" ELSE onTerm
    /\ onQuit' = IF installed THEN "default" ELSE onQuit

\* Mutant: a duplicate signal starts the callbacks again.
HandleSignalAgain(r) ==
    /\ shuttingDown' = TRUE
    /\ SetPhase(r, "created")
    /\ bare' = bare \cup {r}

\* _handle_signal: the first signal sets the event and creates a task for the
\* callbacks, unless shutdown() has set it before; any other is ignored.
HandleSignal(r) ==
    IF shuttingDown
      THEN UNCHANGED <<shuttingDown, phase, bare>>
      ELSE /\ shuttingDown' = TRUE
           /\ SetPhase(r, "created")
           /\ bare' = bare \cup {r}

\* shutdown() from its first line to its first await, by the task that a
\* signal created, by start() or by the lifespan; likewise the callbacks task.
EnterShutdown(r) ==
    /\ shuttingDown' = TRUE
    /\ SetPhase(r, "cleaning")

BeginRun(r) ==
    /\ phase[r] = "created"
    /\ EnterShutdown(r)
    /\ UNCHANGED <<installed, onTerm, onQuit, cleaned, bare>>

\* The callbacks of a run are over: shutdown() goes on to the shutdown tasks.
EndCallbacks(r) ==
    /\ SetPhase(r, IF r \in bare THEN "done" ELSE "tasks")
    /\ cleaned' = [cleaned EXCEPT ![r] = 0]

\* One function of the loop of _cleanup_resources_callback returns or raises.
FinishCleanup(r) ==
    /\ phase[r] = "cleaning"
    /\ IF cleaned[r] + 1 = CleanupCount
         THEN EndCallbacks(r)
         ELSE cleaned' = [cleaned EXCEPT ![r] = @ + 1] /\ UNCHANGED phase
    /\ UNCHANGED <<shuttingDown, installed, onTerm, onQuit, bare>>

\* wait_for cancels the callbacks of the run.
TimeOut(r) ==
    /\ phase[r] = "cleaning"
    /\ EndCallbacks(r)
    /\ UNCHANGED <<shuttingDown, installed, onTerm, onQuit, bare>>

\* The shutdown tasks have ended or timed out, and shutdown() returns.
FinishShutdown(r) ==
    /\ phase[r] = "tasks"
    /\ SetPhase(r, "done")
    /\ RestoreSignalHandlers
    /\ UNCHANGED <<shuttingDown, cleaned, bare>>

RunStep(r) ==
    BeginRun(r) \/ FinishCleanup(r) \/ TimeOut(r) \/ FinishShutdown(r)

-----------------------------------------------------------------------------

\* The callbacks of run r are over, all cleanup done or timed out.
CallbacksOver(r) == phase[r] \in {"tasks", "done"}

\* However many signals arrive, in whatever order with calls of shutdown(),
\* SignalHandler itself starts the callbacks at most once
\* (signal_handler.py:60-68; tests/test_utils_signal_handler.py:48-49).
DuplicatesIgnored == Cardinality(bare) <= 1
=============================================================================
