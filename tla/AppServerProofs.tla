-------------------------- MODULE AppServerProofs ---------------------------
(***************************************************************************)
(* Proofs about AppServer and GracefulShutdown for any number of signals,  *)
(* any number of cleanup functions and any kind of scheduler group.        *)
(*                                                                         *)
(* TerminationAfterCleanup needs that a handler is the default one only    *)
(* after a run of shutdown() has restored it (DefaultOnlyAfterCleanup) and *)
(* that no run is started a second time, which would undo its phase        *)
(* (RunsFresh).  TasksEndedAtExit needs that every task that has not       *)
(* ended is still to be cancelled or awaited (PendingCovered).             *)
(***************************************************************************)
EXTENDS AppServer, FiniteSetTheorems, TLAPS

SomeRunOver == \E r \in Runs : CallbacksOver(r)

AtMostOneBare ==
    /\ \A r, s \in bare : r = s
    /\ bare # {} => shuttingDown

CleanupsLeft == \A r \in Runs : cleaned[r] < CleanupCount

\* What is still to come has not been started: the runs of later signals, of
\* the signal uvicorn holds back, of start() and of the lifespan.
RunsFresh ==
    /\ \A r \in SignalRuns : r > signals => phase[r] = "none"
    /\ captured <= signals
    /\ captured # 0 => phase[captured] = "none"
    /\ main # "final_shutdown" => phase[MainRun] = "none"
    /\ lifespan \notin {"shutdown", "ended"} => phase[LifespanRun] = "none"

\* The lifespan begins with the server and is asked to shut down only once.
LifespanFollowsServer ==
    /\ main = "initialized" => api = "none"
    /\ api \in {"none", "created"} => lifespan = "none"
    /\ api = "serving" => lifespan = "running"

DefaultOnlyAfterCleanup ==
    main # "initialized" /\ (onTerm = "default" \/ onQuit = "default") => SomeRunOver

\* While start() cancels the pending tasks, one that has not ended is still to
\* be cancelled, or awaited; afterwards there is none.
PendingCovered ==
    /\ main = "cancelling" =>
         \A task \in Tasks : Ended(task) \/ task \in toCancel \/ task = awaiting
    /\ main = "final_shutdown" => \A task \in Tasks : Ended(task)
    /\ process = "exited" => main = "final_shutdown"

RunInv ==
    /\ AtMostOneBare /\ CleanupsLeft /\ RunsFresh /\ LifespanFollowsServer
    /\ DefaultOnlyAfterCleanup /\ TerminationAfterCleanup

IInv == TypeOK /\ RunInv /\ PendingCovered
-----------------------------------------------------------------------------

\* The runs are different from each other.
LEMMA RunsDiffer ==
    /\ SignalRuns \subseteq Runs /\ MainRun \in Runs /\ LifespanRun \in Runs
    /\ MainRun # LifespanRun /\ MainRun \notin SignalRuns /\ LifespanRun \notin SignalRuns
    /\ \A n \in 1 .. MaxSignals : n \in SignalRuns
BY ShutdownAssumption DEF SignalRuns, Runs, MainRun, LifespanRun

\* Started once, a run that is over stays over.
LEMMA OverStays ==
    ASSUME ShutdownTypeOK, NEW r \in Runs, NEW p,
           phase[r] \in {"tasks", "done"} => p \in {"tasks", "done"},
           phase' = [phase EXCEPT ![r] = p], SomeRunOver
    PROVE  SomeRunOver'
BY DEF ShutdownTypeOK, SomeRunOver, CallbacksOver

\* A step that leaves the handlers and the runs alone.
LEMMA ShutdownTypeKept ==
    ASSUME ShutdownTypeOK, UNCHANGED shutdownVars
    PROVE  ShutdownTypeOK'
BY DEF ShutdownTypeOK, shutdownVars

\* A signal for which no run has been started yet.
LEMMA HandleSignalKeeps ==
    ASSUME ShutdownTypeOK, AtMostOneBare, NEW r \in Runs, phase[r] = "none",
           HandleSignal(r)
    PROVE  /\ shuttingDown' \in BOOLEAN
           /\ phase' \in [Runs -> {"none", "created", "cleaning", "tasks", "done"}]
           /\ bare' \in SUBSET Runs
           /\ AtMostOneBare'
           /\ \A q \in Runs \ {r} : phase'[q] = phase[q]
           /\ SomeRunOver => SomeRunOver'
<1> USE DEF ShutdownTypeOK
<1>1. CASE shuttingDown
  BY <1>1 DEF HandleSignal, AtMostOneBare, SomeRunOver, CallbacksOver
<1>2. CASE ~shuttingDown
  <2>1. /\ shuttingDown' = TRUE /\ bare' = {r}
        /\ phase' = [phase EXCEPT ![r] = "created"]
    BY <1>2 DEF HandleSignal, AtMostOneBare, SetPhase
  <2>2. SomeRunOver => SomeRunOver'
    BY <2>1, OverStays
  <2>3. AtMostOneBare'
    BY <2>1 DEF AtMostOneBare
  <2> QED
    BY <2>1, <2>2, <2>3
<1> QED
  BY <1>1, <1>2

\* A step that leaves the runs, the signals, the server and its lifespan alone.
LEMMA RunsUndisturbed ==
    ASSUME IInv, UNCHANGED <<shutdownVars, signals, captured, lifespan, api>>,
           process' \in {process, "returned"},
           main' = main \/ {main, main'} \subseteq {"waiting", "cancelling", "gathering"}
    PROVE  RunInv'
<1>1. SomeRunOver' <=> SomeRunOver
  BY DEF shutdownVars, SomeRunOver, CallbacksOver
<1>2. (AtMostOneBare /\ CleanupsLeft /\ RunsFresh /\ LifespanFollowsServer)'
  BY DEF IInv, RunInv, shutdownVars, AtMostOneBare, CleanupsLeft, RunsFresh,
         LifespanFollowsServer
<1>3. main' = "initialized" <=> main = "initialized"
  OBVIOUS
<1>4. DefaultOnlyAfterCleanup'
  BY <1>1, <1>3 DEF IInv, RunInv, shutdownVars, DefaultOnlyAfterCleanup
<1>5. TerminationAfterCleanup'
  BY <1>1, <1>3 DEF IInv, RunInv, TerminationAfterCleanup, SomeRunOver
<1> QED
  BY <1>2, <1>4, <1>5 DEF RunInv

\* A step that leaves start() alone, and the tasks that have ended.
LEMMA TasksUndisturbed ==
    ASSUME IInv, Up, process' # "exited", UNCHANGED <<main, toCancel, awaiting, scheduler>>,
           api = "ended" => api' = "ended",
           sched = "ended" => sched' = "ended",
           waiter = "ended" => waiter' = "ended"
    PROVE  PendingCovered'
<1>1. Tasks' = Tasks
  BY DEF Tasks
<1>2. \A task \in Tasks : Ended(task) => Ended(task)'
  BY DEF Tasks, Ended
<1> QED
  BY <1>1, <1>2 DEF IInv, PendingCovered, Up

-----------------------------------------------------------------------------

LEMMA InitIInv == Init => IInv
<1> SUFFICES ASSUME Init PROVE IInv
  OBVIOUS
<1> USE ShutdownAssumption, RunsDiffer DEF Init, ShutdownInit
<1>1. TypeOK
  <2>1. 0 \in 0 .. CleanupCount
    OBVIOUS
  <2>2. ShutdownTypeOK
    BY ONLY <2>1, Init DEF Init, ShutdownInit, ShutdownTypeOK
  <2>3. signals \in 0 .. MaxSignals /\ captured \in 0 .. MaxSignals
    OBVIOUS
  <2> QED
    BY <2>2, <2>3 DEF TypeOK
<1>2. AtMostOneBare /\ CleanupsLeft /\ LifespanFollowsServer
  BY DEF AtMostOneBare, CleanupsLeft, LifespanFollowsServer
<1>3. RunsFresh
  BY DEF RunsFresh
<1>4. DefaultOnlyAfterCleanup /\ TerminationAfterCleanup
  BY DEF DefaultOnlyAfterCleanup, TerminationAfterCleanup
<1>5. PendingCovered
  BY DEF PendingCovered
<1> QED
  BY <1>1, <1>2, <1>3, <1>4, <1>5 DEF IInv, RunInv
-----------------------------------------------------------------------------
(* start()                                                                  *)

LEMMA StartServiceKeeps ==
    ASSUME IInv, StartService
    PROVE  IInv'
<1> USE DEF IInv, StartService, InstallSignalHandlers
<1>1. TypeOK'
  BY DEF TypeOK, ShutdownTypeOK, Tasks
<1>2. (AtMostOneBare /\ CleanupsLeft /\ RunsFresh)'
  BY DEF RunInv, AtMostOneBare, CleanupsLeft, RunsFresh
<1>3. LifespanFollowsServer'
  BY DEF RunInv, LifespanFollowsServer
<1>4. DefaultOnlyAfterCleanup' /\ TerminationAfterCleanup'
  BY DEF DefaultOnlyAfterCleanup, TerminationAfterCleanup, Up
<1>5. PendingCovered'
  BY DEF PendingCovered, Up
<1> QED
  BY <1>1, <1>2, <1>3, <1>4, <1>5 DEF RunInv

LEMMA CancellingKeeps ==
    ASSUME IInv, WaitReturns \/ AwaitReturns \/ \E task \in Tasks : CancelPending(task)
    PROVE  IInv'
<1> USE DEF IInv, WaitReturns, AwaitReturns, CancelPending
<1>1. /\ UNCHANGED <<shutdownVars, process, signals, taskVars>>
      /\ main' = main \/ main' \in {"cancelling", "gathering"}
      /\ toCancel' = toCancel \/ toCancel' \subseteq Tasks
      /\ awaiting' \in Tasks \cup {"none"}
  BY DEF TypeOK
<1>2. RunInv'
  BY RunsUndisturbed DEF taskVars
<1>3. \A task \in Tasks : Ended(task)' = Ended(task)
  BY DEF Ended, taskVars
<1>4. Tasks' = Tasks
  BY DEF Tasks, taskVars
<1>5. TypeOK'
  BY <1>1, <1>4, ShutdownTypeKept DEF TypeOK, taskVars
<1>6. PendingCovered'
  <2>1. CASE WaitReturns
    BY <1>3, <1>4, <2>1 DEF PendingCovered, Up
  <2>2. CASE AwaitReturns
    BY <1>3, <1>4, <2>2 DEF PendingCovered, Up
  <2>3. CASE \E task \in Tasks : CancelPending(task)
    <3>1. PICK pending \in Tasks : CancelPending(pending)
      BY <2>3
    <3>2. /\ main' = "cancelling" /\ main = "cancelling" /\ awaiting = "none"
          /\ toCancel' = toCancel \ {pending} /\ awaiting' = pending
          /\ process' = "up"
      BY <3>1 DEF Up
    <3>3. \A task \in Tasks : Ended(task) \/ task \in toCancel
      BY <3>2 DEF PendingCovered, Tasks
    <3> QED
      BY <1>3, <1>4, <3>2, <3>3 DEF PendingCovered
  <2> QED
    BY <2>1, <2>2, <2>3
<1> QED
  BY <1>2, <1>5, <1>6

LEMMA FinalShutdownKeeps ==
    ASSUME IInv, FinalShutdown
    PROVE  IInv'
<1> USE RunsDiffer DEF IInv, FinalShutdown, EnterShutdown, SetPhase, taskVars
<1>1. TypeOK'
  <2>1. ShutdownTypeOK'
    BY DEF TypeOK, ShutdownTypeOK
  <2>2. Tasks' = Tasks
    BY DEF Tasks
  <2> QED
    BY <2>1, <2>2 DEF TypeOK
<1>2. AtMostOneBare' /\ CleanupsLeft' /\ LifespanFollowsServer'
  BY DEF RunInv, AtMostOneBare, CleanupsLeft, LifespanFollowsServer
<1>3. RunsFresh'
  BY DEF RunInv, RunsFresh, TypeOK, ShutdownTypeOK
<1>4. SomeRunOver => SomeRunOver'
  BY OverStays DEF RunInv, RunsFresh, TypeOK
<1>5. DefaultOnlyAfterCleanup'
  BY <1>4 DEF RunInv, DefaultOnlyAfterCleanup
<1>6. TerminationAfterCleanup'
  BY DEF TerminationAfterCleanup, Up
<1>7. PendingCovered'
  <2>1. \A task \in Tasks : Ended(task) /\ task # "none"
    BY DEF PendingCovered, Tasks
  <2>2. Tasks' = Tasks /\ \A task \in Tasks : Ended(task)' = Ended(task)
    BY DEF Tasks, Ended
  <2> QED
    BY <2>1, <2>2 DEF PendingCovered, Up
<1> QED
  BY <1>1, <1>2, <1>3, <1>5, <1>6, <1>7 DEF RunInv

LEMMA ExitKeeps ==
    ASSUME IInv, Exit \/ GatherReturns
    PROVE  IInv'
<1> USE DEF IInv, Exit, GatherReturns, shutdownVars, mainVars, taskVars
<1>1. TypeOK'
  <2>1. ShutdownTypeOK'
    BY ShutdownTypeKept DEF TypeOK
  <2>2. Tasks' = Tasks
    BY DEF Tasks
  <2>3. process' \in {"exited", "returned"}
    OBVIOUS
  <2> QED
    BY <2>1, <2>2, <2>3 DEF TypeOK
<1>2. (AtMostOneBare /\ CleanupsLeft /\ RunsFresh /\ LifespanFollowsServer)'
  BY DEF RunInv, AtMostOneBare, CleanupsLeft, RunsFresh, LifespanFollowsServer
<1>3. SomeRunOver => SomeRunOver'
  BY DEF SomeRunOver, CallbacksOver
<1>4. DefaultOnlyAfterCleanup'
  BY <1>3 DEF RunInv, DefaultOnlyAfterCleanup
<1>5. Exit => SomeRunOver
  BY RunsDiffer DEF SomeRunOver, CallbacksOver
<1>6. TerminationAfterCleanup'
  <2>1. CASE Exit
    BY <1>3, <1>5, <2>1 DEF TerminationAfterCleanup, SomeRunOver
  <2>2. CASE GatherReturns
    BY <2>2 DEF TerminationAfterCleanup
  <2> QED
    BY <2>1, <2>2
<1>7. PendingCovered'
  <2>1. Tasks' = Tasks /\ \A task \in Tasks : Ended(task)' = Ended(task)
    BY DEF Tasks, Ended
  <2> QED
    BY <2>1 DEF PendingCovered
<1> QED
  BY <1>1, <1>2, <1>4, <1>6, <1>7 DEF RunInv

-----------------------------------------------------------------------------
(* Signals                                                                  *)

\* The run of the next signal has not been started.
LEMMA NextSignalIsFresh ==
    ASSUME IInv, signals < MaxSignals
    PROVE  /\ signals + 1 \in SignalRuns /\ signals + 1 \in 1 .. MaxSignals
           /\ phase[signals + 1] = "none"
           /\ captured # signals + 1
BY ShutdownAssumption DEF IInv, TypeOK, RunInv, RunsFresh, SignalRuns

\* What a signal has to keep, however it is handled.
LEMMA SignalKeeps ==
    ASSUME IInv, Up, signals < MaxSignals, signals' = signals + 1,
           process' \in {"up", "killed"}, captured' \in {captured, signals + 1},
           UNCHANGED <<installed, onTerm, onQuit, cleaned, mainVars, api, lifespan,
                       hooksRan, scheduler, sched, swallowed, waiter>>,
           process' = "killed" => /\ UNCHANGED <<shuttingDown, phase, bare, captured>>
                                  /\ onTerm = "default" \/ onQuit = "default",
           shuttingDown' \in BOOLEAN, bare' \in SUBSET Runs,
           phase' \in [Runs -> {"none", "created", "cleaning", "tasks", "done"}],
           AtMostOneBare',
           \A q \in Runs \ {signals + 1} : phase'[q] = phase[q],
           captured' = signals + 1 => phase'[signals + 1] = "none",
           SomeRunOver => SomeRunOver'
    PROVE  IInv'
<1> USE ShutdownAssumption, RunsDiffer, NextSignalIsFresh DEF IInv, mainVars
<1>1. TypeOK'
  BY DEF TypeOK, ShutdownTypeOK, Tasks
<1>2. (CleanupsLeft /\ LifespanFollowsServer)'
  BY DEF RunInv, CleanupsLeft, LifespanFollowsServer
<1>3. RunsFresh'
  <2>1. \A r \in SignalRuns : r > signals' => phase'[r] = "none"
    BY DEF RunInv, RunsFresh, TypeOK, SignalRuns, Runs
  <2>2. captured' <= signals' /\ (captured' # 0 => phase'[captured'] = "none")
    BY DEF RunInv, RunsFresh, TypeOK, SignalRuns, Runs
  <2>3. phase'[MainRun] = phase[MainRun] /\ phase'[LifespanRun] = phase[LifespanRun]
    OBVIOUS
  <2> QED
    BY <2>1, <2>2, <2>3 DEF RunInv, RunsFresh
<1>4. DefaultOnlyAfterCleanup'
  BY DEF RunInv, DefaultOnlyAfterCleanup
<1>5. TerminationAfterCleanup'
  BY DEF RunInv, DefaultOnlyAfterCleanup, TerminationAfterCleanup, SomeRunOver
<1>6. PendingCovered'
  BY TasksUndisturbed
<1> QED
  BY <1>1, <1>2, <1>3, <1>4, <1>5, <1>6 DEF RunInv

LEMMA ReceiveTermKeeps ==
    ASSUME IInv, ReceiveTerm
    PROVE  IInv'
<1>1. /\ Up /\ signals < MaxSignals /\ signals' = signals + 1
      /\ UNCHANGED <<installed, onTerm, onQuit, cleaned, mainVars, api, lifespan,
                     hooksRan, scheduler, sched, swallowed, waiter>>
  BY DEF ReceiveTerm
<1>2. TypeOK /\ ShutdownTypeOK /\ AtMostOneBare
  BY DEF IInv, TypeOK, RunInv
<1>3. signals + 1 \in Runs /\ phase[signals + 1] = "none"
  BY <1>1, NextSignalIsFresh, RunsDiffer
<1>4. CASE UNCHANGED <<shuttingDown, phase, bare>>
  <2>1. shuttingDown' \in BOOLEAN /\ bare' \in SUBSET Runs
        /\ phase' \in [Runs -> {"none", "created", "cleaning", "tasks", "done"}]
        /\ AtMostOneBare' /\ (SomeRunOver => SomeRunOver')
        /\ \A q \in Runs \ {signals + 1} : phase'[q] = phase[q]
    BY <1>2, <1>4 DEF ShutdownTypeOK, AtMostOneBare, SomeRunOver, CallbacksOver
  <2>2. CASE onTerm = "default" /\ process' = "killed" /\ captured' = captured
    BY <1>1, <1>4, <2>1, <2>2, SignalKeeps, NextSignalIsFresh
  <2>3. CASE onTerm # "default" /\ process' = process /\ captured' \in {captured, signals + 1}
    BY <1>1, <1>3, <1>4, <2>1, <2>3, SignalKeeps DEF Up
  <2> QED
    BY <1>1, <1>2, <2>2, <2>3, <1>4 DEF ReceiveTerm, ShutdownTypeOK
<1>5. CASE HandleSignal(signals + 1) /\ UNCHANGED <<process, captured>>
  BY <1>1, <1>2, <1>3, <1>5, HandleSignalKeeps, NextSignalIsFresh, SignalKeeps DEF Up
<1>6. CASE ServerSignal(signals + 1) /\ UNCHANGED <<process, captured>>
  <2>1. /\ phase' = [phase EXCEPT ![signals + 1] = "created"]
        /\ UNCHANGED <<shuttingDown, bare>>
    BY <1>6 DEF ServerSignal, SetPhase
  <2>2. SomeRunOver => SomeRunOver'
    BY <1>2, <1>3, <2>1, OverStays
  <2>3. shuttingDown' \in BOOLEAN /\ bare' \in SUBSET Runs /\ AtMostOneBare'
        /\ phase' \in [Runs -> {"none", "created", "cleaning", "tasks", "done"}]
        /\ \A q \in Runs \ {signals + 1} : phase'[q] = phase[q]
    BY <1>2, <2>1 DEF ShutdownTypeOK, AtMostOneBare
  <2> QED
    BY <1>1, <1>6, <2>2, <2>3, NextSignalIsFresh, SignalKeeps DEF Up
<1> QED
  BY <1>1, <1>2, <1>4, <1>5, <1>6 DEF ReceiveTerm, ShutdownTypeOK

LEMMA ReceiveQuitKeeps ==
    ASSUME IInv, ReceiveQuit
    PROVE  IInv'
<1>1. /\ Up /\ signals < MaxSignals /\ signals' = signals + 1
      /\ UNCHANGED <<installed, onTerm, onQuit, cleaned, mainVars, api, captured, lifespan,
                     hooksRan, scheduler, sched, swallowed, waiter>>
  BY DEF ReceiveQuit, taskVars
<1>2. ShutdownTypeOK /\ AtMostOneBare
  BY DEF IInv, TypeOK, RunInv
<1>3. signals + 1 \in Runs /\ phase[signals + 1] = "none" /\ captured # signals + 1
  BY <1>1, NextSignalIsFresh, RunsDiffer
<1>4. CASE onQuit = "default" /\ process' = "killed" /\ UNCHANGED <<shuttingDown, phase, bare>>
  <2>1. shuttingDown' \in BOOLEAN /\ bare' \in SUBSET Runs
        /\ phase' \in [Runs -> {"none", "created", "cleaning", "tasks", "done"}]
        /\ AtMostOneBare' /\ (SomeRunOver => SomeRunOver')
        /\ \A q \in Runs \ {signals + 1} : phase'[q] = phase[q]
    BY <1>2, <1>4 DEF ShutdownTypeOK, AtMostOneBare, SomeRunOver, CallbacksOver
  <2> QED
    BY <1>1, <1>3, <1>4, <2>1, SignalKeeps
<1>5. CASE HandleSignal(signals + 1) /\ UNCHANGED process
  BY <1>1, <1>2, <1>3, <1>5, HandleSignalKeeps, SignalKeeps DEF Up
<1> QED
  BY <1>1, <1>4, <1>5 DEF ReceiveQuit
-----------------------------------------------------------------------------
(* The server, the lifespan, the scheduler and the waiter                   *)

\* A step of a task that leaves the handlers, the runs and start() alone and
\* goes on only with what LifespanFollowsServer allows.
LEMMA TaskStepKeeps ==
    ASSUME IInv, Up,
           UNCHANGED <<shutdownVars, process, signals, mainVars, captured, scheduler>>,
           api' = api \/ (api # "ended" /\ api' \in {"starting", "serving", "stopping", "ended"}),
           sched' = sched \/ (sched # "ended" /\ sched' \in {"idle", "job", "ended"}),
           waiter' = waiter \/ waiter' = "ended",
           lifespan' \in {"none", "startup_hooks", "startup_callbacks", "running",
                          "failed", "shutdown_hooks", "shutdown", "ended"},
           hooksRan' \in BOOLEAN, swallowed' \in BOOLEAN,
           LifespanFollowsServer',
           lifespan' \notin {"shutdown", "ended"} => phase[LifespanRun] = "none"
    PROVE  IInv'
<1> USE DEF IInv, mainVars
<1>1. Tasks' = Tasks
  BY DEF Tasks
<1>2. TypeOK'
  BY <1>1, ShutdownTypeKept DEF TypeOK
<1>3. SomeRunOver' <=> SomeRunOver
  BY DEF shutdownVars, SomeRunOver, CallbacksOver
<1>4. (AtMostOneBare /\ CleanupsLeft /\ RunsFresh)'
  BY DEF RunInv, shutdownVars, AtMostOneBare, CleanupsLeft, RunsFresh
<1>5. DefaultOnlyAfterCleanup'
  BY <1>3 DEF RunInv, shutdownVars, DefaultOnlyAfterCleanup
<1>6. TerminationAfterCleanup'
  BY DEF TerminationAfterCleanup, Up
<1>7. PendingCovered'
  BY TasksUndisturbed DEF Up
<1> QED
  BY <1>2, <1>4, <1>5, <1>6, <1>7 DEF RunInv

LEMMA ServeKeeps ==
    ASSUME IInv, ServeStarted \/ ServeStops \/ ServeNeverBegins
    PROVE  IInv'
<1>1. LifespanFollowsServer /\ RunsFresh /\ TypeOK
  BY DEF IInv, RunInv
<1>2. CASE ServeStarted \/ ServeNeverBegins
  BY <1>1, <1>2, TaskStepKeeps
     DEF ServeStarted, ServeNeverBegins, mainVars, LifespanFollowsServer, RunsFresh, TypeOK
<1>3. CASE ServeStops
  BY <1>1, <1>3, TaskStepKeeps
     DEF ServeStops, mainVars, LifespanFollowsServer, RunsFresh, TypeOK
<1> QED
  BY <1>2, <1>3

\* SIGTERM passes from one handler to another that is not the default.
LEMMA HandlerTakenKeeps ==
    ASSUME IInv, Up, onTerm' \in {"graceful", "uvicorn", "server"},
           UNCHANGED <<shuttingDown, installed, onQuit, phase, cleaned, bare, process,
                       signals, mainVars, captured, hooksRan, scheduler, sched,
                       swallowed, waiter>>,
           api' = api \/ (api # "ended" /\ api' \in {"starting", "ended"}),
           lifespan' \in {"none", "startup_hooks", "startup_callbacks", "running",
                          "failed", "shutdown_hooks", "shutdown", "ended"},
           LifespanFollowsServer',
           lifespan' \notin {"shutdown", "ended"} => phase[LifespanRun] = "none"
    PROVE  IInv'
<1> USE DEF IInv, mainVars
<1>1. Tasks' = Tasks
  BY DEF Tasks
<1>2. ShutdownTypeOK'
  BY DEF TypeOK, ShutdownTypeOK
<1>3. TypeOK'
  BY <1>1, <1>2 DEF TypeOK
<1>4. SomeRunOver' <=> SomeRunOver
  BY DEF SomeRunOver, CallbacksOver
<1>5. (AtMostOneBare /\ CleanupsLeft /\ RunsFresh)'
  BY DEF RunInv, AtMostOneBare, CleanupsLeft, RunsFresh
<1>6. DefaultOnlyAfterCleanup'
  BY <1>4 DEF RunInv, DefaultOnlyAfterCleanup
<1>7. TerminationAfterCleanup'
  BY DEF TerminationAfterCleanup, Up
<1>8. PendingCovered'
  BY TasksUndisturbed DEF Up
<1> QED
  BY <1>3, <1>5, <1>6, <1>7, <1>8 DEF RunInv

LEMMA ServeBeginsKeeps ==
    ASSUME IInv, ServeBegins
    PROVE  IInv'
<1>1. LifespanFollowsServer /\ RunsFresh
  BY DEF IInv, RunInv
<1>2. LifespanFollowsServer'
  BY <1>1 DEF ServeBegins, mainVars, LifespanFollowsServer
<1>3. phase[LifespanRun] = "none"
  BY <1>1 DEF ServeBegins, LifespanFollowsServer, RunsFresh
<1> QED
  BY <1>2, <1>3, HandlerTakenKeeps DEF ServeBegins

\* The captured signal is raised again, and starts its run now if no other has.
LEMMA ServeEndsKeeps ==
    ASSUME IInv, ServeEnds
    PROVE  IInv'
<1> USE RunsDiffer, ShutdownAssumption DEF IInv
<1>1. /\ Up /\ api \in {"starting", "serving", "stopping"} /\ api' = "ended"
      /\ onTerm' = "graceful" /\ captured' = 0
      /\ UNCHANGED <<installed, onQuit, cleaned, process, signals, mainVars, lifespan,
                     hooksRan, scheduler, sched, swallowed, waiter>>
  BY DEF ServeEnds
<1>2. /\ shuttingDown' \in BOOLEAN /\ bare' \in SUBSET Runs /\ AtMostOneBare'
      /\ phase' \in [Runs -> {"none", "created", "cleaning", "tasks", "done"}]
      /\ \A q \in Runs \ {captured} : phase'[q] = phase[q]
      /\ captured = 0 => phase' = phase
      /\ SomeRunOver => SomeRunOver'
  <2>1. CASE captured = 0
    BY <2>1 DEF ServeEnds, RunInv, TypeOK, ShutdownTypeOK, AtMostOneBare, SomeRunOver,
                CallbacksOver
  <2>2. CASE captured # 0
    <3>1. captured \in Runs /\ phase[captured] = "none"
      BY <2>2 DEF RunInv, RunsFresh, TypeOK
    <3>2. HandleSignal(captured)
      BY <2>2 DEF ServeEnds
    <3> QED
      BY <2>2, <3>1, <3>2, HandleSignalKeeps DEF TypeOK, RunInv
  <2> QED
    BY <2>1, <2>2
<1>3. Tasks' = Tasks
  BY <1>1 DEF Tasks
<1>4. TypeOK'
  <2>1. ShutdownTypeOK'
    BY <1>1, <1>2 DEF TypeOK, ShutdownTypeOK
  <2> QED
    BY <1>1, <1>3, <2>1 DEF TypeOK, mainVars
<1>5. (CleanupsLeft /\ LifespanFollowsServer)'
  BY <1>1 DEF RunInv, CleanupsLeft, LifespanFollowsServer, mainVars
<1>6. RunsFresh'
  <2>1. captured \in 0 .. signals /\ signals \in Nat
    BY DEF RunInv, RunsFresh, TypeOK
  <2>2. \A r \in SignalRuns : r > signals => phase'[r] = "none"
    BY <1>2, <2>1 DEF RunInv, RunsFresh, TypeOK, SignalRuns
  <2>3. phase'[MainRun] = phase[MainRun] /\ phase'[LifespanRun] = phase[LifespanRun]
    BY <1>2 DEF TypeOK, SignalRuns
  <2> QED
    BY <1>1, <2>1, <2>2, <2>3 DEF RunInv, RunsFresh, mainVars
<1>7. DefaultOnlyAfterCleanup'
  BY <1>1, <1>2 DEF RunInv, DefaultOnlyAfterCleanup, mainVars
<1>8. TerminationAfterCleanup'
  BY <1>1 DEF TerminationAfterCleanup, Up
<1>9. PendingCovered'
  BY <1>1, TasksUndisturbed DEF mainVars, Up
<1> QED
  BY <1>2, <1>4, <1>5, <1>6, <1>7, <1>8, <1>9 DEF RunInv

LEMMA LifespanKeeps ==
    ASSUME IInv, LifespanStep
    PROVE  IInv'
<1>1. LifespanFollowsServer /\ RunsFresh /\ TypeOK
  BY DEF IInv, RunInv
<1>2. Up /\ UNCHANGED <<process, signals, mainVars, api, captured, scheduler, sched,
                        swallowed, waiter>>
  BY DEF LifespanStep, StartupHooks, StartupCallbacks, StartupFails, ShutdownHooks,
         ShutdownHookFails, ShutdownCallbacks, LifespanGoes
<1>3. LifespanFollowsServer'
  BY <1>1, <1>2
     DEF LifespanStep, StartupHooks, StartupCallbacks, StartupFails, ShutdownHooks,
         ShutdownHookFails, ShutdownCallbacks, LifespanGoes, LifespanFollowsServer, mainVars
<1>4. CASE StartupHooks
  BY <1>1, <1>2, <1>3, <1>4, HandlerTakenKeeps DEF StartupHooks, LifespanGoes, RunsFresh
<1>5. CASE StartupCallbacks \/ StartupFails \/ ShutdownHookFails \/ ShutdownCallbacks
  <2>1. /\ UNCHANGED <<shutdownVars, hooksRan>>
        /\ lifespan' \in {"running", "failed", "ended"}
        /\ lifespan' \notin {"shutdown", "ended"} => phase[LifespanRun] = "none"
    BY <1>1, <1>5 DEF StartupCallbacks, StartupFails, ShutdownHookFails,
                      ShutdownCallbacks, LifespanGoes, RunsFresh
  <2> QED
    BY <1>1, <1>2, <1>3, <2>1, TaskStepKeeps DEF TypeOK
<1>6. CASE ShutdownHooks
  <2> USE RunsDiffer DEF IInv
  <2>1. /\ lifespan = "shutdown_hooks" /\ lifespan' = "shutdown" /\ hooksRan' = TRUE
        /\ shuttingDown' = TRUE /\ phase' = [phase EXCEPT ![LifespanRun] = "cleaning"]
        /\ UNCHANGED <<installed, onTerm, onQuit, cleaned, bare>>
    BY <1>6 DEF ShutdownHooks, LifespanGoes, EnterShutdown, SetPhase
  <2>2. phase[LifespanRun] = "none"
    BY <1>1, <2>1 DEF RunsFresh
  <2>3. SomeRunOver => SomeRunOver'
    BY <1>1, <2>1, <2>2, OverStays DEF TypeOK
  <2>4. ShutdownTypeOK'
    BY <2>1 DEF TypeOK, ShutdownTypeOK
  <2>5. Tasks' = Tasks
    BY <1>2 DEF Tasks
  <2>6. TypeOK'
    BY <1>2, <2>1, <2>4, <2>5 DEF TypeOK, mainVars
  <2>7. (AtMostOneBare /\ CleanupsLeft)'
    BY <2>1 DEF RunInv, AtMostOneBare, CleanupsLeft
  <2>8. RunsFresh'
    BY <1>1, <1>2, <2>1, <2>2 DEF RunsFresh, mainVars, TypeOK, ShutdownTypeOK, LifespanRun
  <2>9. DefaultOnlyAfterCleanup'
    BY <1>2, <2>1, <2>3 DEF RunInv, DefaultOnlyAfterCleanup, mainVars
  <2>10. TerminationAfterCleanup'
    BY <1>2 DEF TerminationAfterCleanup, Up
  <2>11. PendingCovered'
    BY <1>2, TasksUndisturbed DEF mainVars, Up
  <2> QED
    BY <1>3, <2>6, <2>7, <2>8, <2>9, <2>10, <2>11 DEF RunInv
<1> QED
  BY <1>4, <1>5, <1>6 DEF LifespanStep

LEMMA SchedKeeps ==
    ASSUME IInv, SchedStep \/ WaiterEnds
    PROVE  IInv'
<1>1. LifespanFollowsServer /\ RunsFresh /\ TypeOK
  BY DEF IInv, RunInv
<1>2. /\ Up
      /\ UNCHANGED <<shutdownVars, process, signals, mainVars, api, captured, lifespan,
                     hooksRan, scheduler>>
      /\ sched' = sched \/ (sched # "ended" /\ sched' \in {"idle", "job", "ended"})
      /\ waiter' = waiter \/ waiter' = "ended"
      /\ swallowed' \in {swallowed, TRUE}
  BY DEF SchedStep, SchedGoes, JobBegins, JobEnds, JobSwallowsCancel, SchedCancelled,
         SchedEnds, WaiterEnds
<1>3. LifespanFollowsServer'
  BY <1>1, <1>2 DEF LifespanFollowsServer, mainVars
<1> QED
  BY <1>1, <1>2, <1>3, TaskStepKeeps DEF TypeOK, RunsFresh
-----------------------------------------------------------------------------
(* The runs                                                                 *)

\* The callbacks of a run end, or one function of them.
LEMMA CallbacksStep ==
    ASSUME IInv, NEW r \in Runs, FinishCleanup(r) \/ TimeOut(r)
    PROVE  \E p \in {"cleaning", "tasks", "done"} :
               /\ phase[r] = "cleaning" /\ phase' = [phase EXCEPT ![r] = p]
               /\ cleaned' \in [Runs -> 0 .. CleanupCount] /\ CleanupsLeft'
               /\ UNCHANGED <<shuttingDown, installed, onTerm, onQuit, bare>>
<1> USE ShutdownAssumption DEF IInv, RunInv, TypeOK, ShutdownTypeOK, CleanupsLeft
<1>1. CASE EndCallbacks(r)
  <2>1. cleaned' = [cleaned EXCEPT ![r] = 0]
    BY <1>1 DEF EndCallbacks
  <2>2. cleaned' \in [Runs -> 0 .. CleanupCount] /\ CleanupsLeft'
    BY <2>1
  <2> QED
    BY <1>1, <2>2 DEF EndCallbacks, SetPhase, FinishCleanup, TimeOut
<1>2. CASE /\ FinishCleanup(r) /\ cleaned[r] + 1 # CleanupCount
  <2>1. cleaned' = [cleaned EXCEPT ![r] = @ + 1] /\ phase' = phase /\ phase[r] = "cleaning"
    BY <1>2 DEF FinishCleanup
  <2>2. cleaned[r] + 1 \in 0 .. CleanupCount /\ cleaned[r] + 1 < CleanupCount
    BY <1>2
  <2>3. cleaned' \in [Runs -> 0 .. CleanupCount] /\ CleanupsLeft'
    BY <2>1, <2>2
  <2>4. phase' = [phase EXCEPT ![r] = "cleaning"]
    BY <2>1
  <2> QED
    BY <1>2, <2>1, <2>3, <2>4 DEF FinishCleanup
<1> QED
  BY <1>1, <1>2 DEF FinishCleanup, TimeOut

LEMMA RunKeeps ==
    ASSUME IInv, NEW r \in Runs, Run(r)
    PROVE  IInv'
<1> USE RunsDiffer DEF IInv
<1>1. /\ Up /\ RunStep(r) /\ UNCHANGED <<process, signals, mainVars, taskVars>>
  BY DEF Run
<1>2. PICK p \in {"cleaning", "tasks", "done"} :
          /\ phase[r] # "none" /\ phase' = [phase EXCEPT ![r] = p]
          /\ phase[r] \in {"tasks", "done"} => p = "done"
          /\ cleaned' \in [Runs -> 0 .. CleanupCount] /\ CleanupsLeft'
          /\ bare' = bare /\ shuttingDown' \in BOOLEAN /\ (shuttingDown => shuttingDown')
          /\ installed' \in BOOLEAN
          /\ \/ onTerm' = onTerm /\ onQuit' = onQuit
             \/ /\ p = "done"
                /\ onTerm' \in {onTerm, "default"} /\ onQuit' \in {onQuit, "default"}
  <2>1. CASE BeginRun(r)
    BY <2>1 DEF BeginRun, EnterShutdown, SetPhase, TypeOK, ShutdownTypeOK, RunInv, CleanupsLeft
  <2>2. CASE FinishCleanup(r) \/ TimeOut(r)
    BY <2>2, CallbacksStep DEF TypeOK, ShutdownTypeOK
  <2>3. CASE FinishShutdown(r)
    BY <2>3 DEF FinishShutdown, RestoreSignalHandlers, SetPhase, TypeOK, ShutdownTypeOK,
                RunInv, CleanupsLeft
  <2> QED
    BY <1>1, <2>1, <2>2, <2>3 DEF RunStep
<1>3. Tasks' = Tasks
  BY <1>1 DEF Tasks, taskVars
<1>4. TypeOK'
  <2>1. phase' \in [Runs -> {"none", "created", "cleaning", "tasks", "done"}]
    BY <1>2 DEF TypeOK, ShutdownTypeOK
  <2>2. ShutdownTypeOK'
    BY <1>2, <2>1 DEF TypeOK, ShutdownTypeOK
  <2> QED
    BY <1>1, <1>3, <2>2 DEF TypeOK, mainVars, taskVars
<1>5. SomeRunOver => SomeRunOver'
  BY <1>2, OverStays DEF TypeOK
<1>6. AtMostOneBare'
  BY <1>2 DEF RunInv, AtMostOneBare, TypeOK, ShutdownTypeOK
<1>7. LifespanFollowsServer'
  BY <1>1 DEF RunInv, LifespanFollowsServer, mainVars, taskVars
<1>8. RunsFresh'
  <2>1. \A q \in Runs : phase[q] = "none" => phase'[q] = "none"
    BY <1>2 DEF TypeOK, ShutdownTypeOK
  <2>2. captured # 0 => captured \in Runs
    BY DEF TypeOK
  <2> QED
    BY <1>1, <2>1, <2>2 DEF RunInv, RunsFresh, mainVars, taskVars
<1>9. DefaultOnlyAfterCleanup'
  <2>1. CASE onTerm' = onTerm /\ onQuit' = onQuit
    BY <1>1, <1>5, <2>1 DEF RunInv, DefaultOnlyAfterCleanup, mainVars
  <2>2. CASE p = "done"
    <3>1. SomeRunOver'
      BY <1>2, <2>2 DEF SomeRunOver, CallbacksOver, TypeOK, ShutdownTypeOK
    <3> QED
      BY <3>1 DEF DefaultOnlyAfterCleanup
  <2> QED
    BY <1>2, <2>1, <2>2
<1>10. TerminationAfterCleanup'
  BY <1>1 DEF TerminationAfterCleanup, Up
<1>11. PendingCovered'
  BY <1>1, TasksUndisturbed DEF mainVars, taskVars, Up
<1> QED
  BY <1>2, <1>4, <1>6, <1>7, <1>8, <1>9, <1>10, <1>11 DEF RunInv

LEMMA StepIInv == IInv /\ [Next]_vars => IInv'
<1> SUFFICES ASSUME IInv, [Next]_vars PROVE IInv'
  OBVIOUS
<1>1. CASE MainStep
  BY <1>1, StartServiceKeeps, CancellingKeeps, FinalShutdownKeeps, ExitKeeps DEF MainStep
<1>2. CASE ServeStep \/ ServeStops
  BY <1>2, ServeBeginsKeeps, ServeKeeps, ServeEndsKeeps DEF ServeStep
<1>3. CASE LifespanStep
  BY <1>3, LifespanKeeps
<1>4. CASE SchedStep \/ WaiterEnds
  BY <1>4, SchedKeeps
<1>5. CASE ReceiveTerm \/ ReceiveQuit
  BY <1>5, ReceiveTermKeeps, ReceiveQuitKeeps
<1>6. CASE \E r \in Runs : Run(r)
  BY <1>6, RunKeeps
<1>7. CASE UNCHANGED vars
  <2> USE DEF IInv, vars, mainVars, taskVars
  <2>1. Tasks' = Tasks /\ \A task \in Tasks : Ended(task)' = Ended(task)
    BY <1>7 DEF Tasks, Ended
  <2>2. TypeOK'
    BY <1>7, <2>1, ShutdownTypeKept DEF TypeOK
  <2>3. RunInv'
    BY <1>7, RunsUndisturbed
  <2>4. PendingCovered'
    BY <1>7, <2>1 DEF PendingCovered
  <2> QED
    BY <2>2, <2>3, <2>4
<1> QED
  BY <1>1, <1>2, <1>3, <1>4, <1>5, <1>6, <1>7 DEF Next

\* The inductive invariant holds in every reachable state.
THEOREM Invariant == Spec => []IInv
<1>1. Init => IInv
  BY InitIInv
<1>2. IInv /\ [Next]_vars => IInv'
  BY StepIInv
<1> QED
  BY <1>1, <1>2, PTL DEF Spec

-----------------------------------------------------------------------------
(* Results                                                                  *)

\* Every state has the declared types; in particular no cleanup loop runs past
\* the last function.
THEOREM TypeCorrect == Spec => []TypeOK
<1>1. IInv => TypeOK
  BY DEF IInv
<1> QED
  BY <1>1, Invariant, PTL

\* For any number of signals, SignalHandler starts the callbacks at most once.
THEOREM CallbacksStartedOnce == Spec => []DuplicatesIgnored
<1>1. IInv => DuplicatesIgnored
  <2> SUFFICES ASSUME IInv PROVE Cardinality(bare) <= 1
    BY DEF DuplicatesIgnored
  <2>1. CASE bare = {}
    BY <2>1, FS_EmptySet
  <2>2. CASE bare # {}
    <3>1. PICK r : bare = {r}
      BY <2>2 DEF IInv, RunInv, AtMostOneBare
    <3> QED
      <4>1. Cardinality(bare) = 1
        BY <3>1, FS_Singleton
      <4> QED
        BY <4>1
  <2> QED
    BY <2>1, <2>2
<1> QED
  BY <1>1, Invariant, PTL

\* Neither os._exit nor a signal that finds the default handler ends the
\* process before one run of the callbacks is over.
THEOREM CleanupFirst == Spec => []TerminationAfterCleanup
<1>1. IInv => TerminationAfterCleanup
  BY DEF IInv, RunInv
<1> QED
  BY <1>1, Invariant, PTL

\* os._exit cuts off none of the tasks that start() created, whenever the
\* signals come and whatever the server and the scheduler are at.
THEOREM TasksEndFirst == Spec => []TasksEndedAtExit
<1>1. IInv => TasksEndedAtExit
  BY DEF IInv, PendingCovered, TasksEndedAtExit
<1> QED
  BY <1>1, Invariant, PTL
=============================================================================
