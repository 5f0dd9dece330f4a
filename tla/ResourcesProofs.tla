--------------------------- MODULE ResourcesProofs ---------------------------
(***************************************************************************)
(* What ResourceManager promises about engines, sessions and clients, for  *)
(* any number of aliases, loops and executions of close_resources.         *)
(*                                                                         *)
(* An engine belongs to the loop it was created on, wherever it is found:  *)
(* in a cache, in the snapshot of a closer or in its list of work.  One    *)
(* that init_resources created is cached with its loop on record, so that  *)
(* who drops it from the cache can dispose it; a closer clears an alias    *)
(* only when nothing of its work is left, and everything only when all     *)
(* aliases have been cleared, by it or by the one before it.               *)
(***************************************************************************)
EXTENDS Resources, TLAPS

AtHome(dict) ==
    \A a \in Aliases, l \in Loops :
        dict[a][l] # NoEngine =>
            /\ dict[a][l] \in Engines
            /\ home[dict[a][l]] = l

\* Wherever an engine is kept, it is kept under its own loop.
KeptAtHome ==
    /\ AtHome(engines)
    /\ \A c \in Closers : AtHome(old[c])
    /\ \A c \in Closers : \A item \in work[c] : home[item.engine] = item.loop
    /\ \A l \in Loops : session[l] # NoEngine => session[l] \in Engines

\* init_resources sets an alias up before anybody can ask for it, and has
\* ended before anything is closed.
InitFirst ==
    /\ toInit \cap params = {}
    /\ \A a \in Aliases, l \in Loops : Cached(a, l) => a \in params \cap present
    /\ \A c \in Closers : pc[c] # "idle" => init \in {"done", "failed"}
    /\ Running(MainLoop)

\* The cached engine of init_resources, if any.
CachesRegistered(a) == engines[a][MainLoop] \in registered

OnRecord == \A a \in Aliases : CachesRegistered(a) => <<a, MainLoop>> \in loopRefs

AtEngines == {"aliases", "items", "disposing"}

AtOneAlias ==
    \A c \in Closers :
        /\ pc[c] \in {"idle", "aliases"} => alias[c] = NoAlias
        /\ pc[c] \in {"items", "disposing"} => alias[c] \in Aliases \ toClose[c]

\* The aliases that a closer is done with cache no engine of init_resources;
\* that of the alias it is at is disposed, or still to come.
ClosedBehind ==
    \A c \in Closers : shared[c] /\ pc[c] \in AtEngines =>
        \A a \in Aliases \ toClose[c] : CachesRegistered(a) =>
            /\ a = alias[c]
            /\ \/ <<engines[a][MainLoop], MainLoop>> \in disposed
               \/ \E item \in work[c] :
                     item.loop = MainLoop /\ item.engine = engines[a][MainLoop]

\* Who has lost its snapshot to another closer finds nothing of init_resources.
ClearedByAnother ==
    \A c \in Closers : pc[c] # "idle" /\ ~shared[c] =>
        \A a \in Aliases : ~CachesRegistered(a)

EnginesInv ==
    /\ KeptAtHome
    /\ DisposedAtHome
    /\ SessionOnOwnLoop
    /\ InitFirst

AccountInv ==
    /\ OnRecord
    /\ AtOneAlias
    /\ ClosedBehind
    /\ ClearedByAnother
    /\ RegisteredAccountedFor

IInv == TypeOK /\ EnginesInv /\ AccountInv /\ NoneLeftBehind

-----------------------------------------------------------------------------
(* Types                                                                    *)

LEMMA Places ==
    /\ Awaits = {"disposing", "redis", "rabbitmq", "mongodb", "celery"}
    /\ \A i \in 1 .. 3 : AtLabel(i) \in {"at_redis", "at_rabbitmq", "at_mongodb"}
    /\ AtLabel(2) = "at_rabbitmq" /\ AtLabel(3) = "at_mongodb" /\ AtLabel(4) = "at_celery"
    /\ AtLabel(1) = "at_redis"
    /\ Clients[1] = "redis" /\ Clients[2] = "rabbitmq" /\ Clients[3] = "mongodb"
  <1>1. Len(Clients) = 4 /\ Clients[1] = "redis" /\ Clients[2] = "rabbitmq"
        /\ Clients[3] = "mongodb" /\ Clients[4] = "celery"
    BY DEF Clients
  <1>2. 1 .. 4 = {1, 2, 3, 4} /\ 1 .. 3 = {1, 2, 3}
    OBVIOUS
  <1>3. Awaits = {"disposing", "redis", "rabbitmq", "mongodb", "celery"}
    BY <1>1, <1>2 DEF Awaits
  <1>4. /\ AtLabel(1) = "at_redis" /\ AtLabel(2) = "at_rabbitmq"
        /\ AtLabel(3) = "at_mongodb" /\ AtLabel(4) = "at_celery"
    BY DEF AtLabel
  <1>5. QED
    BY <1>1, <1>2, <1>3, <1>4

LEMMA NewEngineType ==
    ASSUME TypeOK, NEW l \in Loops, NewEngine(l)
    PROVE  /\ home' \in Seq(Loops) /\ Len(home') = Len(home) + 1 /\ Len(home') <= MaxEngines
           /\ Len(home) \in Nat
           /\ Len(home') \in 1 .. MaxEngines
           /\ Engines' = Engines \cup {Len(home')} /\ Len(home') \notin Engines
           /\ \A e \in Engines : home'[e] = home[e]
           /\ home'[Len(home')] = l
  <1>1. home \in Seq(Loops) /\ Len(home) \in Nat /\ MaxEngines \in Nat
    BY ResourcesAssumption DEF TypeOK
  <1>2. home' = Append(home, l) /\ Len(home) < MaxEngines
    BY DEF NewEngine
  <1>3. /\ home' \in Seq(Loops) /\ Len(home') = Len(home) + 1
        /\ \A e \in 1 .. Len(home) : home'[e] = home[e]
        /\ home'[Len(home) + 1] = l
    BY <1>1, <1>2
  <1>4. QED
    BY <1>1, <1>2, <1>3 DEF Engines

LEMMA GotoType ==
    ASSUME TypeOK, NEW c \in Closers, NEW l \in Labels, Goto(c, l)
    PROVE  /\ pc' \in [Closers -> Labels]
           /\ pc'[c] = l
           /\ \A d \in Closers \ {c} : pc'[d] = pc[d]
  BY DEF Goto, TypeOK

\* What the actions of init_resources do to the types.
LEMMA InitTypes ==
    ASSUME TypeOK,
           (\E a \in Aliases : InitPgsql(a)) \/ InitRedis \/ InitRabbitmq \/ InitMongodb \/ InitFails
    PROVE  TypeOK'
  <1>1. ASSUME NEW a \in Aliases, InitPgsql(a) PROVE TypeOK'
    <2>1. MainLoop \in Loops
      BY ResourcesAssumption
    <2>2. NewEngine(MainLoop)
      BY <1>1 DEF InitPgsql
    <2> DEFINE e == Len(home')
    <2>3. e \in 1 .. MaxEngines /\ e \in Engines' /\ Engines \subseteq Engines'
      BY <2>1, <2>2, NewEngineType
    <2>4. engines' \in Cache
      <3>1. engines' = [engines EXCEPT ![a][MainLoop] = e]
        BY <1>1 DEF InitPgsql
      <3>2. e \in 0 .. MaxEngines
        BY <2>3, ResourcesAssumption
      <3>3. engines \in Cache
        BY DEF TypeOK
      <3> HIDE DEF e
      <3>4. QED
        BY <3>1, <3>2, <3>3, <2>1 DEF Cache
    <2>5. home' \in Seq(Loops) /\ Len(home') <= MaxEngines
      BY <2>1, <2>2, NewEngineType
    <2>6. registered' \in SUBSET Engines' /\ disposed' \in SUBSET (Engines' \X Loops)
      BY <1>1, <2>3 DEF InitPgsql, InitUnchanged, TypeOK
    <2>7. work' \in [Closers -> SUBSET [engine : Engines', loop : Loops, known : BOOLEAN]]
      BY <1>1, <2>3 DEF InitPgsql, InitUnchanged, closeVars, snapshotVars, TypeOK
    <2>8. QED
      BY <1>1, <2>1, <2>4, <2>5, <2>6, <2>7 DEF InitPgsql, InitUnchanged, closeVars, snapshotVars, TypeOK, Cache
  <1>2. ASSUME InitRedis \/ InitRabbitmq \/ InitMongodb \/ InitFails PROVE TypeOK'
    <2>1. UNCHANGED <<toInit, params, engines, loopRefs, home, registered, disposed, loopState,
                      session, pc, toClose, alias, work, shared, old, sharers, present, configured,
                      failedAt, mqClosed>>
      BY <1>2 DEF InitRedis, InitRabbitmq, InitMongodb, InitFails, InitUnchanged, closeVars, snapshotVars
    <2>2. init' \in {"pgsql", "rabbitmq", "mongodb", "done", "failed"}
      BY <1>2 DEF InitRedis, InitRabbitmq, InitMongodb, InitFails
    <2>3. open' \in SUBSET {"redis", "rabbitmq", "mongodb", "celery"}
      BY <1>2 DEF InitRedis, InitRabbitmq, InitMongodb, InitFails, TypeOK
    <2>4. Engines' = Engines
      BY <2>1 DEF Engines
    <2>5. QED
      BY <2>1, <2>2, <2>3, <2>4 DEF TypeOK, Cache
  <1>3. QED
    BY <1>1, <1>2

\* What requests, sessions and loops do to the types.
LEMMA LoopTypes ==
    ASSUME TypeOK, KeptAtHome, NEW l \in Loops,
           \/ \E a \in Aliases : GetCached(l, a) \/ GetNew(l, a)
           \/ EndSession(l) \/ LoopStarts(l) \/ LoopCloses(l)
    PROVE  TypeOK'
  <1>1. ASSUME NEW a \in Aliases, GetCached(l, a) PROVE TypeOK'
    <2>1. engines[a][l] \in 0 .. MaxEngines
      BY DEF TypeOK, Cache
    <2>2. session' \in [Loops -> 0 .. MaxEngines]
      BY <1>1, <2>1 DEF GetCached, TypeOK
    <2>3. Engines' = Engines
      BY <1>1 DEF GetCached, engineVars, Engines
    <2>4. QED
      BY <1>1, <2>2, <2>3 DEF GetCached, SessionUnchanged, engineVars, initVars, closeVars, snapshotVars,
         TypeOK, Cache
  <1>2. ASSUME NEW a \in Aliases, GetNew(l, a) PROVE TypeOK'
    <2>2. NewEngine(l)
      BY <1>2 DEF GetNew
    <2> DEFINE e == Len(home')
    <2>3. /\ e \in 1 .. MaxEngines /\ e \in Engines' /\ Engines \subseteq Engines'
          /\ home' \in Seq(Loops) /\ Len(home') <= MaxEngines
      BY <2>2, NewEngineType
    <2>4. e \in 0 .. MaxEngines /\ 0 \in 0 .. MaxEngines
      BY <2>3, ResourcesAssumption
    <2>5. engines' \in Cache
      <3>1. engines' = [engines EXCEPT ![a] =
                          [o \in Loops |-> IF o = l THEN e ELSE NoEngine]]
        BY <1>2 DEF GetNew
      <3>3. engines \in Cache
        BY DEF TypeOK
      <3> HIDE DEF e
      <3>4. QED
        BY <3>1, <3>3, <2>4 DEF Cache, NoEngine
    <2>6. disposed' \in SUBSET (Engines' \X Loops)
      <3>1. \A o \in Loops : Cached(a, o) => engines[a][o] \in Engines
        BY DEF KeptAtHome, AtHome, Cached
      <3>2. \A d \in disposed' :
              d \in disposed \/ \E o \in Loops : Cached(a, o) /\ d = <<engines[a][o], o>>
        BY <1>2 DEF GetNew, Others
      <3>3. disposed \subseteq Engines \X Loops
        BY DEF TypeOK
      <3>4. \A d \in disposed' : d \in Engines \X Loops
        BY <3>1, <3>2, <3>3
      <3>5. QED
        BY <2>3, <3>4
    <2>7. session' \in [Loops -> 0 .. MaxEngines]
      <3>1. session' = [session EXCEPT ![l] = e]
        BY <1>2 DEF GetNew
      <3> HIDE DEF e
      <3>2. QED
        BY <3>1, <2>4 DEF TypeOK
    <2>8. registered' \in SUBSET Engines'
      BY <1>2, <2>3 DEF GetNew, TypeOK
    <2>9. work' \in [Closers -> SUBSET [engine : Engines', loop : Loops, known : BOOLEAN]]
      BY <1>2, <2>3 DEF GetNew, SessionUnchanged, closeVars, snapshotVars, TypeOK
    <2>10. loopRefs' \in SUBSET (Aliases \X Loops)
      BY <1>2 DEF GetNew, TypeOK
    <2>11. QED
      BY <1>2, <2>3, <2>5, <2>6, <2>7, <2>8, <2>9, <2>10
      DEF GetNew, SessionUnchanged, initVars, closeVars, snapshotVars, TypeOK, Cache
  <1>3. ASSUME EndSession(l) \/ LoopStarts(l) \/ LoopCloses(l) PROVE TypeOK'
    <2>1. UNCHANGED <<engineVars, initVars, closeVars, open>>
      BY <1>3 DEF EndSession, LoopStarts, LoopCloses, SessionUnchanged
    <2>2. session' \in [Loops -> 0 .. MaxEngines]
      <3>1. 0 \in 0 .. MaxEngines
        BY ResourcesAssumption
      <3>2. QED
        BY <1>3, <3>1 DEF EndSession, LoopStarts, LoopCloses, TypeOK, NoEngine
    <2>3. loopState' \in [Loops -> {"new", "running", "closed"}]
      BY <1>3 DEF EndSession, LoopStarts, LoopCloses, SessionUnchanged, TypeOK
    <2>4. Engines' = Engines
      BY <2>1 DEF engineVars, Engines
    <2>5. QED
      BY <2>1, <2>2, <2>3, <2>4 DEF engineVars, initVars, closeVars, snapshotVars, TypeOK, Cache
  <1>4. QED
    BY <1>1, <1>2, <1>3

\* What close_resources may do at its clients: it moves on, and may take the
\* client it was at from those that are set.
ClientStep(c) ==
    CloseClient(c) \/ PassClient(c) \/ ClientCloses(c) \/ CloseCelery(c) \/ CloseFails(c)

EngineStep(c) ==
    \/ CloseBegins(c) \/ CloseAlias(c) \/ DisposeOwn(c) \/ ScheduleOther(c)
    \/ DisposeReturns(c) \/ ClearAlias(c) \/ ClearAll(c)

\* Such a step leaves engines and sessions alone.
LEMMA ClientStepMoves ==
    ASSUME TypeOK, NEW c \in Closers, ClientStep(c)
    PROVE  /\ UNCHANGED <<engineVars, initVars, snapshotVars, loopState, session, mqClosed>>
           /\ open' \in SUBSET open
           /\ pc' \in [Closers -> Labels]
           /\ failedAt' \in [Closers -> Awaits \cup {"none"}]
           /\ \A d \in Closers \ {c} : failedAt'[d] = failedAt[d]
           /\ \A d \in Closers \ {c} : pc'[d] = pc[d]
           /\ pc'[c] \notin AtEngines \cup {"idle"}
           /\ pc[c] # "idle"
  <1>1. \A i \in 1 .. 3 : /\ Clients[i] \in {"redis", "rabbitmq", "mongodb"}
                          /\ AtLabel(i) \in Labels /\ AtLabel(i) # "idle"
                          /\ AtLabel(i + 1) \in Labels /\ AtLabel(i + 1) \notin AtEngines \cup {"idle"}
    <2>1. 1 .. 3 = {1, 2, 3} /\ 1 + 1 = 2 /\ 2 + 1 = 3 /\ 3 + 1 = 4
      OBVIOUS
    <2>2. QED
      BY <2>1, Places DEF Labels, AtEngines
  <1>2. UNCHANGED <<engineVars, initVars, snapshotVars, loopState, session, mqClosed>>
    BY DEF ClientStep, CloseClient, PassClient, ClientCloses, CloseCelery, CloseFails,
       AtClient, ClientAwaited, CloseUnchanged, engineVars
  <1>3. open' \in SUBSET open
    BY DEF ClientStep, CloseClient, PassClient, ClientCloses, CloseCelery, CloseFails
  <1>4. PICK l \in Labels : /\ Goto(c, l)
                            /\ l \notin AtEngines \cup {"idle"}
                            /\ pc[c] # "idle"
    <2>1. CASE CloseClient(c)
      BY <2>1, <1>1, Places DEF CloseClient, AtClient, Labels, AtEngines
    <2>2. CASE PassClient(c)
      BY <2>2, <1>1 DEF PassClient, AtClient
    <2>3. CASE ClientCloses(c)
      BY <2>3, <1>1 DEF ClientCloses, ClientAwaited
    <2>4. CASE CloseCelery(c)
      BY <2>4 DEF CloseCelery, Labels, AtEngines
    <2>5. CASE CloseFails(c)
      BY <2>5, Places DEF CloseFails, Labels, AtEngines
    <2>6. QED
      BY <2>1, <2>2, <2>3, <2>4, <2>5 DEF ClientStep
  <1>5. /\ failedAt' \in [Closers -> Awaits \cup {"none"}]
        /\ \A d \in Closers \ {c} : failedAt'[d] = failedAt[d]
    <2>1. CASE CloseFails(c)
      BY <2>1 DEF CloseFails, TypeOK
    <2>2. CASE failedAt' = failedAt
      BY <2>2 DEF TypeOK
    <2>3. QED
      BY <2>1, <2>2 DEF ClientStep, CloseClient, PassClient, ClientCloses, CloseCelery,
         AtClient, ClientAwaited, CloseUnchanged
  <1>6. QED
    BY <1>2, <1>3, <1>4, <1>5, GotoType

\* What a step at the engines may do to where its closer is.
LEMMA EngineStepMoves ==
    ASSUME TypeOK, NEW c \in Closers, EngineStep(c)
    PROVE  /\ UNCHANGED <<initVars, params, home, registered, loopState, session, open>>
           /\ UNCHANGED <<mqClosed, failedAt>>
           /\ pc' \in [Closers -> Labels]
           /\ \A d \in Closers \ {c} : pc'[d] = pc[d]
           /\ pc[c] \in AtEngines \cup {"idle"}
           /\ pc'[c] \in AtEngines \cup {"at_redis"}
           /\ pc[c] = "idle" => init \in {"done", "failed"}
  <1>1. UNCHANGED <<initVars, params, home, registered, loopState, session, open, mqClosed, failedAt>>
    BY DEF EngineStep, CloseBegins, CloseAlias, DisposeOwn, ScheduleOther, DisposeReturns,
       ClearAlias, ClearAll, TakeItem, CloseUnchanged
  <1>2. CASE ScheduleOther(c)
    BY <1>1, <1>2 DEF ScheduleOther, TakeItem, TypeOK, AtEngines
  <1>3. CASE ~ScheduleOther(c)
    <2>1. PICK l \in AtEngines \cup {"at_redis"} : Goto(c, l)
      BY <1>3 DEF EngineStep, CloseBegins, CloseAlias, DisposeOwn, DisposeReturns,
         ClearAlias, ClearAll, AtEngines
    <2>2. pc[c] \in AtEngines \cup {"idle"}
      BY <1>3 DEF EngineStep, CloseBegins, CloseAlias, DisposeOwn, DisposeReturns,
         ClearAlias, ClearAll, AtEngines, TakeItem
    <2>3. l \in Labels
      BY Places DEF Labels, AtEngines
    <2>4. pc[c] = "idle" => init \in {"done", "failed"}
      BY <1>3 DEF EngineStep, CloseBegins, CloseAlias, DisposeOwn, DisposeReturns,
         ClearAlias, ClearAll, TakeItem
    <2>5. QED
      BY <1>1, <2>1, <2>2, <2>3, <2>4, GotoType
  <1>4. QED
    BY <1>2, <1>3

\* The work that CloseAlias finds at an alias.
Items(c, a) ==
    {[engine |-> Dicts(c)[a][l], loop |-> l, known |-> <<a, l>> \in loopRefs] :
       l \in {x \in Loops : Dicts(c)[a][x] # NoEngine}}

LEMMA AliasTaken ==
    ASSUME NEW c \in Closers, CloseAlias(c)
    PROVE  \E a \in toClose[c] :
              /\ toClose' = [toClose EXCEPT ![c] = @ \ {a}]
              /\ alias' = [alias EXCEPT ![c] = a]
              /\ work' = [work EXCEPT ![c] = Items(c, a)]
  BY Zenon DEF CloseAlias, Items

LEMMA ItemsType ==
    ASSUME TypeOK, KeptAtHome, NEW c \in Closers, NEW a \in Aliases
    PROVE  /\ Items(c, a) \in SUBSET [engine : Engines, loop : Loops, known : BOOLEAN]
           /\ \A item \in Items(c, a) : home[item.engine] = item.loop
  <1>1. \A l \in Loops : Dicts(c)[a][l] # NoEngine =>
            Dicts(c)[a][l] \in Engines /\ home[Dicts(c)[a][l]] = l
    BY DEF Dicts, KeptAtHome, AtHome
  <1>2. ASSUME NEW item \in Items(c, a)
        PROVE  item \in [engine : Engines, loop : Loops, known : BOOLEAN]
               /\ home[item.engine] = item.loop
    <2>1. PICK l \in Loops :
             /\ Dicts(c)[a][l] # NoEngine
             /\ item = [engine |-> Dicts(c)[a][l], loop |-> l, known |-> <<a, l>> \in loopRefs]
      BY <1>2 DEF Items
    <2>2. (<<a, l>> \in loopRefs) \in BOOLEAN
      OBVIOUS
    <2>3. item \in [engine : Engines, loop : Loops, known : BOOLEAN]
      BY <1>1, <2>1, <2>2
    <2>4. QED
      BY <1>1, <2>1, <2>3
  <1>3. QED
    BY <1>2

LEMMA EngineTypes ==
    ASSUME TypeOK, KeptAtHome, AtOneAlias, NEW c \in Closers, EngineStep(c)
    PROVE  TypeOK'
  <1> USE DEF CloseUnchanged
  <1>1. Engines' = Engines
    BY EngineStepMoves DEF Engines
  <1>2. NoEngines \in Cache
    <2>1. 0 \in 0 .. MaxEngines
      BY ResourcesAssumption
    <2>2. QED
      BY <2>1 DEF NoEngines, NoEngine, Cache
  <1>3. engines' \in Cache
    <2>1. CASE ClearAlias(c)
      <3> DEFINE none == [l \in Loops |-> NoEngine]
      <3>1. engines' = engines \/ engines' = [engines EXCEPT ![alias[c]] = none]
        BY <2>1 DEF ClearAlias
      <3>2. none \in [Loops -> 0 .. MaxEngines]
        BY ResourcesAssumption DEF NoEngine
      <3>3. engines \in [Aliases -> [Loops -> 0 .. MaxEngines]]
        BY DEF TypeOK, Cache
      <3> HIDE DEF none
      <3>4. engines' \in [Aliases -> [Loops -> 0 .. MaxEngines]]
        BY ONLY <3>1, <3>2, <3>3
      <3>5. QED
        BY <3>4 DEF Cache
    <2>2. CASE ~ClearAlias(c)
      BY <2>2, <1>2 DEF EngineStep, CloseBegins, CloseAlias, DisposeOwn, ScheduleOther,
         DisposeReturns, ClearAll, TakeItem, TypeOK
    <2>3. QED
      BY <2>1, <2>2
  <1>4. old' \in [Closers -> Cache]
    <2>1. CASE ClearAlias(c)
      <3> DEFINE none == [l \in Loops |-> NoEngine]
      <3>1. \/ old' = old
            \/ old' = [d \in Closers |-> IF d = c \/ d \in sharers[c]
                                           THEN [old[d] EXCEPT ![alias[c]] = none]
                                           ELSE old[d]]
        BY <2>1 DEF ClearAlias
      <3>2. none \in [Loops -> 0 .. MaxEngines]
        BY ResourcesAssumption DEF NoEngine
      <3>3. old \in [Closers -> [Aliases -> [Loops -> 0 .. MaxEngines]]]
        BY DEF TypeOK, Cache
      <3> HIDE DEF none
      <3>4. ASSUME NEW d \in Closers
            PROVE  [old[d] EXCEPT ![alias[c]] = none] \in [Aliases -> [Loops -> 0 .. MaxEngines]]
        <4>1. old[d] \in [Aliases -> [Loops -> 0 .. MaxEngines]]
          BY <3>3
        <4>2. QED
          BY ONLY <3>2, <4>1
      <3>5. CASE old' = old
        BY <3>3, <3>5 DEF Cache
      <3>6. CASE old' = [d \in Closers |-> IF d = c \/ d \in sharers[c]
                                             THEN [old[d] EXCEPT ![alias[c]] = none]
                                             ELSE old[d]]
        <4>1. \A d \in Closers : old'[d] \in [Aliases -> [Loops -> 0 .. MaxEngines]]
          BY <3>3, <3>4, <3>6
        <4>2. QED
          BY <3>6, <4>1 DEF Cache
      <3>7. QED
        BY <3>1, <3>5, <3>6
    <2>2. CASE ClearAll(c)
      BY <2>2 DEF ClearAll, TypeOK
    <2>3. CASE ~ClearAlias(c) /\ ~ClearAll(c)
      BY <2>3 DEF EngineStep, CloseBegins, CloseAlias, DisposeOwn, ScheduleOther,
         DisposeReturns, TakeItem, snapshotVars, TypeOK
    <2>4. QED
      BY <2>1, <2>2, <2>3
  <1>5. work' \in [Closers -> SUBSET [engine : Engines, loop : Loops, known : BOOLEAN]]
    <2>1. CASE CloseAlias(c)
      <3>1. PICK a \in toClose[c] : work' = [work EXCEPT ![c] = Items(c, a)]
        BY <2>1, AliasTaken
      <3>2. a \in Aliases
        BY DEF TypeOK
      <3>3. Items(c, a) \in SUBSET [engine : Engines, loop : Loops, known : BOOLEAN]
        BY <3>2, ItemsType
      <3> HIDE DEF Items
      <3>4. QED
        BY <3>1, <3>3 DEF TypeOK
    <2>2. CASE ~CloseAlias(c)
      <3>1. work' = work \/ \E item \in work[c] : work' = [work EXCEPT ![c] = @ \ {item}]
        BY <2>2 DEF EngineStep, CloseBegins, DisposeOwn, ScheduleOther,
           DisposeReturns, ClearAlias, ClearAll, TakeItem, snapshotVars
      <3>2. QED
        BY <3>1 DEF TypeOK
    <2>3. QED
      BY <2>1, <2>2
  <1>6. disposed' \in SUBSET (Engines \X Loops)
    <2>1. disposed' = disposed
          \/ \E item \in work[c] : disposed' = disposed \cup {<<item.engine, item.loop>>}
      BY DEF EngineStep, CloseBegins, CloseAlias, DisposeOwn, ScheduleOther,
           DisposeReturns, ClearAlias, ClearAll, TakeItem, Dispose
    <2>2. \A item \in work[c] : item.engine \in Engines /\ item.loop \in Loops
      BY DEF TypeOK
    <2>3. QED
      BY <2>1, <2>2 DEF TypeOK
  <1>7. /\ toClose' \in [Closers -> SUBSET Aliases] /\ loopRefs' \in SUBSET (Aliases \X Loops)
        /\ present' \in SUBSET Aliases /\ sharers' \in [Closers -> SUBSET Closers]
    <2>1. CASE ClearAll(c)
      BY <2>1 DEF ClearAll, TypeOK
    <2>2. CASE ~ClearAll(c)
      <3>1. UNCHANGED <<present, loopRefs, sharers>>
        BY <2>2 DEF EngineStep, CloseBegins, CloseAlias, DisposeOwn, ScheduleOther,
           DisposeReturns, ClearAlias, TakeItem, snapshotVars
      <3>2. CASE CloseAlias(c)
        <4>1. PICK a \in toClose[c] : toClose' = [toClose EXCEPT ![c] = @ \ {a}]
          BY <3>2, AliasTaken
        <4>2. QED
          BY <3>1, <4>1 DEF TypeOK
      <3>3. CASE ~CloseAlias(c)
        <4>1. toClose' = toClose \/ toClose' = [toClose EXCEPT ![c] = present]
          BY <2>2, <3>3 DEF EngineStep, CloseBegins, DisposeOwn, ScheduleOther,
             DisposeReturns, ClearAlias, TakeItem, snapshotVars
        <4>2. QED
          BY <3>1, <4>1 DEF TypeOK
      <3>4. QED
        BY <3>2, <3>3
    <2>3. QED
      BY <2>1, <2>2
  <1>8. alias' \in [Closers -> Aliases \cup {NoAlias}] /\ shared' \in [Closers -> BOOLEAN]
    <2>1. CASE CloseAlias(c)
      <3>1. PICK a \in toClose[c] : alias' = [alias EXCEPT ![c] = a]
        BY <2>1, AliasTaken
      <3>2. QED
        BY <2>1, <3>1 DEF CloseAlias, TypeOK
    <2>2. CASE CloseBegins(c) \/ ClearAll(c) \/ ClearAlias(c)
      BY <2>2 DEF CloseBegins, ClearAll, ClearAlias, TypeOK
    <2>3. CASE DisposeOwn(c) \/ ScheduleOther(c) \/ DisposeReturns(c)
      BY <2>3 DEF DisposeOwn, ScheduleOther, DisposeReturns, TakeItem, snapshotVars, TypeOK
    <2>4. QED
      BY <2>1, <2>2, <2>3 DEF EngineStep
  <1>9. QED
    BY <1>1, <1>3, <1>4, <1>5, <1>6, <1>7, <1>8, EngineStepMoves DEF initVars, TypeOK

LEMMA ClientTypes ==
    ASSUME TypeOK, NEW c \in Closers, ClientStep(c)
    PROVE  TypeOK'
  <1>1. Engines' = Engines
    BY ClientStepMoves DEF Engines, engineVars
  <1>2. /\ UNCHANGED <<engineVars, initVars, snapshotVars, loopState, session>>
        /\ open' \in SUBSET open
        /\ pc' \in [Closers -> Labels]
        /\ failedAt' \in [Closers -> Awaits \cup {"none"}]
        /\ mqClosed' = mqClosed
    BY ClientStepMoves
  <1>3. QED
    BY <1>1, <1>2 DEF engineVars, initVars, snapshotVars, TypeOK, Cache

\* The steps of the system, by who takes them.
InitStep ==
    \/ \E a \in Aliases : InitPgsql(a)
    \/ InitRedis \/ InitRabbitmq \/ InitMongodb \/ InitFails

LoopStep(l) ==
    \/ \E a \in Aliases : GetCached(l, a) \/ GetNew(l, a)
    \/ EndSession(l) \/ LoopStarts(l) \/ LoopCloses(l)

\* Every step but that of the RabbitMQ connection.
Move ==
    \/ InitStep
    \/ \E l \in Loops : LoopStep(l)
    \/ \E c \in Closers : EngineStep(c) \/ ClientStep(c)

LEMMA Steps == Next <=> Move \/ ConnectionCloses
  BY DEF Next, Move, InitStep, LoopStep, EngineStep, ClientStep

USE DEF Move

LEMMA TypeStep == ASSUME IInv, Move PROVE TypeOK'
  <1>1. CASE InitStep
    BY <1>1, InitTypes DEF IInv, InitStep
  <1>2. ASSUME NEW l \in Loops, LoopStep(l) PROVE TypeOK'
    BY <1>2, LoopTypes DEF IInv, EnginesInv, LoopStep
  <1>3. ASSUME NEW c \in Closers, EngineStep(c) \/ ClientStep(c) PROVE TypeOK'
    BY <1>3, EngineTypes, ClientTypes DEF IInv, EnginesInv, AccountInv
  <1>4. QED
    BY <1>1, <1>2, <1>3

-----------------------------------------------------------------------------
(* Engines and their loops                                                  *)

\* The loop of an engine does not change.
LEMMA HomeKept ==
    ASSUME IInv, Move
    PROVE  Engines \subseteq Engines' /\ \A e \in Engines : home'[e] = home[e]
  <1>1. CASE home' = home
    BY <1>1 DEF Engines
  <1>2. ASSUME NEW l \in Loops, NewEngine(l) PROVE Engines \subseteq Engines' /\ \A e \in Engines : home'[e] = home[e]
    BY <1>2, NewEngineType DEF IInv
  <1>3. CASE InitStep
    BY <1>1, <1>2, <1>3, ResourcesAssumption
    DEF InitStep, InitPgsql, InitRedis, InitRabbitmq, InitMongodb, InitFails
  <1>4. ASSUME NEW l \in Loops, LoopStep(l) PROVE home' = home \/ NewEngine(l)
    BY <1>4 DEF LoopStep, GetCached, GetNew, EndSession, LoopStarts, LoopCloses, engineVars
  <1>5. ASSUME NEW c \in Closers, EngineStep(c) \/ ClientStep(c) PROVE home' = home
    BY <1>5, EngineStepMoves, ClientStepMoves DEF IInv, engineVars
  <1>6. QED
    BY <1>1, <1>2, <1>3, <1>4, <1>5

LEMMA EnginesShrink ==
    ASSUME TypeOK, NEW c \in Closers, EngineStep(c)
    PROVE  \A a \in Aliases, l \in Loops : engines'[a][l] \in {engines[a][l], NoEngine}
  <1>1. CASE ClearAlias(c)
    <2>1. \/ engines' = engines
          \/ engines' = [engines EXCEPT ![alias[c]] = [l \in Loops |-> NoEngine]]
      BY <1>1 DEF ClearAlias
    <2>2. engines \in Cache
      BY DEF TypeOK
    <2>3. QED
      BY <2>1, <2>2 DEF Cache
  <1>2. CASE ClearAll(c)
    BY <1>2 DEF ClearAll, NoEngines
  <1>3. CASE ~ClearAlias(c) /\ ~ClearAll(c)
    BY <1>3 DEF EngineStep, CloseBegins, CloseAlias, DisposeOwn, ScheduleOther,
       DisposeReturns, TakeItem
  <1>4. QED
    BY <1>1, <1>2, <1>3

\* A cache that takes no engine but a new one, on its own loop, keeps its engines at home.
LEMMA CacheAtHome ==
    ASSUME IInv, Move, NEW old1, NEW new1, AtHome(old1),
           \A a \in Aliases, l \in Loops :
              \/ new1[a][l] \in {old1[a][l], NoEngine}
              \/ new1[a][l] \in Engines' /\ home'[new1[a][l]] = l
    PROVE  \A a \in Aliases, l \in Loops :
              new1[a][l] # NoEngine => new1[a][l] \in Engines' /\ home'[new1[a][l]] = l
  BY HomeKept DEF AtHome

LEMMA EnginesAtHome == ASSUME IInv, Move PROVE AtHome(engines)'
  <1>1. \A a \in Aliases, l \in Loops :
              \/ engines'[a][l] \in {engines[a][l], NoEngine}
              \/ engines'[a][l] \in Engines' /\ home'[engines'[a][l]] = l
    <2>1. CASE engines' = engines
      BY <2>1
    <2>2. ASSUME NEW b \in Aliases, InitPgsql(b)
          PROVE  \A a \in Aliases, l \in Loops :
                    \/ engines'[a][l] = engines[a][l]
                    \/ engines'[a][l] \in Engines' /\ home'[engines'[a][l]] = l
      <3>1. Len(home') \in Engines' /\ home'[Len(home')] = MainLoop
        BY <2>2, NewEngineType, ResourcesAssumption DEF IInv, InitPgsql
      <3>2. engines' = [engines EXCEPT ![b][MainLoop] = Len(home')]
        BY <2>2 DEF InitPgsql
      <3>3. QED
        BY <3>1, <3>2, ResourcesAssumption DEF IInv, TypeOK, Cache
    <2>3. ASSUME NEW k \in Loops, NEW b \in Aliases, GetNew(k, b)
          PROVE  \A a \in Aliases, l \in Loops :
                    \/ engines'[a][l] \in {engines[a][l], NoEngine}
                    \/ engines'[a][l] \in Engines' /\ home'[engines'[a][l]] = l
      <3>1. Len(home') \in Engines' /\ home'[Len(home')] = k
        BY <2>3, NewEngineType DEF IInv, GetNew
      <3>2. engines' = [engines EXCEPT ![b] =
                         [o \in Loops |-> IF o = k THEN Len(home') ELSE NoEngine]]
        BY <2>3 DEF GetNew
      <3>3. QED
        BY <3>1, <3>2 DEF IInv, TypeOK, Cache
    <2>4. CASE InitStep
      BY <2>1, <2>2, <2>4 DEF InitStep, InitRedis, InitRabbitmq, InitMongodb, InitFails
    <2>5. ASSUME NEW l \in Loops, LoopStep(l)
          PROVE  engines' = engines \/ \E a \in Aliases : GetNew(l, a)
      BY <2>5 DEF LoopStep, GetCached, EndSession, LoopStarts, LoopCloses, engineVars
    <2>6. ASSUME NEW c \in Closers, ClientStep(c) PROVE engines' = engines
      BY <2>6, ClientStepMoves DEF IInv, engineVars
    <2>7. ASSUME NEW c \in Closers, EngineStep(c)
          PROVE  \A a \in Aliases, l \in Loops : engines'[a][l] \in {engines[a][l], NoEngine}
      BY <2>7, EnginesShrink DEF IInv
    <2>8. QED
      BY <2>1, <2>3, <2>4, <2>5, <2>6, <2>7
  <1>2. QED
    BY <1>1, CacheAtHome DEF IInv, EnginesInv, KeptAtHome, AtHome

LEMMA SnapshotsAtHome == ASSUME IInv, Move PROVE \A d \in Closers : AtHome(old[d])'
  <1> SUFFICES ASSUME NEW d \in Closers PROVE AtHome(old[d])'
    OBVIOUS
  <1>1. AtHome(engines) /\ AtHome(old[d])
    BY DEF IInv, EnginesInv, KeptAtHome
  <1>2. \/ \A a \in Aliases, l \in Loops : old'[d][a][l] \in {old[d][a][l], NoEngine}
        \/ old'[d] = engines
    <2>1. CASE InitStep
      BY <2>1 DEF InitStep, InitPgsql, InitRedis, InitRabbitmq, InitMongodb, InitFails,
         InitUnchanged, closeVars, snapshotVars
    <2>2. ASSUME NEW l \in Loops, LoopStep(l) PROVE old' = old
      BY <2>2 DEF LoopStep, GetCached, GetNew, EndSession, LoopStarts, LoopCloses,
         SessionUnchanged, closeVars, snapshotVars
    <2>3. ASSUME NEW c \in Closers, ClientStep(c) PROVE old' = old
      BY <2>3, ClientStepMoves DEF IInv, snapshotVars
    <2>4. ASSUME NEW c \in Closers, ClearAlias(c)
          PROVE  \A a \in Aliases, l \in Loops : old'[d][a][l] \in {old[d][a][l], NoEngine}
      <3>1. CASE old' = old
        BY <3>1
      <3>2. CASE old'[d] = [old[d] EXCEPT ![alias[c]] = [l \in Loops |-> NoEngine]]
        <4>1. old[d] \in Cache
          BY DEF IInv, TypeOK
        <4>2. QED
          BY <3>2, <4>1 DEF Cache
      <3>3. CASE old'[d] = old[d]
        BY <3>3
      <3>4. QED
        BY <2>4, <3>1, <3>2, <3>3 DEF ClearAlias
    <2>5. ASSUME NEW c \in Closers, EngineStep(c), ~ClearAlias(c)
          PROVE  old'[d] \in {old[d], engines}
      BY <2>5 DEF EngineStep, CloseBegins, CloseAlias, DisposeOwn, ScheduleOther,
         DisposeReturns, ClearAll, TakeItem, snapshotVars
    <2>6. QED
      BY <2>1, <2>2, <2>3, <2>4, <2>5
  <1>3. QED
    <2>1. CASE old'[d] = engines
      BY <1>1, <2>1, HomeKept DEF AtHome
    <2>2. CASE \A a \in Aliases, l \in Loops : old'[d][a][l] \in {old[d][a][l], NoEngine}
      BY <1>1, <2>2, HomeKept DEF AtHome
    <2>3. QED
      BY <1>2, <2>1, <2>2

LEMMA WorkAtHome ==
    ASSUME IInv, Move
    PROVE  \A d \in Closers : \A item \in work'[d] : home'[item.engine] = item.loop
  <1>1. ASSUME NEW d \in Closers, NEW item \in work'[d]
        PROVE  item.engine \in Engines /\ home[item.engine] = item.loop
    <2>1. item \in work[d] => item.engine \in Engines /\ home[item.engine] = item.loop
      BY DEF IInv, EnginesInv, KeptAtHome, TypeOK
    <2>2. \/ work'[d] \subseteq work[d]
          \/ \E a \in Aliases : work'[d] = Items(d, a)
      <3>1. CASE InitStep
        BY <3>1 DEF InitStep, InitPgsql, InitRedis, InitRabbitmq, InitMongodb, InitFails,
           InitUnchanged, closeVars, snapshotVars
      <3>2. ASSUME NEW l \in Loops, LoopStep(l) PROVE work' = work
        BY <3>2 DEF LoopStep, GetCached, GetNew, EndSession, LoopStarts, LoopCloses,
           SessionUnchanged, closeVars, snapshotVars
      <3>3. ASSUME NEW c \in Closers, ClientStep(c) PROVE work' = work
        BY <3>3, ClientStepMoves DEF IInv, snapshotVars
      <3>4. ASSUME NEW c \in Closers, CloseAlias(c)
            PROVE  work'[d] = work[d] \/ \E a \in Aliases : work'[d] = Items(d, a)
        <4>1. PICK a \in toClose[c] : work' = [work EXCEPT ![c] = Items(c, a)]
          BY <3>4, AliasTaken
        <4>2. a \in Aliases /\ work \in [Closers -> SUBSET [engine : Engines, loop : Loops, known : BOOLEAN]]
          BY DEF IInv, TypeOK
        <4> HIDE DEF Items
        <4>3. QED
          BY <4>1, <4>2
      <3>5. ASSUME NEW c \in Closers, EngineStep(c), ~CloseAlias(c)
            PROVE  work'[d] \subseteq work[d]
        <4>1. work' = work \/ \E i \in work[c] : work' = [work EXCEPT ![c] = @ \ {i}]
          BY <3>5 DEF EngineStep, CloseBegins, DisposeOwn, ScheduleOther,
             DisposeReturns, ClearAlias, ClearAll, TakeItem, snapshotVars
        <4>2. work \in [Closers -> SUBSET [engine : Engines, loop : Loops, known : BOOLEAN]]
          BY DEF IInv, TypeOK
        <4>3. QED
          BY <4>1, <4>2
      <3>6. QED
        BY <3>1, <3>2, <3>3, <3>4, <3>5
    <2>3. CASE \E a \in Aliases : work'[d] = Items(d, a)
      BY <1>1, <2>3, ItemsType DEF IInv, EnginesInv
    <2>4. QED
      BY <1>1, <2>1, <2>2, <2>3
  <1>2. QED
    BY <1>1, HomeKept

LEMMA SessionsAtHome ==
    ASSUME IInv, Move
    PROVE  \A l \in Loops : session'[l] # NoEngine =>
              session'[l] \in Engines' /\ home'[session'[l]] = l
  <1>1. ASSUME NEW l \in Loops, session[l] # NoEngine
        PROVE  session[l] \in Engines /\ home[session[l]] = l
    BY <1>1 DEF IInv, EnginesInv, KeptAtHome, SessionOnOwnLoop
  <1>2. \A l \in Loops :
           \/ session'[l] \in {session[l], NoEngine}
           \/ session'[l] \in Engines' /\ home'[session'[l]] = l
    <2>1. CASE session' = session
      BY <2>1
    <2>2. ASSUME NEW k \in Loops, NEW a \in Aliases, GetCached(k, a)
          PROVE  \A l \in Loops :
                    \/ session'[l] = session[l]
                    \/ session'[l] \in Engines' /\ home'[session'[l]] = l
      <3>1. engines[a][k] \in Engines /\ home[engines[a][k]] = k
        BY <2>2 DEF GetCached, Cached, IInv, EnginesInv, KeptAtHome, AtHome
      <3>2. engines[a][k] \in Engines' /\ home'[engines[a][k]] = k
        BY <3>1, HomeKept
      <3>3. session' = [session EXCEPT ![k] = engines[a][k]]
        BY <2>2 DEF GetCached
      <3>4. QED
        BY <3>2, <3>3 DEF IInv, TypeOK
    <2>3. ASSUME NEW k \in Loops, NEW a \in Aliases, GetNew(k, a)
          PROVE  \A l \in Loops :
                    \/ session'[l] = session[l]
                    \/ session'[l] \in Engines' /\ home'[session'[l]] = l
      <3>1. Len(home') \in Engines' /\ home'[Len(home')] = k
        BY <2>3, NewEngineType DEF IInv, GetNew
      <3>2. session' = [session EXCEPT ![k] = Len(home')]
        BY <2>3 DEF GetNew
      <3>3. QED
        BY <3>1, <3>2 DEF IInv, TypeOK
    <2>4. ASSUME NEW k \in Loops, EndSession(k)
          PROVE  \A l \in Loops : session'[l] \in {session[l], NoEngine}
      BY <2>4 DEF EndSession, IInv, TypeOK
    <2>5. CASE InitStep
      BY <2>1, <2>5 DEF InitStep, InitPgsql, InitRedis, InitRabbitmq, InitMongodb, InitFails,
         InitUnchanged
    <2>6. ASSUME NEW c \in Closers, EngineStep(c) \/ ClientStep(c) PROVE session' = session
      BY <2>6, EngineStepMoves, ClientStepMoves DEF IInv
    <2>7. ASSUME NEW k \in Loops, LoopStarts(k) \/ LoopCloses(k) PROVE session' = session
      BY <2>7 DEF LoopStarts, LoopCloses
    <2>8. QED
      BY <2>1, <2>2, <2>3, <2>4, <2>5, <2>6, <2>7 DEF LoopStep
  <1>3. QED
    BY <1>1, <1>2, HomeKept

LEMMA DisposedStep == ASSUME IInv, Move PROVE DisposedAtHome'
  <1>1. \A d \in disposed' : d \in disposed \/ (d[1] \in Engines /\ home[d[1]] = d[2])
    <2>1. CASE disposed' = disposed
      BY <2>1
    <2>2. ASSUME NEW k \in Loops, NEW a \in Aliases, GetNew(k, a)
          PROVE  \A d \in disposed' : d \in disposed \/ (d[1] \in Engines /\ home[d[1]] = d[2])
      <3>1. ASSUME NEW d \in disposed', d \notin disposed
            PROVE  \E o \in Loops : Cached(a, o) /\ d = <<engines[a][o], o>>
        BY <2>2, <3>1 DEF GetNew, Others
      <3>2. \A o \in Loops : Cached(a, o) => engines[a][o] \in Engines /\ home[engines[a][o]] = o
        BY DEF Cached, IInv, EnginesInv, KeptAtHome, AtHome
      <3>3. QED
        BY <3>1, <3>2
    <2>3. ASSUME NEW c \in Closers, EngineStep(c)
          PROVE  \A d \in disposed' : d \in disposed \/ (d[1] \in Engines /\ home[d[1]] = d[2])
      <3>1. \/ disposed' = disposed
            \/ \E item \in work[c] : disposed' = disposed \cup {<<item.engine, item.loop>>}
        BY <2>3 DEF EngineStep, CloseBegins, CloseAlias, DisposeOwn, ScheduleOther,
           DisposeReturns, ClearAlias, ClearAll, TakeItem, Dispose
      <3>2. \A item \in work[c] : item.engine \in Engines /\ home[item.engine] = item.loop
        BY DEF IInv, EnginesInv, KeptAtHome, TypeOK
      <3>3. QED
        BY <3>1, <3>2
    <2>4. ASSUME NEW c \in Closers, ClientStep(c) PROVE disposed' = disposed
      BY <2>4, ClientStepMoves DEF IInv, engineVars
    <2>5. CASE InitStep
      BY <2>1, <2>5 DEF InitStep, InitPgsql, InitRedis, InitRabbitmq, InitMongodb, InitFails,
         InitUnchanged
    <2>6. ASSUME NEW l \in Loops, LoopStep(l)
          PROVE  disposed' = disposed \/ \E a \in Aliases : GetNew(l, a)
      BY <2>6 DEF LoopStep, GetCached, EndSession, LoopStarts, LoopCloses, engineVars
    <2>7. QED
      BY <2>1, <2>2, <2>3, <2>4, <2>5, <2>6
  <1>2. \A d \in disposed : d[1] \in Engines /\ home[d[1]] = d[2]
    BY DEF IInv, EnginesInv, DisposedAtHome, TypeOK
  <1>3. QED
    BY <1>1, <1>2, HomeKept DEF DisposedAtHome

LEMMA InitFirstStep == ASSUME IInv, Move PROVE InitFirst'
  <1> USE DEF IInv, EnginesInv, InitFirst
  <1>1. CASE InitStep
    <2>1. UNCHANGED <<pc, loopState>> /\ \A c \in Closers : pc[c] = "idle"
      BY <1>1 DEF InitStep, InitPgsql, InitRedis, InitRabbitmq, InitMongodb, InitFails,
         InitUnchanged, closeVars, snapshotVars
    <2>2. Running(MainLoop)'
      BY <2>1 DEF Running
    <2>3. /\ toInit' \cap params' = {}
          /\ \A a \in Aliases, l \in Loops :
               engines'[a][l] # NoEngine => a \in params' \cap present'
      <3>1. ASSUME NEW b \in Aliases, InitPgsql(b)
            PROVE  /\ toInit' \cap params' = {}
                   /\ \A a \in Aliases, l \in Loops :
                        engines'[a][l] # NoEngine => a \in params' \cap present'
        BY <3>1 DEF InitPgsql, Cached, TypeOK, Cache
      <3>2. CASE InitRedis \/ InitRabbitmq \/ InitMongodb \/ InitFails
        BY <3>2 DEF InitRedis, InitRabbitmq, InitMongodb, InitFails, Cached
      <3>3. QED
        BY <1>1, <3>1, <3>2 DEF InitStep
    <2>4. QED
      BY <2>1, <2>2, <2>3 DEF Cached
  <1>2. ASSUME NEW l \in Loops, LoopStep(l) PROVE InitFirst'
    <2>1. UNCHANGED <<initVars, closeVars, params>>
      BY <1>2 DEF LoopStep, GetCached, GetNew, EndSession, LoopStarts, LoopCloses,
         SessionUnchanged, engineVars
    <2>2. \A a \in Aliases, k \in Loops : engines'[a][k] # NoEngine => a \in params \cap present'
      <3>1. CASE engines' = engines /\ present' = present
        BY <3>1 DEF Cached
      <3>2. ASSUME NEW b \in Aliases, GetNew(l, b)
            PROVE  \A a \in Aliases, k \in Loops :
                     engines'[a][k] # NoEngine => a \in params \cap present'
        BY <3>2 DEF GetNew, CanAsk, Cached, TypeOK, Cache
      <3>3. QED
        BY <1>2, <3>1, <3>2 DEF LoopStep, GetCached, EndSession, LoopStarts, LoopCloses, engineVars
    <2>3. Running(MainLoop)'
      <3>1. CASE loopState' = loopState
        BY <3>1 DEF Running
      <3>2. CASE LoopStarts(l)
        BY <3>2 DEF LoopStarts, Running, TypeOK
      <3>3. CASE LoopCloses(l)
        BY <3>3 DEF LoopCloses, Running, TypeOK
      <3>4. QED
        BY <1>2, <3>1, <3>2, <3>3 DEF LoopStep, GetCached, GetNew, EndSession, SessionUnchanged
    <2>4. QED
      BY <2>1, <2>2, <2>3 DEF initVars, closeVars, snapshotVars, Cached
  <1>3. ASSUME NEW c \in Closers, EngineStep(c) PROVE InitFirst'
    <2>1. UNCHANGED <<initVars, params, loopState>>
      BY <1>3, EngineStepMoves
    <2>2. \A a \in Aliases, l \in Loops : engines'[a][l] # NoEngine => a \in params \cap present'
      <3>1. \A a \in Aliases, l \in Loops : engines'[a][l] \in {engines[a][l], NoEngine}
        BY <1>3, EnginesShrink
      <3>2. CASE ClearAll(c)
        BY <3>2 DEF ClearAll, NoEngines
      <3>3. CASE ~ClearAll(c)
        <4>1. present' = present
          BY <1>3, <3>3 DEF EngineStep, CloseBegins, CloseAlias, DisposeOwn, ScheduleOther,
             DisposeReturns, ClearAlias, TakeItem
        <4>2. QED
          BY <3>1, <4>1 DEF Cached
      <3>4. QED
        BY <3>2, <3>3
    <2>3. \A d \in Closers : pc'[d] # "idle" => init \in {"done", "failed"}
      BY <1>3, EngineStepMoves
    <2>4. QED
      BY <2>1, <2>2, <2>3 DEF initVars, Cached, Running
  <1>4. ASSUME NEW c \in Closers, ClientStep(c) PROVE InitFirst'
    <2>1. UNCHANGED <<engineVars, initVars, loopState>>
      BY <1>4, ClientStepMoves
    <2>2. \A d \in Closers : pc'[d] # "idle" => pc[d] # "idle"
      BY <1>4, ClientStepMoves
    <2>3. QED
      BY <2>1, <2>2 DEF engineVars, initVars, Cached, Running
  <1>5. QED
    BY <1>1, <1>2, <1>3, <1>4

LEMMA EnginesStep == ASSUME IInv, Move PROVE EnginesInv'
  <1>1. KeptAtHome'
    BY EnginesAtHome, SnapshotsAtHome, WorkAtHome, SessionsAtHome DEF KeptAtHome
  <1>2. SessionOnOwnLoop'
    BY SessionsAtHome DEF SessionOnOwnLoop
  <1>3. QED
    BY <1>1, <1>2, DisposedStep, InitFirstStep DEF EnginesInv

-----------------------------------------------------------------------------
(* No engine of init_resources is lost                                      *)

\* A step that is not of init_resources caches no engine of it that was not
\* cached in the same place before.
LEMMA RegisteredKept ==
    ASSUME IInv, Move, ~InitStep
    PROVE  /\ registered' = registered
           /\ disposed \subseteq disposed'
           /\ \A a \in Aliases : CachesRegistered(a)' =>
                 CachesRegistered(a) /\ engines'[a][MainLoop] = engines[a][MainLoop]
  <1>1. NoEngine \notin registered
    BY DEF NoEngine, IInv, TypeOK, Engines
  <1>2. ASSUME NEW l \in Loops, LoopStep(l)
        PROVE  /\ registered' = registered
               /\ disposed \subseteq disposed'
               /\ \A a \in Aliases : engines'[a][MainLoop] \in registered =>
                     engines'[a][MainLoop] = engines[a][MainLoop]
    <2>1. CASE UNCHANGED engineVars
      BY <2>1 DEF engineVars
    <2>2. ASSUME NEW b \in Aliases, GetNew(l, b)
          PROVE  /\ registered' = registered
                 /\ disposed \subseteq disposed'
                 /\ \A a \in Aliases : engines'[a][MainLoop] \in registered =>
                       engines'[a][MainLoop] = engines[a][MainLoop]
      <3>1. Len(home') \notin registered
        BY <2>2, NewEngineType DEF GetNew, IInv, TypeOK
      <3>2. engines' = [engines EXCEPT ![b] =
                         [o \in Loops |-> IF o = l THEN Len(home') ELSE NoEngine]]
        BY <2>2 DEF GetNew
      <3>3. registered' = registered /\ disposed \subseteq disposed'
        BY <2>2 DEF GetNew
      <3>4. QED
        BY <1>1, <3>1, <3>2, <3>3, ResourcesAssumption DEF IInv, TypeOK, Cache
    <2>3. QED
      BY <1>2, <2>1, <2>2 DEF LoopStep, GetCached, EndSession, LoopStarts, LoopCloses
  <1>3. ASSUME NEW c \in Closers, EngineStep(c)
        PROVE  /\ registered' = registered
               /\ disposed \subseteq disposed'
               /\ \A a \in Aliases : engines'[a][MainLoop] \in registered =>
                     engines'[a][MainLoop] = engines[a][MainLoop]
    <2>1. \A a \in Aliases : engines'[a][MainLoop] \in {engines[a][MainLoop], NoEngine}
      BY <1>3, EnginesShrink, ResourcesAssumption DEF IInv
    <2>2. disposed \subseteq disposed'
      BY <1>3 DEF EngineStep, CloseBegins, CloseAlias, DisposeOwn, ScheduleOther,
         DisposeReturns, ClearAlias, ClearAll, TakeItem, Dispose
    <2>3. QED
      BY <1>1, <1>3, <2>1, <2>2, EngineStepMoves DEF IInv
  <1>4. ASSUME NEW c \in Closers, ClientStep(c)
        PROVE  UNCHANGED <<engines, registered, disposed>>
    BY <1>4, ClientStepMoves DEF IInv, engineVars
  <1>5. QED
    BY <1>2, <1>3, <1>4 DEF CachesRegistered

LEMMA OnRecordStep == ASSUME IInv, Move PROVE OnRecord'
  <1>1. CASE InitStep
    <2>1. ASSUME NEW b \in Aliases, InitPgsql(b) PROVE OnRecord'
      <3>1. Len(home') \notin registered /\ NoEngine \notin registered'
        <4>1. Len(home') \notin registered /\ Len(home') # 0 /\ 0 \notin registered
          <5>1. Len(home') \notin Engines /\ Len(home') \in 1 .. MaxEngines
            BY <2>1, NewEngineType, ResourcesAssumption DEF InitPgsql, IInv
          <5>2. registered \subseteq Engines /\ 0 \notin Engines
            BY DEF IInv, TypeOK, Engines
          <5>3. QED
            BY <5>1, <5>2
        <4>2. QED
          BY <2>1, <4>1 DEF InitPgsql, NoEngine
      <3>2. /\ engines' = [engines EXCEPT ![b][MainLoop] = Len(home')]
            /\ registered' = registered \cup {Len(home')}
            /\ loopRefs' = loopRefs \cup {<<b, MainLoop>>}
        BY <2>1 DEF InitPgsql
      <3>3. ASSUME NEW a \in Aliases, a # b, CachesRegistered(a)'
            PROVE  CachesRegistered(a)
        <4>1. engines'[a][MainLoop] = engines[a][MainLoop]
          BY <3>2, <3>3, ResourcesAssumption DEF IInv, TypeOK, Cache
        <4>2. engines[a][MainLoop] # Len(home')
          <5>1. engines[a][MainLoop] # NoEngine => engines[a][MainLoop] \in Engines
            BY ResourcesAssumption DEF IInv, EnginesInv, KeptAtHome, AtHome
          <5>2. Len(home') \notin Engines /\ Len(home') # NoEngine
            BY <2>1, NewEngineType, ResourcesAssumption DEF InitPgsql, IInv, NoEngine
          <5>3. QED
            BY <5>1, <5>2
        <4>3. QED
          BY <3>2, <3>3, <4>1, <4>2 DEF CachesRegistered
      <3>4. QED
        BY <3>2, <3>3 DEF OnRecord, IInv, AccountInv
    <2>2. CASE InitRedis \/ InitRabbitmq \/ InitMongodb \/ InitFails
      BY <2>2 DEF InitRedis, InitRabbitmq, InitMongodb, InitFails, OnRecord, CachesRegistered,
         IInv, AccountInv
    <2>3. QED
      BY <1>1, <2>1, <2>2 DEF InitStep
  <1>2. ASSUME ~InitStep, NEW a \in Aliases, CachesRegistered(a)'
        PROVE  <<a, MainLoop>> \in loopRefs'
    <2>1. /\ <<a, MainLoop>> \in loopRefs
          /\ engines'[a][MainLoop] = engines[a][MainLoop]
          /\ engines'[a][MainLoop] \in registered
      BY <1>2, RegisteredKept DEF IInv, AccountInv, OnRecord, CachesRegistered
    <2>2. engines'[a][MainLoop] # NoEngine
      BY <2>1 DEF IInv, TypeOK, Engines, NoEngine
    <2>3. CASE loopRefs' = loopRefs
      BY <2>1, <2>3
    <2>4. ASSUME NEW l \in Loops, NEW b \in Aliases, GetNew(l, b), <<a, MainLoop>> \notin loopRefs'
          PROVE  FALSE
      <3>1. a = b /\ MainLoop # l
        BY <2>1, <2>4 DEF GetNew, Others
      <3>2. engines'[a][MainLoop] = NoEngine
        BY <2>4, <3>1, ResourcesAssumption DEF GetNew, IInv, TypeOK, Cache
      <3>3. QED
        BY <2>2, <3>2
    <2>5. ASSUME NEW c \in Closers, ClearAll(c) PROVE FALSE
      BY <2>2, <2>5, ResourcesAssumption DEF ClearAll, NoEngines
    <2>6. ASSUME NEW l \in Loops, LoopStep(l)
          PROVE  loopRefs' = loopRefs \/ \E b \in Aliases : GetNew(l, b)
      BY <2>6 DEF LoopStep, GetCached, EndSession, LoopStarts, LoopCloses, engineVars
    <2>7. ASSUME NEW c \in Closers, EngineStep(c) PROVE loopRefs' = loopRefs \/ ClearAll(c)
      BY <2>7 DEF EngineStep, CloseBegins, CloseAlias, DisposeOwn, ScheduleOther,
         DisposeReturns, ClearAlias, TakeItem
    <2>8. ASSUME NEW c \in Closers, ClientStep(c) PROVE loopRefs' = loopRefs
      BY <2>8, ClientStepMoves DEF IInv, engineVars
    <2>9. QED
      BY <1>2, <2>3, <2>4, <2>5, <2>6, <2>7, <2>8
  <1>3. QED
    BY <1>1, <1>2 DEF OnRecord

LEMMA AtOneAliasStep == ASSUME IInv, Move PROVE AtOneAlias'
  <1>1. AtOneAlias
    BY DEF IInv, AccountInv
  <1>2. CASE InitStep
    BY <1>1, <1>2 DEF InitStep, InitPgsql, InitRedis, InitRabbitmq, InitMongodb, InitFails,
       InitUnchanged, closeVars, snapshotVars, AtOneAlias
  <1>3. ASSUME NEW l \in Loops, LoopStep(l) PROVE AtOneAlias'
    BY <1>1, <1>3 DEF LoopStep, GetCached, GetNew, EndSession, LoopStarts, LoopCloses,
       SessionUnchanged, closeVars, snapshotVars, AtOneAlias
  <1>4. ASSUME NEW c \in Closers, ClientStep(c) PROVE AtOneAlias'
    <2>1. /\ alias' = alias /\ \A d \in Closers \ {c} : pc'[d] = pc[d]
          /\ toClose' = toClose
          /\ pc'[c] \notin AtEngines \cup {"idle"}
      BY <1>4, ClientStepMoves DEF IInv, snapshotVars
    <2>2. QED
      BY <1>1, <2>1 DEF AtOneAlias, AtEngines
  <1>5. ASSUME NEW c \in Closers, EngineStep(c) PROVE AtOneAlias'
    <2>1. \A d \in Closers \ {c} : pc'[d] = pc[d]
      BY <1>5, EngineStepMoves DEF IInv
    <2>2. pc \in [Closers -> Labels] /\ alias \in [Closers -> Aliases \cup {NoAlias}]
      BY DEF IInv, TypeOK
    <2>3. CASE CloseAlias(c)
      <3>1. PICK a \in Aliases : /\ alias' = [alias EXCEPT ![c] = a]
                                 /\ toClose' = [toClose EXCEPT ![c] = @ \ {a}]
        BY <2>3, AliasTaken DEF IInv, TypeOK
      <3>2. pc' = [pc EXCEPT ![c] = "items"]
        BY <2>3 DEF CloseAlias, Goto
      <3>3. QED
        BY <1>1, <2>2, <3>1, <3>2 DEF AtOneAlias, IInv, TypeOK
    <2>4. CASE ClearAlias(c)
      <3>1. /\ alias' = [alias EXCEPT ![c] = NoAlias] /\ pc' = [pc EXCEPT ![c] = "aliases"]
            /\ toClose' = toClose
        BY <2>4 DEF ClearAlias, Goto
      <3>2. QED
        BY <1>1, <2>2, <3>1 DEF AtOneAlias, IInv, TypeOK
    <2>5. CASE CloseBegins(c)
      <3>1. /\ alias' = alias /\ pc[c] = "idle" /\ pc' = [pc EXCEPT ![c] = "aliases"]
            /\ toClose' = [toClose EXCEPT ![c] = present]
        BY <2>5 DEF CloseBegins, Goto
      <3>2. QED
        BY <1>1, <2>2, <3>1 DEF AtOneAlias, IInv, TypeOK
    <2>6. CASE DisposeOwn(c) \/ DisposeReturns(c) \/ ScheduleOther(c) \/ ClearAll(c)
      <3>1. alias' = alias /\ toClose' = toClose
        BY <2>6 DEF DisposeOwn, ScheduleOther, DisposeReturns, ClearAll, TakeItem, snapshotVars
      <3>2. pc'[c] \in {"items", "disposing"} => pc[c] \in {"items", "disposing"}
        BY <2>2, <2>6 DEF DisposeOwn, ScheduleOther, DisposeReturns, ClearAll, TakeItem, Goto
      <3>3. pc'[c] \notin {"idle", "aliases"}
        BY <2>2, <2>6 DEF DisposeOwn, ScheduleOther, DisposeReturns, ClearAll, TakeItem, Goto
      <3>4. QED
        BY <1>1, <2>1, <3>1, <3>2, <3>3 DEF AtOneAlias
    <2>7. QED
      BY <1>5, <2>3, <2>4, <2>5, <2>6 DEF EngineStep
  <1>6. QED
    BY <1>2, <1>3, <1>4, <1>5

\* Nobody closes while init_resources runs.
LEMMA InitStepAlone ==
    ASSUME IInv, InitStep
    PROVE  /\ UNCHANGED <<pc, toClose, alias, work, shared, old, sharers, disposed>>
           /\ \A c \in Closers : pc[c] = "idle"
  <1>1. UNCHANGED <<pc, toClose, alias, work, shared, old, sharers, disposed>>
    BY DEF InitStep, InitPgsql, InitRedis, InitRabbitmq, InitMongodb, InitFails,
       InitUnchanged, closeVars, snapshotVars
  <1>2. init \notin {"done", "failed"}
    BY DEF InitStep, InitPgsql, InitRedis, InitRabbitmq, InitMongodb, InitFails
  <1>3. QED
    BY <1>1, <1>2 DEF IInv, EnginesInv, InitFirst

\* The step leaves what closer d has still to do as it is, and where d is.
Undisturbed(d) ==
    /\ pc'[d] = pc[d]
    /\ toClose'[d] = toClose[d]
    /\ alias'[d] = alias[d]
    /\ work'[d] = work[d]
    /\ shared'[d] = shared[d]

BehindOne(d) ==
    shared[d] /\ pc[d] \in AtEngines =>
        \A a \in Aliases \ toClose[d] : CachesRegistered(a) =>
            /\ a = alias[d]
            /\ \/ <<engines[a][MainLoop], MainLoop>> \in disposed
               \/ \E item \in work[d] :
                     item.loop = MainLoop /\ item.engine = engines[a][MainLoop]

LEMMA UndisturbedBehind ==
    ASSUME IInv, Move, ~InitStep, NEW d \in Closers, Undisturbed(d)
    PROVE  BehindOne(d)'
  <1>1. BehindOne(d)
    BY DEF IInv, AccountInv, ClosedBehind, BehindOne
  <1>2. QED
    BY <1>1, RegisteredKept DEF BehindOne, Undisturbed

LEMMA OthersUndisturbed ==
    ASSUME TypeOK, NEW c \in Closers, NEW d \in Closers \ {c}, EngineStep(c), ~ClearAll(c)
    PROVE  Undisturbed(d)
  <1>1. pc'[d] = pc[d]
    BY EngineStepMoves
  <1>2. toClose'[d] = toClose[d] /\ shared'[d] = shared[d]
    BY DEF EngineStep, CloseBegins, CloseAlias, DisposeOwn, ScheduleOther, DisposeReturns,
       ClearAlias, TakeItem, snapshotVars, TypeOK
  <1>3. alias'[d] = alias[d]
    BY DEF EngineStep, CloseBegins, CloseAlias, DisposeOwn, ScheduleOther, DisposeReturns,
       ClearAlias, TakeItem, snapshotVars, TypeOK
  <1>4. work'[d] = work[d]
    BY DEF EngineStep, CloseBegins, CloseAlias, DisposeOwn, ScheduleOther, DisposeReturns,
       ClearAlias, TakeItem, snapshotVars, TypeOK
  <1>5. QED
    BY <1>1, <1>2, <1>3, <1>4 DEF Undisturbed

LEMMA ClosedBehindStep == ASSUME IInv, Move PROVE ClosedBehind'
  <1>1. ClosedBehind /\ AtOneAlias
    BY DEF IInv, AccountInv
  <1>2. SUFFICES ASSUME NEW d \in Closers PROVE BehindOne(d)'
    BY DEF ClosedBehind, BehindOne
  <1>3. CASE InitStep
    BY <1>3, InitStepAlone DEF BehindOne, AtEngines
  <1>4. ASSUME NEW l \in Loops, LoopStep(l), ~InitStep PROVE BehindOne(d)'
    <2>1. UNCHANGED closeVars
      BY <1>4 DEF LoopStep, GetCached, GetNew, EndSession, LoopStarts, LoopCloses,
         SessionUnchanged
    <2>2. Undisturbed(d)
      BY <2>1 DEF closeVars, snapshotVars, Undisturbed
    <2>3. QED
      BY <1>4, <2>2, UndisturbedBehind
  <1>5. ASSUME NEW c \in Closers, ClientStep(c), ~InitStep PROVE BehindOne(d)'
    <2>1. CASE c = d
      BY <1>5, <2>1, ClientStepMoves DEF IInv, BehindOne
    <2>2. CASE c # d
      <3>1. Undisturbed(d)
        BY <1>5, <2>2, ClientStepMoves DEF IInv, snapshotVars, Undisturbed
      <3>2. QED
        BY <1>5, <3>1, UndisturbedBehind
    <2>3. QED
      BY <2>1, <2>2
  <1>6. ASSUME NEW c \in Closers, EngineStep(c), ~InitStep PROVE BehindOne(d)'
    <2> USE <1>6
    <2>1. CASE ClearAll(c)
      BY <2>1 DEF ClearAll, BehindOne
    <2>2. CASE c # d /\ ~ClearAll(c)
      <3>1. Undisturbed(d)
        BY <2>2, OthersUndisturbed DEF IInv
      <3>2. QED
        BY <2>2, <3>1, UndisturbedBehind
    <2>3. CASE c = d /\ CloseBegins(d)
      <3>1. toClose'[d] = present /\ engines' = engines
        BY <2>3 DEF CloseBegins, IInv, TypeOK
      <3>2. ASSUME NEW a \in Aliases, CachesRegistered(a)' PROVE a \in present
        <4>1. engines[a][MainLoop] \in registered
          BY <3>1, <3>2, RegisteredKept DEF CachesRegistered
        <4>2. engines[a][MainLoop] # NoEngine
          BY <4>1 DEF IInv, TypeOK, Engines, NoEngine
        <4>3. QED
          BY <4>2, ResourcesAssumption DEF IInv, EnginesInv, InitFirst, Cached
      <3>3. QED
        BY <3>1, <3>2 DEF BehindOne
    <2>4. CASE c = d /\ CloseAlias(d)
      <3>1. PICK b \in toClose[d] : /\ toClose' = [toClose EXCEPT ![d] = @ \ {b}]
                                    /\ alias' = [alias EXCEPT ![d] = b]
                                    /\ work' = [work EXCEPT ![d] = Items(d, b)]
        BY <2>4, AliasTaken
      <3>2. /\ pc[d] = "aliases" /\ engines' = engines /\ disposed' = disposed
            /\ shared' = shared
        BY <2>4 DEF CloseAlias
      <3> HIDE DEF Items
      <3>3. /\ toClose'[d] = toClose[d] \ {b} /\ alias'[d] = b /\ work'[d] = Items(d, b)
            /\ b \in Aliases
        BY <3>1 DEF IInv, TypeOK
      <3>4. registered' = registered
        BY RegisteredKept
      <3>5. ASSUME shared[d], NEW a \in Aliases \ toClose'[d], engines[a][MainLoop] \in registered
            PROVE  /\ a = b
                   /\ \E item \in Items(d, b) :
                         item.loop = MainLoop /\ item.engine = engines[a][MainLoop]
        <4>1. a = b
          <5>1. a \in Aliases \ toClose[d] => FALSE
            <6>1. alias[d] = NoAlias /\ NoAlias \notin Aliases
              BY <1>1, <3>2, ResourcesAssumption DEF AtOneAlias
            <6>2. QED
              BY <1>1, <3>2, <3>5, <6>1 DEF ClosedBehind, CachesRegistered, AtEngines
          <5>2. QED
            BY <3>3, <3>5, <5>1
        <4>2. Dicts(d) = engines
          BY <3>5 DEF Dicts
        <4>3. engines[b][MainLoop] # NoEngine
          BY <3>5, <4>1 DEF IInv, TypeOK, Engines, NoEngine
        <4> DEFINE i == [engine |-> engines[b][MainLoop], loop |-> MainLoop,
                         known |-> <<b, MainLoop>> \in loopRefs]
        <4>4. i \in Items(d, b)
          BY <4>2, <4>3, ResourcesAssumption DEF Items
        <4>5. i.loop = MainLoop /\ i.engine = engines[b][MainLoop]
          OBVIOUS
        <4>6. QED
          BY <4>1, <4>4, <4>5
      <3>6. QED
        BY <3>2, <3>3, <3>4, <3>5 DEF BehindOne, CachesRegistered
    <2>5. CASE c = d /\ ClearAlias(d)
      <3>1. /\ pc[d] = "items" /\ toClose' = toClose /\ shared' = shared
            /\ shared[d] => engines' = [engines EXCEPT ![alias[d]] = [l \in Loops |-> NoEngine]]
        BY <2>5 DEF ClearAlias
      <3>2. ASSUME shared[d], NEW a \in Aliases \ toClose[d], CachesRegistered(a)' PROVE FALSE
        <4>1. CachesRegistered(a) /\ engines'[a][MainLoop] \in registered
          BY <3>2, RegisteredKept DEF CachesRegistered
        <4>2. a = alias[d]
          BY <1>1, <3>1, <3>2, <4>1 DEF ClosedBehind, AtEngines
        <4>3. engines'[a][MainLoop] = NoEngine
          BY <3>1, <3>2, <4>2, ResourcesAssumption DEF IInv, TypeOK, Cache
        <4>4. QED
          BY <4>1, <4>3 DEF IInv, TypeOK, Engines, NoEngine
      <3>3. QED
        BY <3>1, <3>2 DEF BehindOne
    <2>6. CASE c = d /\ DisposeOwn(d)
      <3>1. PICK i \in work[d] : /\ i.loop = MainLoop
                                 /\ work' = [work EXCEPT ![d] = @ \ {i}]
                                 /\ disposed' = disposed \cup {<<i.engine, MainLoop>>}
        BY <2>6 DEF DisposeOwn, TakeItem, Dispose
      <3>2. UNCHANGED <<engines, toClose, alias, shared>> /\ pc[d] \in AtEngines
        BY <2>6 DEF DisposeOwn, TakeItem, AtEngines
      <3>3. work'[d] = work[d] \ {i}
        BY <3>1 DEF IInv, TypeOK
      <3>4. QED
        BY <1>1, <3>1, <3>2, <3>3, RegisteredKept DEF ClosedBehind, BehindOne, CachesRegistered
    <2>7. CASE c = d /\ ScheduleOther(d)
      <3>1. PICK i \in work[d] : /\ i.loop # MainLoop
                                 /\ work' = [work EXCEPT ![d] = @ \ {i}]
        BY <2>7 DEF ScheduleOther, TakeItem
      <3>2. UNCHANGED <<engines, toClose, alias, shared, pc>>
        BY <2>7 DEF ScheduleOther, TakeItem
      <3>3. work'[d] = work[d] \ {i}
        BY <3>1 DEF IInv, TypeOK
      <3>4. QED
        BY <1>1, <3>1, <3>2, <3>3, RegisteredKept DEF ClosedBehind, BehindOne, CachesRegistered
    <2>8. CASE c = d /\ DisposeReturns(d)
      <3>1. UNCHANGED <<engines, disposed, snapshotVars>> /\ pc[d] \in AtEngines
        BY <2>8 DEF DisposeReturns, AtEngines
      <3>2. QED
        BY <1>1, <3>1, RegisteredKept DEF ClosedBehind, BehindOne, snapshotVars
    <2>9. QED
      BY <2>1, <2>2, <2>3, <2>4, <2>5, <2>6, <2>7, <2>8 DEF EngineStep
  <1>7. QED
    BY <1>3, <1>4, <1>5, <1>6

\* What ClearAll throws away holds no engine of init_resources.
LEMMA NothingToClear ==
    ASSUME IInv, NEW c \in Closers, ClearAll(c), NEW a \in Aliases
    PROVE  ~CachesRegistered(a)
  <1>1. pc[c] = "aliases" /\ toClose[c] = {}
    BY DEF ClearAll
  <1>2. alias[c] = NoAlias /\ NoAlias \notin Aliases
    BY <1>1, ResourcesAssumption DEF IInv, AccountInv, AtOneAlias
  <1>3. CASE shared[c]
    BY <1>1, <1>2, <1>3 DEF IInv, AccountInv, ClosedBehind, AtEngines
  <1>4. CASE ~shared[c]
    BY <1>1, <1>4 DEF IInv, AccountInv, ClearedByAnother
  <1>5. QED
    BY <1>3, <1>4

LEMMA ClearedByAnotherStep == ASSUME IInv, Move PROVE ClearedByAnother'
  <1>1. ClearedByAnother
    BY DEF IInv, AccountInv
  <1>2. CASE InitStep
    BY <1>2, InitStepAlone DEF ClearedByAnother
  <1>3. CASE ~InitStep
    <2>1. ASSUME NEW c \in Closers, ClearAll(c) PROVE ClearedByAnother'
      BY <1>3, <2>1, NothingToClear, RegisteredKept DEF ClearedByAnother
    <2>2. ASSUME NEW d \in Closers, pc'[d] # "idle", ~shared'[d], ~\E c \in Closers : ClearAll(c)
          PROVE  pc[d] # "idle" /\ ~shared[d]
      <3>1. ASSUME NEW l \in Loops, LoopStep(l) PROVE UNCHANGED <<pc, shared>>
        BY <3>1 DEF LoopStep, GetCached, GetNew, EndSession, LoopStarts, LoopCloses,
           SessionUnchanged, closeVars, snapshotVars
      <3>2. ASSUME NEW c \in Closers, ClientStep(c)
            PROVE  shared' = shared /\ (pc'[d] # "idle" => pc[d] # "idle")
        BY <3>2, ClientStepMoves DEF IInv, snapshotVars
      <3>3. ASSUME NEW c \in Closers, CloseBegins(c) PROVE c # d /\ Undisturbed(d)
        <4>1. c # d
          BY <2>2, <3>3 DEF CloseBegins, IInv, TypeOK
        <4>2. ~ClearAll(c) /\ EngineStep(c)
          BY <2>2, <3>3 DEF EngineStep
        <4>3. QED
          BY <4>1, <4>2, OthersUndisturbed DEF IInv
      <3>4. ASSUME NEW c \in Closers, EngineStep(c), ~ClearAll(c), ~CloseBegins(c)
            PROVE  shared' = shared /\ (pc'[d] # "idle" => pc[d] # "idle")
        <4>1. shared' = shared
          BY <3>4 DEF EngineStep, CloseAlias, DisposeOwn, ScheduleOther,
             DisposeReturns, ClearAlias, TakeItem, snapshotVars
        <4>2. pc[c] # "idle"
          BY <3>4 DEF EngineStep, CloseAlias, DisposeOwn, ScheduleOther,
             DisposeReturns, ClearAlias, TakeItem
        <4>3. QED
          BY <3>4, <4>1, <4>2, EngineStepMoves DEF IInv
      <3>5. QED
        BY <1>3, <2>2, <3>1, <3>2, <3>3, <3>4 DEF Undisturbed
    <2>3. QED
      BY <1>1, <1>3, <2>1, <2>2, RegisteredKept DEF ClearedByAnother
  <1>4. QED
    BY <1>2, <1>3

LEMMA AccountedStep == ASSUME IInv, Move PROVE RegisteredAccountedFor'
  <1>1. RegisteredAccountedFor
    BY DEF IInv, AccountInv
  <1>2. CASE InitStep
    <2>1. ASSUME NEW b \in Aliases, InitPgsql(b) PROVE RegisteredAccountedFor'
      <3>1. engines' = [engines EXCEPT ![b][MainLoop] = Len(home')] /\ disposed' = disposed
            /\ registered' = registered \cup {Len(home')}
        BY <2>1 DEF InitPgsql, InitUnchanged
      <3>2. engines'[b][MainLoop] = Len(home')
        BY <3>1, ResourcesAssumption DEF IInv, TypeOK, Cache
      <3>3. engines[b][MainLoop] = NoEngine
        BY <2>1, ResourcesAssumption DEF InitPgsql, IInv, EnginesInv, InitFirst, Cached
      <3>4. \A a \in Aliases \ {b} : engines'[a][MainLoop] = engines[a][MainLoop]
        BY <3>1 DEF IInv, TypeOK, Cache
      <3>5. NoEngine \notin registered
        BY DEF NoEngine, IInv, TypeOK, Engines
      <3>6. QED
        BY <1>1, <3>1, <3>2, <3>3, <3>4, <3>5 DEF RegisteredAccountedFor
    <2>2. CASE InitRedis \/ InitRabbitmq \/ InitMongodb \/ InitFails
      BY <1>1, <2>2 DEF InitRedis, InitRabbitmq, InitMongodb, InitFails, InitUnchanged,
         RegisteredAccountedFor
    <2>3. QED
      BY <1>2, <2>1, <2>2 DEF InitStep
  <1>3. ASSUME ~InitStep, NEW e \in registered, <<e, MainLoop>> \notin disposed',
               NEW a \in Aliases, engines[a][MainLoop] = e
        PROVE  engines'[a][MainLoop] = e
    <2>1. CachesRegistered(a) /\ <<a, MainLoop>> \in loopRefs /\ e # NoEngine
      BY <1>3 DEF IInv, AccountInv, OnRecord, CachesRegistered, TypeOK, Engines, NoEngine
    <2>2. ASSUME NEW l \in Loops, NEW b \in Aliases, GetNew(l, b) PROVE engines'[a][MainLoop] = e
      <3>1. a = b => l = MainLoop
        <4>1. SUFFICES ASSUME a = b, l # MainLoop PROVE <<e, MainLoop>> \in disposed'
          BY <1>3
        <4>2. MainLoop \in Others(a, l)
          BY <1>3, <2>1, <4>1, ResourcesAssumption DEF Others, Cached
        <4>3. Running(MainLoop)
          BY DEF IInv, EnginesInv, InitFirst
        <4>4. QED
          BY <1>3, <2>1, <2>2, <4>1, <4>2, <4>3 DEF GetNew
      <3>2. a # b
        BY <1>3, <2>1, <2>2, <3>1 DEF GetNew, Cached
      <3>3. QED
        BY <1>3, <2>2, <3>2 DEF GetNew, IInv, TypeOK, Cache
    <2>3. ASSUME NEW c \in Closers, ClearAlias(c) PROVE engines'[a][MainLoop] = e
      <3>1. CASE a # alias[c] \/ ~shared[c]
        BY <1>3, <2>3, <3>1 DEF ClearAlias, IInv, TypeOK, Cache
      <3>2. CASE a = alias[c] /\ shared[c]
        <4>1. a \notin toClose[c]
          BY <2>3, <3>2 DEF ClearAlias, IInv, AccountInv, AtOneAlias
        <4>2. <<e, MainLoop>> \in disposed
          BY <1>3, <2>1, <2>3, <3>2, <4>1 DEF ClearAlias, IInv, AccountInv, ClosedBehind, AtEngines
        <4>3. QED
          BY <1>3, <4>2, RegisteredKept
      <3>3. QED
        BY <3>1, <3>2
    <2>4. ASSUME NEW c \in Closers, ClearAll(c) PROVE FALSE
      BY <2>1, <2>4, NothingToClear
    <2>5. ASSUME NEW l \in Loops, LoopStep(l)
          PROVE  engines' = engines \/ \E b \in Aliases : GetNew(l, b)
      BY <2>5 DEF LoopStep, GetCached, EndSession, LoopStarts, LoopCloses, engineVars
    <2>6. ASSUME NEW c \in Closers, EngineStep(c), ~ClearAlias(c), ~ClearAll(c)
          PROVE  engines' = engines
      BY <2>6 DEF EngineStep, CloseBegins, CloseAlias, DisposeOwn, ScheduleOther,
         DisposeReturns, TakeItem
    <2>7. ASSUME NEW c \in Closers, ClientStep(c) PROVE engines' = engines
      BY <2>7, ClientStepMoves DEF IInv, engineVars
    <2>8. QED
      BY <1>3, <2>2, <2>3, <2>4, <2>5, <2>6, <2>7
  <1>4. QED
    BY <1>1, <1>2, <1>3, RegisteredKept DEF RegisteredAccountedFor

LEMMA AccountStep == ASSUME IInv, Move PROVE AccountInv'
  BY OnRecordStep, AtOneAliasStep, ClosedBehindStep, ClearedByAnotherStep, AccountedStep
  DEF AccountInv

-----------------------------------------------------------------------------
(* The clients                                                              *)

\* Nobody gets past a client that stays set, but for a connection that says it
\* is closed.
LEMMA ClientStepLeaves ==
    ASSUME TypeOK, NEW c \in Closers, ClientStep(c), NEW x \in open', Reached(c)' \in After(x)
    PROVE  Reached(c) \in After(x) \/ (x = "rabbitmq" /\ mqClosed)
  <1>1. x \in {"redis", "rabbitmq", "mongodb", "celery"}
    BY ClientStepMoves DEF TypeOK
  <1>2. pc \in [Closers -> Labels] /\ failedAt \in [Closers -> Awaits \cup {"none"}]
    BY DEF TypeOK
  <1>3. 1 .. 3 = {1, 2, 3} /\ 1 + 1 = 2 /\ 2 + 1 = 3 /\ 3 + 1 = 4
    OBVIOUS
  <1>4. CASE CloseClient(c)
    <2>1. PICK i \in 1 .. 3 : pc[c] = AtLabel(i) /\ pc' = [pc EXCEPT ![c] = Clients[i]]
      BY <1>4 DEF CloseClient, AtClient, Goto
    <2>2. \/ pc[c] = "at_redis" /\ pc'[c] = "redis"
          \/ pc[c] = "at_rabbitmq" /\ pc'[c] = "rabbitmq"
          \/ pc[c] = "at_mongodb" /\ pc'[c] = "mongodb"
      BY <1>2, <1>3, <2>1, Places
    <2>3. QED
      BY <1>1, <2>2 DEF After, Reached
  <1>5. CASE PassClient(c)
    <2>1. PICK i \in 1 .. 3 : /\ pc[c] = AtLabel(i) /\ pc' = [pc EXCEPT ![c] = AtLabel(i + 1)]
                              /\ open' = open
                              /\ Clients[i] \notin open \/ SaysClosed(i)
      BY <1>5 DEF PassClient, AtClient, Goto
    <2>2. \/ pc[c] = "at_redis" /\ pc'[c] = "at_rabbitmq" /\ "redis" \notin open
          \/ /\ pc[c] = "at_rabbitmq" /\ pc'[c] = "at_mongodb"
             /\ "rabbitmq" \notin open \/ mqClosed
          \/ pc[c] = "at_mongodb" /\ pc'[c] = "at_celery" /\ "mongodb" \notin open
      BY <1>2, <1>3, <2>1, Places DEF SaysClosed
    <2>3. QED
      BY <1>1, <2>1, <2>2 DEF After, Reached
  <1>6. CASE ClientCloses(c)
    <2>1. PICK i \in 1 .. 3 : /\ pc[c] = Clients[i] /\ pc' = [pc EXCEPT ![c] = AtLabel(i + 1)]
                              /\ Clients[i] \notin open'
      BY <1>6 DEF ClientCloses, ClientAwaited, Goto
    <2>2. \/ pc[c] = "redis" /\ pc'[c] = "at_rabbitmq" /\ "redis" \notin open'
          \/ pc[c] = "rabbitmq" /\ pc'[c] = "at_mongodb" /\ "rabbitmq" \notin open'
          \/ pc[c] = "mongodb" /\ pc'[c] = "at_celery" /\ "mongodb" \notin open'
      BY <1>2, <1>3, <2>1, Places
    <2>3. QED
      BY <1>1, <2>2 DEF After, Reached
  <1>7. CASE CloseCelery(c)
    <2>1. pc[c] = "at_celery" /\ pc'[c] = "done" /\ "celery" \notin open'
      BY <1>2, <1>7 DEF CloseCelery, Goto
    <2>2. QED
      BY <1>1, <2>1 DEF After, Reached
  <1>8. CASE CloseFails(c)
    <2>1. pc[c] \in Awaits /\ pc'[c] = "failed" /\ failedAt'[c] = pc[c]
      BY <1>2, <1>8 DEF CloseFails, Goto
    <2>2. pc[c] # "failed"
      BY <2>1, Places
    <2>3. QED
      BY <2>1, <2>2 DEF Reached
  <1>9. QED
    BY <1>4, <1>5, <1>6, <1>7, <1>8 DEF ClientStep

LEMMA NoneLeftStep == ASSUME IInv, Move PROVE NoneLeftBehind'
  <1>1. NoneLeftBehind /\ TypeOK
    BY DEF IInv
  <1>2. \A x \in {"redis", "rabbitmq", "mongodb", "celery"} :
           After(x) \cap (AtEngines \cup {"idle", "at_redis"}) = {}
    BY DEF After, AtEngines
  <1>3. CASE InitStep
    <2>1. open' \subseteq {"redis", "rabbitmq", "mongodb", "celery"}
      BY TypeStep DEF TypeOK
    <2>2. \A c \in Closers : pc'[c] = "idle"
      BY <1>3, InitStepAlone
    <2>3. QED
      BY <1>2, <2>1, <2>2 DEF NoneLeftBehind, Reached
  <1>4. ASSUME NEW l \in Loops, LoopStep(l) PROVE NoneLeftBehind'
    BY <1>1, <1>4 DEF LoopStep, GetCached, GetNew, EndSession, LoopStarts, LoopCloses,
       SessionUnchanged, closeVars, NoneLeftBehind, Reached
  <1>5. ASSUME NEW c \in Closers, EngineStep(c) PROVE NoneLeftBehind'
    <2>1. /\ open' = open /\ open \subseteq {"redis", "rabbitmq", "mongodb", "celery"}
          /\ UNCHANGED <<mqClosed, failedAt>>
          /\ \A d \in Closers \ {c} : pc'[d] = pc[d]
          /\ pc'[c] \in AtEngines \cup {"at_redis"} /\ pc'[c] # "failed"
      BY <1>5, EngineStepMoves DEF IInv, TypeOK, AtEngines
    <2>2. Reached(c)' \in AtEngines \cup {"at_redis"}
      BY <2>1 DEF Reached
    <2>3. \A d \in Closers \ {c} : Reached(d)' = Reached(d)
      BY <2>1 DEF Reached
    <2>4. QED
      BY <1>1, <1>2, <2>1, <2>2, <2>3 DEF NoneLeftBehind
  <1>6. ASSUME NEW c \in Closers, ClientStep(c) PROVE NoneLeftBehind'
    <2>1. /\ open' \subseteq open /\ mqClosed' = mqClosed
          /\ \A d \in Closers \ {c} : pc'[d] = pc[d] /\ failedAt'[d] = failedAt[d]
      BY <1>6, ClientStepMoves DEF IInv
    <2>2. ASSUME NEW d \in Closers, NEW x \in open', Reached(d)' \in After(x)
          PROVE  x = "rabbitmq" /\ mqClosed
      <3>1. CASE d = c
        BY <1>1, <1>6, <2>1, <2>2, <3>1, ClientStepLeaves DEF NoneLeftBehind
      <3>2. CASE d # c
        <4>1. Reached(d)' = Reached(d)
          BY <2>1, <3>2 DEF Reached
        <4>2. QED
          BY <1>1, <2>1, <2>2, <4>1 DEF NoneLeftBehind
      <3>3. QED
        BY <3>1, <3>2
    <2>3. QED
      BY <2>1, <2>2 DEF NoneLeftBehind
  <1>7. QED
    BY <1>3, <1>4, <1>5, <1>6

-----------------------------------------------------------------------------

LEMMA InitInv == Init => IInv
  <1> SUFFICES ASSUME Init PROVE IInv
    OBVIOUS
  <1> USE ResourcesAssumption
  <1>1. Engines = {} /\ home = <<>> /\ Len(home) = 0
    BY DEF Init, Engines
  <1>2. NoEngines \in Cache /\ \A a \in Aliases, l \in Loops : NoEngines[a][l] = NoEngine
    <2>1. 0 \in 0 .. MaxEngines
      OBVIOUS
    <2>2. QED
      BY <2>1 DEF NoEngines, NoEngine, Cache
  <1>3. TypeOK
    <2>1. NoEngine \in 0 .. MaxEngines
      BY DEF NoEngine
    <2>2. configured \subseteq {"redis", "rabbitmq", "mongodb", "celery"}
      BY DEF Init, FromConf
    <2>3. failedAt \in [Closers -> Awaits \cup {"none"}] /\ mqClosed \in BOOLEAN
      BY DEF Init
    <2>4. QED
      BY <1>1, <1>2, <2>1, <2>2, <2>3 DEF Init, FromConf, TypeOK, Labels
  <1>4. EnginesInv
    BY <1>2 DEF Init, EnginesInv, KeptAtHome, AtHome, DisposedAtHome, SessionOnOwnLoop,
       InitFirst, Cached, Running
  <1>5. AccountInv
    BY <1>2 DEF Init, AccountInv, OnRecord, CachesRegistered, AtOneAlias, ClosedBehind,
       ClearedByAnother, RegisteredAccountedFor
  <1>6. NoneLeftBehind
    BY DEF Init, NoneLeftBehind
  <1>7. QED
    BY <1>3, <1>4, <1>5, <1>6 DEF IInv

LEMMA InvStep == IInv /\ [Next]_vars => IInv'
  <1> SUFFICES ASSUME IInv, [Next]_vars PROVE IInv'
    OBVIOUS
  <1>1. CASE Move
    BY <1>1, TypeStep, EnginesStep, AccountStep, NoneLeftStep DEF IInv
  <1>2. CASE ConnectionCloses \/ UNCHANGED vars
    <2>1. UNCHANGED <<params, engines, present, loopRefs, home, registered, disposed, configured,
                      toInit, init, pc, failedAt, toClose, alias, work, shared, old, sharers,
                      loopState, session, open>>
      BY <1>2 DEF ConnectionCloses, vars, engineVars, initVars, closeVars, snapshotVars
    <2>2. mqClosed' \in {mqClosed, TRUE}
      BY <1>2 DEF ConnectionCloses, vars, closeVars
    <2>3. TypeOK'
      BY <2>1, <2>2 DEF IInv, TypeOK, Engines, Cache
    <2>4. EnginesInv'
      BY <2>1 DEF IInv, EnginesInv, KeptAtHome, AtHome, Engines, DisposedAtHome,
         SessionOnOwnLoop, InitFirst, Cached, Running
    <2>5. AccountInv'
      BY <2>1 DEF IInv, AccountInv, OnRecord, CachesRegistered, AtOneAlias, ClosedBehind,
         ClearedByAnother, RegisteredAccountedFor
    <2>6. NoneLeftBehind'
      <3>1. \A c \in Closers : Reached(c)' = Reached(c)
        BY <2>1 DEF Reached
      <3>2. CASE mqClosed' = mqClosed
        BY <2>1, <3>1, <3>2 DEF IInv, NoneLeftBehind
      <3>3. CASE mqClosed' = TRUE
        BY <2>1, <3>1, <3>3 DEF IInv, NoneLeftBehind
      <3>4. QED
        BY <2>2, <3>2, <3>3
    <2>7. QED
      BY <2>3, <2>4, <2>5, <2>6 DEF IInv
  <1>3. QED
    BY <1>1, <1>2, Steps

THEOREM Invariant == Spec => []IInv
  BY InitInv, InvStep, PTL DEF Spec

\* The variables keep their types, and no more engines are created than the
\* bound allows.
THEOREM TypeCorrect == Spec => []TypeOK
  BY Invariant, PTL DEF IInv

\* ResourceManager disposes an engine on the loop it was created on and on no
\* other, for any number of loops and of racing executions of close_resources.
THEOREM DisposedOnOwnLoop == Spec => []DisposedAtHome
  <1>1. IInv => DisposedAtHome
    BY DEF IInv, EnginesInv
  <1>2. QED
    BY <1>1, Invariant, PTL

\* pg_session never uses an engine of another loop.
THEOREM SessionsOnOwnLoop == Spec => []SessionOnOwnLoop
  <1>1. IInv => SessionOnOwnLoop
    BY DEF IInv, EnginesInv
  <1>2. QED
    BY <1>1, Invariant, PTL

\* Neither a request from another loop nor a close that races with another one
\* or fails loses an engine of init_resources without disposing it.
THEOREM NoEngineLost == Spec => []RegisteredAccountedFor
  <1>1. IInv => RegisteredAccountedFor
    BY DEF IInv, AccountInv
  <1>2. QED
    BY <1>1, Invariant, PTL

\* close_resources leaves nothing set behind the client it is at, it raised at
\* or behind all of them, whatever other executions of it do meanwhile; but for
\* a RabbitMQ connection that says it is closed.
THEOREM ClientsClosed == Spec => []NoneLeftBehind
  <1>1. IInv => NoneLeftBehind
    BY DEF IInv
  <1>2. QED
    BY <1>1, Invariant, PTL
=============================================================================
