------------------------- MODULE ConfigProxyProofs --------------------------
(***************************************************************************)
(* Proofs about ConfigProxy for any finite set of threads, any keys,       *)
(* classes, updates and dicts, and any number of calls.                    *)
(*                                                                         *)
(* The section a thread is in is read off its label (Section).  With it    *)
(* every step of the proxy is a step of RWThreads, whose invariant then    *)
(* holds here too: LockSimulated is where the two modules are composed,    *)
(* and what is left to prove is what the labels, the frames and the cache  *)
(* have to do with each other.                                             *)
(***************************************************************************)
EXTENDS ConfigProxy, TLAPS

Rebuilds == {"reset", "switch"}

Reading == {"read", "unlock_read", "unlock_missed"}

Writing == {"fill", "unlock_fill", "write_back", "unlock_write_back", "update",
            "unlock_update", "rebuild", "unlock_rebuild"}

\* The section of a thread at label l of operation op.  A rebuild tests and
\* fills the cache again under the write lock it has.
SectionAt(l, op) ==
    IF l \in Reading THEN "read"
    ELSE IF l \in Writing \/ (op \in Rebuilds /\ l \in {"check", "lock_fill"})
      THEN "write" ELSE "none"

Section == [t \in Threads |-> SectionAt(pc[t], Op(t))]

\* The nested write section of a rebuild is the only one.
DepthAt(l, op) == IF op \in Rebuilds /\ l \in {"fill", "unlock_fill"} THEN 2 ELSE 1

Lock == INSTANCE RWThreadsProofs WITH holds <- Section, MaxDepth <- 2

-----------------------------------------------------------------------------

\* Which operations can be at which label.
FitsAt(l, op) ==
    /\ l = "idle" <=> op = "none"
    /\ l \in {"lock_read", "read", "unlock_read"} => op \in {"get", "snapshot"}
    /\ l \in {"unlock_missed", "hasattr", "getattr", "lock_write_back",
              "write_back", "unlock_write_back"} => op = "get"
    /\ l \in {"lock_update", "update", "unlock_update"} => op = "update"
    /\ l \in {"lock_rebuild", "rebuild", "unlock_rebuild"} =>
         op \in Rebuilds \cup {"load"}

FramesFit == \A t \in Threads : FitsAt(pc[t], Op(t))

DepthFits ==
    \A t \in Threads : Section[t] = "write" => writeDepth = DepthAt(pc[t], Op(t))

\* Past _ensure_cache_initialized the cache is filled, or a rebuild that has
\* the write lock is about to fill it again.
Refilling(t) == Op(t) \in Rebuilds /\ pc[t] \in {"check", "lock_fill", "fill"}

Ensured == Labels \ {"idle", "check", "lock_fill", "fill", "lock_rebuild", "rebuild"}

FilledOnceEnsured ==
    (\E t \in Threads : pc[t] \in Ensured) =>
        cacheInitialized \/ \E u \in Threads : Refilling(u)

EmptyUntilFilled == ~cacheInitialized => cache = Empty

\* CacheAgreesWithClass, whoever writes: every critical section that changes
\* the cache or the class leaves them in agreement.
AlwaysAgrees ==
    \A k \in Present(cache) \ writtenBack : cache[k] = attrs[activeClass][k]

ConfigTyped ==
    /\ activeClass \in Classes
    /\ attrs \in [Classes -> [Keys -> MaybeValue]]
    /\ cache \in [Keys -> MaybeValue]
    /\ cacheInitialized \in BOOLEAN
    /\ writtenBack \in SUBSET Keys

FramesTyped ==
    /\ pc \in [Threads -> Labels]
    /\ call \in [Threads -> Calls \cup {NoCall}]
    /\ found \in [Threads -> MaybeValue]
    /\ callsMade \in [Threads -> 0 .. MaxOps]

FrameInv == FramesTyped /\ FramesFit

CacheInv == FilledOnceEnsured /\ EmptyUntilFilled /\ AlwaysAgrees

IInv == Lock!IInv /\ FrameInv /\ DepthFits /\ ConfigTyped /\ CacheInv

-----------------------------------------------------------------------------
(* The lock                                                                 *)

LEMMA ThreadsFinite == Lock!IsFiniteSet(Threads)
BY ThreadsAssumption DEF IsFiniteSet, Lock!IsFiniteSet

\* What the invariant of RWThreads says of the sections.
LEMMA LockFacts ==
    ASSUME Lock!IInv
    PROVE  /\ LockTypeOK
           /\ \A t \in Threads : Section[t] = "write" <=> writerThread = t
           /\ writeDepth = 0 <=> writerThread = NoThread
           /\ \A t \in Threads : Section[t] # "none" => waitsFor[t] = "none"
           /\ writerThread # NoThread => numReaders = 0
           /\ numReaders > 0 => \E t \in Threads : Section[t] = "read"
<1>1. /\ Lock!TypeOK /\ Lock!CountsMatch /\ Lock!OneThing /\ Lock!Apart
  BY DEF Lock!IInv
<1>2. numReaders > 0 => \E t \in Threads : Section[t] = "read"
  BY <1>1, Lock!SomeReader, NoThreadAssumption, ThreadsFinite
<1>3. LockTypeOK
  BY <1>1 DEF Lock!TypeOK, Lock!LockTypeOK, LockTypeOK
<1> QED
  BY <1>1, <1>2, <1>3 DEF Lock!CountsMatch, Lock!OneThing, Lock!Apart

\* A step of the lock as RWThreads has it keeps the invariant of RWThreads.
LEMMA LockInvKept == Lock!IInv /\ [Lock!Next]_(Lock!vars) => Lock!IInv'
BY Lock!StepIInv, NoThreadAssumption, ThreadsFinite

-----------------------------------------------------------------------------
(* Labels and frames                                                        *)

\* The argument a call has depends on its operation.
LEMMA CallArguments ==
    ASSUME NEW c \in Calls \cup {NoCall}
    PROVE  /\ c.op \in {"get", "snapshot", "update", "load", "reset", "switch", "none"}
           /\ c \in Calls => c.op # "none"
           /\ c.op = "get" => c.key \in Keys
           /\ c.op \in {"update", "load"} => c.batch \in [Keys -> MaybeValue]
           /\ c.op = "switch" => c.cls \in Classes
BY ConfigAssumption DEF Calls, NoCall

\* A thread that goes on to a label its operation can be at.
LEMMA GotoMoves ==
    ASSUME FrameInv, NEW t \in Threads, NEW l \in Labels, Goto(t, l),
           l # "idle" => FitsAt(l, Op(t))
    PROVE  /\ FrameInv'
           /\ Section' = [Section EXCEPT ![t] = SectionAt(l, Op(t))]
           /\ pc'[t] = l
           /\ l # "idle" => call'[t] = call[t]
           /\ \A u \in Threads \ {t} : pc'[u] = pc[u] /\ call'[u] = call[u]
<1>1. /\ pc' = [pc EXCEPT ![t] = l] /\ callsMade' = callsMade
      /\ call' = IF l = "idle" THEN [call EXCEPT ![t] = NoCall] ELSE call
      /\ found' = IF l = "idle" THEN [found EXCEPT ![t] = Absent] ELSE found
  BY DEF Goto
<1>2. FramesTyped'
  BY <1>1 DEF FrameInv, FramesTyped, MaybeValue
<1>3. /\ pc'[t] = l
      /\ l # "idle" => call'[t] = call[t]
      /\ l = "idle" => call'[t] = NoCall
      /\ \A u \in Threads \ {t} : pc'[u] = pc[u] /\ call'[u] = call[u]
  BY <1>1 DEF FrameInv, FramesTyped
<1>4. FramesFit'
  <2>1. ASSUME NEW u \in Threads \ {t} PROVE FitsAt(pc'[u], call'[u].op)
    BY <1>3 DEF FrameInv, FramesFit, Op
  <2>2. FitsAt(pc'[t], call'[t].op)
    BY <1>3 DEF FitsAt, Op, NoCall
  <2> QED
    BY <2>1, <2>2 DEF FramesFit, Op
<1>5. \A u \in Threads \ {t} : SectionAt(pc'[u], call'[u].op) = SectionAt(pc[u], call[u].op)
  BY <1>3
<1>6. SectionAt(pc'[t], call'[t].op) = SectionAt(l, Op(t))
  BY <1>3 DEF SectionAt, Reading, Writing, Op
<1>7. Section' = [Section EXCEPT ![t] = SectionAt(l, Op(t))]
  BY <1>5, <1>6 DEF Section, Op
<1> QED
  BY <1>2, <1>3, <1>4, <1>7 DEF FrameInv

\* A thread that goes on within its section, or outside of any.
LEMMA GoesOnInSection ==
    ASSUME IInv, NEW t \in Threads, NEW l \in Labels, UNCHANGED lockVars,
           Section' = [Section EXCEPT ![t] = SectionAt(l, Op(t))],
           pc'[t] = l, l # "idle" => call'[t] = call[t],
           \A u \in Threads \ {t} : pc'[u] = pc[u] /\ call'[u] = call[u],
           SectionAt(l, Op(t)) = SectionAt(pc[t], Op(t)),
           SectionAt(l, Op(t)) = "write" => DepthAt(l, Op(t)) = DepthAt(pc[t], Op(t))
    PROVE  UNCHANGED Lock!vars /\ DepthFits'
<1>1. Section' = Section
  BY DEF Section
<1>2. DepthFits'
  <2> SUFFICES ASSUME NEW u \in Threads, Section'[u] = "write"
               PROVE  writeDepth' = DepthAt(pc'[u], call'[u].op)
    BY DEF DepthFits, Op
  <2>1. writeDepth' = writeDepth /\ writeDepth = DepthAt(pc[u], call[u].op)
    BY <1>1 DEF IInv, DepthFits, lockVars, Op
  <2>2. CASE u # t
    BY <2>1, <2>2
  <2>3. CASE u = t
    <3>1. SectionAt(l, Op(t)) = "write" /\ l # "idle"
      BY <2>3 DEF Section, SectionAt, Reading, Writing
    <3> QED
      BY <2>1, <2>3, <3>1 DEF Op
  <2> QED
    BY <2>2, <2>3
<1> QED
  BY <1>1, <1>2 DEF Lock!vars, Lock!lockVars, lockVars
-----------------------------------------------------------------------------
(* The lock calls of the proxy are steps of RWThreads                       *)

\* A thread that sleeps, or goes on sleeping, stays where it is.
LEMMA StaysPut ==
    ASSUME IInv, Stay
    PROVE  FrameInv' /\ Section' = Section
BY DEF IInv, FrameInv, FramesTyped, FramesFit, Stay, Section, Op

LEMMA LockWriteSimulates ==
    ASSUME IInv, NEW t \in Threads, NEW l0 \in Labels, NEW l1 \in Labels,
           LockWrite(t, l0, l1), l0 \notin Reading, l1 \in Writing, FitsAt(l1, Op(t)),
           DepthAt(l0, Op(t)) = 1,
           DepthAt(l1, Op(t)) = IF SectionAt(l0, Op(t)) = "write" THEN 2 ELSE 1
    PROVE  Lock!Next /\ DepthFits' /\ FrameInv'
<1> USE LockFacts DEF IInv, LockTypeOK
<1>1. /\ pc[t] = l0 /\ l1 # "idle" /\ SectionAt(l1, Op(t)) = "write"
      /\ Section[t] = SectionAt(l0, Op(t))
      /\ Section[t] \in {"none", "write"}
  BY DEF LockWrite, Section, SectionAt, Reading, Writing
<1>2. CASE waitsFor[t] = "none" /\ ReenterWrite(t) /\ Goto(t, l1)
  <2>1. Section[t] = "write" /\ writeDepth = 1
    BY <1>1, <1>2 DEF ReenterWrite, DepthFits
  <2>2. /\ FrameInv' /\ Section' = [Section EXCEPT ![t] = "write"]
        /\ pc'[t] = l1 /\ call'[t] = call[t]
        /\ \A u \in Threads \ {t} : pc'[u] = pc[u] /\ call'[u] = call[u]
    BY <1>1, <1>2, GotoMoves
  <2>3. Section' = Section
    BY <2>1, <2>2 DEF Section
  <2>4. Lock!NestWrite(t)
    BY <1>2, <2>1, <2>3 DEF Lock!NestWrite, Lock!ReenterWrite, ReenterWrite
  <2>5. DepthFits'
    BY <1>1, <1>2, <2>1, <2>2, <2>3 DEF DepthFits, ReenterWrite, Op
  <2> QED
    BY <2>2, <2>4, <2>5 DEF Lock!Next, Lock!Step
<1>3. CASE /\ waitsFor[t] = "none" /\ TakeWriteAtOnce(t) /\ Goto(t, l1)
  <2>1. Section[t] = "none" /\ \A u \in Threads : Section[u] # "write"
    BY <1>1, <1>3, NoThreadAssumption DEF TakeWriteAtOnce, BecomeWriter, WriteBlocked
  <2>2. /\ FrameInv' /\ Section' = [Section EXCEPT ![t] = "write"]
        /\ pc'[t] = l1 /\ call'[t] = call[t]
    BY <1>1, <1>3, GotoMoves
  <2>3. Lock!AcquireWrite(t)
    BY <1>3, <2>1, <2>2
       DEF Lock!AcquireWrite, Lock!Outside, Lock!TakeWriteAtOnce, Lock!BecomeWriter,
           Lock!WriteBlocked, Lock!Enter, TakeWriteAtOnce, BecomeWriter, WriteBlocked
  <2>4. DepthFits'
    <3>1. \A u \in Threads \ {t} : Section'[u] # "write"
      BY <2>1, <2>2 DEF Section
    <3>2. writeDepth' = 1
      BY <1>3 DEF TakeWriteAtOnce, BecomeWriter
    <3>3. DepthAt(pc'[t], call'[t].op) = 1
      BY <1>1, <2>1, <2>2 DEF Op
    <3> QED
      BY <3>1, <3>2, <3>3 DEF DepthFits, Op
  <2> QED
    BY <2>2, <2>3, <2>4 DEF Lock!Next, Lock!Step
<1>4. CASE waitsFor[t] = "none" /\ AnnounceAndSleep(t) /\ Stay
  <2>1. Section[t] = "none"
    BY <1>1, <1>4 DEF AnnounceAndSleep
  <2>2. FrameInv' /\ Section' = Section
    BY <1>4, StaysPut
  <2>3. Lock!AcquireWrite(t)
    BY <1>4, <2>1, <2>2 DEF Lock!AcquireWrite, Lock!Outside, Lock!AnnounceAndSleep,
                            Lock!WriteBlocked, AnnounceAndSleep, WriteBlocked
  <2>4. DepthFits'
    BY <1>4, <2>2 DEF DepthFits, AnnounceAndSleep, Stay, Op
  <2> QED
    BY <2>2, <2>3, <2>4 DEF Lock!Next, Lock!Step
<1>5. CASE WokenWriter(t) /\ TakeWriteWoken(t) /\ Goto(t, l1)
  <2>1. \A u \in Threads : Section[u] # "write"
    BY <1>1, <1>5, NoThreadAssumption DEF TakeWriteWoken, BecomeWriter, WriteBlocked
  <2>2. /\ FrameInv' /\ Section' = [Section EXCEPT ![t] = "write"]
        /\ pc'[t] = l1 /\ call'[t] = call[t]
    BY <1>1, <1>5, GotoMoves
  <2>3. Lock!ResumeWrite(t)
    BY <1>5, <2>2
       DEF Lock!ResumeWrite, Lock!WokenWriter, Lock!TakeWriteWoken, Lock!BecomeWriter,
           Lock!WriteBlocked, Lock!Enter, WokenWriter, TakeWriteWoken, BecomeWriter,
           WriteBlocked
  <2>4. DepthFits'
    <3>1. \A u \in Threads \ {t} : Section'[u] # "write"
      BY <2>1, <2>2 DEF Section
    <3>2. writeDepth' = 1
      BY <1>5 DEF TakeWriteWoken, BecomeWriter
    <3>3. DepthAt(pc'[t], call'[t].op) = 1
      BY <1>1, <2>1, <2>2 DEF Op
    <3> QED
      BY <3>1, <3>2, <3>3 DEF DepthFits, Op
  <2> QED
    BY <2>2, <2>3, <2>4 DEF Lock!Next, Lock!Step
<1>6. CASE WokenWriter(t) /\ SleepAgainForWrite(t) /\ Stay
  <2>1. FrameInv' /\ Section' = Section
    BY <1>6, StaysPut
  <2>2. Lock!ResumeWrite(t)
    BY <1>6, <2>1 DEF Lock!ResumeWrite, Lock!WokenWriter, Lock!SleepAgainForWrite,
                      Lock!WriteBlocked, WokenWriter, SleepAgainForWrite, WriteBlocked
  <2>3. DepthFits'
    BY <1>6, <2>1 DEF DepthFits, SleepAgainForWrite, Stay, Op
  <2> QED
    BY <2>1, <2>2, <2>3 DEF Lock!Next, Lock!Step
<1> QED
  BY <1>2, <1>3, <1>4, <1>5, <1>6 DEF LockWrite

LEMMA LockReadSimulates ==
    ASSUME IInv, NEW t \in Threads, NEW l0 \in Labels, NEW l1 \in Labels,
           LockRead(t, l0, l1), SectionAt(l0, Op(t)) = "none", l1 \in Reading,
           FitsAt(l1, Op(t))
    PROVE  Lock!Next /\ DepthFits' /\ FrameInv'
<1> USE LockFacts DEF IInv, LockTypeOK
<1>1. /\ pc[t] = l0 /\ l1 # "idle" /\ SectionAt(l1, Op(t)) = "read"
      /\ Section[t] = "none"
  BY DEF LockRead, Section, SectionAt, Reading
<1>2. CASE TakeRead(t) /\ Goto(t, l1)
  <2>1. \A u \in Threads : Section[u] # "write"
    BY <1>2, NoThreadAssumption DEF TakeRead, ReadBlocked
  <2>2. FrameInv' /\ Section' = [Section EXCEPT ![t] = "read"]
    BY <1>1, <1>2, GotoMoves
  <2>3. Lock!AcquireRead(t) \/ Lock!ResumeRead(t)
    BY <1>1, <1>2, <2>2
       DEF LockRead, Lock!AcquireRead, Lock!ResumeRead, Lock!Outside, Lock!WokenReader,
           Lock!TakeRead, Lock!ReadBlocked, Lock!Enter, WokenReader, TakeRead, ReadBlocked
  <2>4. DepthFits'
    BY <2>1, <2>2 DEF DepthFits, Section
  <2> QED
    BY <2>2, <2>3, <2>4 DEF Lock!Next, Lock!Step
<1>3. CASE SleepForRead(t) /\ Stay
  <2>1. FrameInv' /\ Section' = Section
    BY <1>3, StaysPut
  <2>2. Lock!AcquireRead(t) \/ Lock!ResumeRead(t)
    BY <1>1, <1>3, <2>1
       DEF LockRead, Lock!AcquireRead, Lock!ResumeRead, Lock!Outside, Lock!WokenReader,
           Lock!SleepForRead, Lock!ReadBlocked, WokenReader, SleepForRead, ReadBlocked
  <2>3. DepthFits'
    BY <1>3, <2>1 DEF DepthFits, SleepForRead, Stay, Op
  <2> QED
    BY <2>1, <2>2, <2>3 DEF Lock!Next, Lock!Step
<1> QED
  BY <1>2, <1>3 DEF LockRead

LEMMA UnlockWriteSimulates ==
    ASSUME IInv, NEW t \in Threads, NEW l0 \in Writing, NEW l1 \in Labels,
           UnlockWrite(t, l0, l1), l1 # "idle" => FitsAt(l1, Op(t)),
           DepthAt(l0, Op(t)) = 1 => SectionAt(l1, Op(t)) = "none",
           DepthAt(l0, Op(t)) = 2 => SectionAt(l1, Op(t)) = "write" /\ DepthAt(l1, Op(t)) = 1
    PROVE  Lock!Next /\ DepthFits' /\ FrameInv'
<1> USE LockFacts DEF IInv, LockTypeOK
<1>1. /\ pc[t] = l0 /\ Section[t] = "write" /\ writerThread = t
      /\ writeDepth = DepthAt(l0, Op(t)) /\ DepthAt(l0, Op(t)) \in {1, 2}
  BY DEF UnlockWrite, ReleaseWrite, ReleaseWriteRaises, Section, SectionAt, Reading,
         Writing, DepthFits, DepthAt
<1>2. /\ FrameInv' /\ Section' = [Section EXCEPT ![t] = SectionAt(l1, Op(t))]
      /\ pc'[t] = l1 /\ (l1 # "idle" => call'[t] = call[t])
  BY GotoMoves DEF UnlockWrite
<1>3. Lock!ExitWrite(t)
  <2>1. CASE writeDepth = 1
    BY <1>1, <1>2, <2>1 DEF UnlockWrite, Lock!ExitWrite, Lock!ReleaseWrite,
       Lock!ReleaseWriteRaises, Lock!NotifyAll, Lock!Leave, ReleaseWrite, NotifyAll
  <2>2. CASE writeDepth = 2
    <3>1. Section' = Section
      BY <1>1, <1>2, <2>2 DEF Section
    <3> QED
      BY <1>1, <2>2, <3>1 DEF UnlockWrite, Lock!ExitWrite, Lock!ReleaseWrite,
         Lock!ReleaseWriteRaises, ReleaseWrite
  <2> QED
    BY <1>1, <2>1, <2>2
<1>4. \A u \in Threads \ {t} : Section'[u] # "write"
  BY <1>1, <1>2 DEF Section
<1>5. Section'[t] = "write" => writeDepth' = DepthAt(pc'[t], call'[t].op)
  <2> SUFFICES ASSUME Section'[t] = "write" PROVE writeDepth' = DepthAt(pc'[t], call'[t].op)
    OBVIOUS
  <2>1. SectionAt(l1, Op(t)) = "write"
    BY <1>2 DEF Section
  <2>2. l1 # "idle" /\ writeDepth = 2 /\ DepthAt(l1, Op(t)) = 1
    BY <1>1, <2>1 DEF SectionAt, Reading, Writing
  <2> QED
    BY <1>2, <2>2 DEF UnlockWrite, ReleaseWrite, Op
<1>6. DepthFits'
  BY <1>4, <1>5 DEF DepthFits, Op
<1> QED
  BY <1>2, <1>3, <1>6 DEF Lock!Next, Lock!Step

LEMMA UnlockReadSimulates ==
    ASSUME IInv, NEW t \in Threads, NEW l0 \in Reading, NEW l1 \in Labels,
           UnlockRead(t, l0, l1), l1 # "idle" => FitsAt(l1, Op(t)),
           SectionAt(l1, Op(t)) = "none"
    PROVE  Lock!Next /\ DepthFits' /\ FrameInv'
<1> USE LockFacts DEF IInv, LockTypeOK
<1>1. Section[t] = "read" /\ \A u \in Threads : Section[u] # "write"
  BY NoThreadAssumption
     DEF UnlockRead, ReleaseRead, ReleaseReadRaises, Section, SectionAt
<1>2. FrameInv' /\ Section' = [Section EXCEPT ![t] = "none"]
  BY GotoMoves DEF UnlockRead
<1>3. Lock!ExitRead(t)
  BY <1>1, <1>2 DEF UnlockRead, Lock!ExitRead, Lock!ReleaseRead, Lock!ReleaseReadRaises,
     Lock!NotifyAll, Lock!Leave, ReleaseRead, ReleaseReadRaises, NotifyAll
<1>4. DepthFits'
  BY <1>1, <1>2 DEF DepthFits, Section
<1> QED
  BY <1>2, <1>3, <1>4 DEF Lock!Next, Lock!Step
-----------------------------------------------------------------------------
(* The cache                                                                *)

\* A step that leaves the configuration alone keeps what is said of it, if the
\* thread comes past the ensure only when the cache is filled, and goes on
\* refilling while it is not.
LEMMA CacheUntouched ==
    ASSUME IInv, FrameInv', NEW t \in Threads, UNCHANGED configVars,
           \A u \in Threads \ {t} : pc'[u] = pc[u] /\ call'[u] = call[u],
           pc'[t] \in Ensured => pc[t] \in Ensured \/ cacheInitialized,
           Refilling(t) => cacheInitialized \/ Refilling(t)'
    PROVE  ConfigTyped' /\ CacheInv'
<1> USE DEF IInv, CacheInv, configVars
<1>1. ConfigTyped' /\ EmptyUntilFilled' /\ AlwaysAgrees'
  BY DEF ConfigTyped, EmptyUntilFilled, AlwaysAgrees
<1>2. \A u \in Threads \ {t} : Refilling(u) => Refilling(u)'
  BY DEF Refilling, Op
<1>3. FilledOnceEnsured'
  <2> SUFFICES ASSUME NEW u \in Threads, pc'[u] \in Ensured, ~cacheInitialized'
               PROVE  \E w \in Threads : Refilling(w)'
    BY DEF FilledOnceEnsured
  <2>1. pc[u] \in Ensured
    BY DEF Ensured
  <2>2. PICK w \in Threads : Refilling(w)
    BY <2>1 DEF FilledOnceEnsured
  <2> QED
    BY <1>2, <2>2
<1> QED
  BY <1>1, <1>3

\* A thread that writes under the write lock writes a cache that is filled,
\* unless it is the one that fills it.
LEMMA WriterSeesFilledCache ==
    ASSUME IInv, NEW t \in Threads, pc[t] \in Writing \cap Ensured
    PROVE  cacheInitialized
<1>1. writerThread = t
  BY LockFacts DEF IInv, Section, SectionAt, Reading, Writing
<1>2. ASSUME NEW u \in Threads, Refilling(u) PROVE writerThread = u
  BY <1>2, LockFacts DEF IInv, Section, SectionAt, Reading, Writing, Refilling
<1>3. ~Refilling(t)
  BY DEF Refilling, Ensured
<1> QED
  BY <1>1, <1>2, <1>3 DEF IInv, CacheInv, FilledOnceEnsured

LEMMA MergeType ==
    ASSUME NEW f \in [Keys -> MaybeValue], NEW g \in [Keys -> MaybeValue]
    PROVE  Merge(f, g) \in [Keys -> MaybeValue]
BY DEF Merge

\* Each critical section that writes leaves a filled cache that agrees with
\* the class, or an empty one that its own thread fills.
LEMMA CriticalSection ==
    ASSUME IInv, NEW t \in Threads,
           Fill(t) \/ WriteBack(t) \/ ApplyUpdates(t) \/ ClearCache(t) \/ LoadFromDict(t),
           FrameInv'
    PROVE  ConfigTyped' /\ CacheInv'
<1> USE ConfigAssumption DEF IInv, ConfigTyped, CacheInv, EmptyUntilFilled, AlwaysAgrees
<1> DEFINE Argument == call[t]
<1>1. /\ Argument.op = "get" => Argument.key \in Keys
      /\ Argument.op \in {"update", "load"} => Argument.batch \in [Keys -> MaybeValue]
      /\ Argument.op = "switch" => Argument.cls \in Classes
      /\ FitsAt(pc[t], Argument.op)
  BY CallArguments DEF FrameInv, FramesTyped, FramesFit, Op
<1>2. CASE Fill(t)
  <2>1. CASE cacheInitialized
    BY <1>2, <2>1 DEF Fill, configVars, FilledOnceEnsured
  <2>2. CASE ~cacheInitialized
    <3>1. /\ cache' = Merge(Empty, attrs[activeClass]) /\ cacheInitialized' = TRUE
          /\ writtenBack' = {} /\ activeClass' = activeClass /\ attrs' = attrs
      BY <1>2, <2>2 DEF Fill
    <3>2. cache' = attrs[activeClass]
      BY <3>1 DEF Merge, Empty
    <3> QED
      BY <3>1, <3>2 DEF FilledOnceEnsured
  <2> QED
    BY <2>1, <2>2
<1>3. CASE WriteBack(t)
  <2>1. cacheInitialized
    BY <1>3, WriterSeesFilledCache DEF WriteBack, Writing, Ensured, Labels
  <2>2. Argument.key \in Keys /\ found[t] \in MaybeValue
    BY <1>1, <1>3 DEF WriteBack, FitsAt, FrameInv, FramesTyped
  <2>3. /\ cache' = [cache EXCEPT ![Argument.key] = found[t]]
        /\ writtenBack' = writtenBack \cup {Argument.key}
        /\ UNCHANGED <<activeClass, attrs, cacheInitialized>>
    BY <1>3 DEF WriteBack
  <2>4. AlwaysAgrees'
    BY <2>2, <2>3 DEF Present
  <2> QED
    BY <2>1, <2>2, <2>3, <2>4 DEF FilledOnceEnsured
<1>4. CASE ApplyUpdates(t)
  <2>1. cacheInitialized
    BY <1>4, WriterSeesFilledCache DEF ApplyUpdates, Writing, Ensured, Labels
  <2>2. PICK batch \in [Keys -> MaybeValue] :
            /\ cache' = Merge(cache, batch)
            /\ attrs' = [attrs EXCEPT ![activeClass] = Merge(@, batch)]
            /\ writtenBack' = writtenBack \ Present(batch)
            /\ UNCHANGED <<activeClass, cacheInitialized>>
    BY <1>1, <1>4 DEF ApplyUpdates, FitsAt
  <2>3. attrs'[activeClass] = Merge(attrs[activeClass], batch)
    BY <2>2
  <2>4. ConfigTyped'
    BY <2>2, MergeType
  <2>5. AlwaysAgrees'
    BY <2>2, <2>3 DEF Merge, Present
  <2> QED
    BY <2>1, <2>2, <2>4, <2>5 DEF FilledOnceEnsured
<1>5. CASE ClearCache(t)
  <2>1. /\ cache' = Empty /\ writtenBack' = {} /\ attrs' = attrs
        /\ cacheInitialized' = FALSE /\ activeClass' \in Classes
        /\ Op(t) \in Rebuilds /\ pc' = [pc EXCEPT ![t] = "check"] /\ call' = call
    BY <1>1, <1>5 DEF ClearCache, Goto, Rebuilds, Op
  <2>2. Refilling(t)'
    BY <2>1 DEF Refilling, Op, FrameInv, FramesTyped
  <2>3. Empty \in [Keys -> MaybeValue] /\ Present(Empty) = {}
    BY DEF Empty, Present, MaybeValue
  <2> QED
    BY <2>1, <2>2, <2>3 DEF FilledOnceEnsured
<1>6. CASE LoadFromDict(t)
  <2>1. PICK batch \in [Keys -> MaybeValue] :
            /\ cache' = batch
            /\ attrs' = [attrs EXCEPT ![activeClass] = Merge(@, batch)]
            /\ cacheInitialized' = TRUE /\ writtenBack' = {}
            /\ activeClass' = activeClass
    BY <1>1, <1>6 DEF LoadFromDict, Op
  <2>2. attrs'[activeClass] = Merge(attrs[activeClass], batch)
    BY <2>1
  <2>3. ConfigTyped'
    BY <2>1, MergeType
  <2>4. AlwaysAgrees'
    BY <2>1, <2>2 DEF Merge, Present
  <2> QED
    BY <2>1, <2>3, <2>4 DEF FilledOnceEnsured
<1> QED
  BY <1>2, <1>3, <1>4, <1>5, <1>6
-----------------------------------------------------------------------------
(* Every step                                                               *)

\* CacheUntouched for a thread that goes to another label or sleeps.
LEMMA GoesOnKeepsCache ==
    ASSUME IInv, FrameInv', NEW t \in Threads, NEW l \in Labels, UNCHANGED configVars,
           Goto(t, l) \/ Stay, l # "idle" => FitsAt(l, Op(t)),
           l \in Ensured => pc[t] \in Ensured \/ cacheInitialized,
           Refilling(t) => cacheInitialized \/ l \in {"check", "lock_fill", "fill"}
    PROVE  ConfigTyped' /\ CacheInv'
<1>1. CASE Goto(t, l)
  <2>1. /\ pc'[t] = l /\ (l # "idle" => call'[t] = call[t])
        /\ \A u \in Threads \ {t} : pc'[u] = pc[u] /\ call'[u] = call[u]
    BY <1>1, GotoMoves DEF IInv
  <2>2. Refilling(t) => cacheInitialized \/ Refilling(t)'
    BY <2>1 DEF Refilling, Op
  <2> QED
    BY <2>1, <2>2, CacheUntouched
<1>2. CASE Stay
  BY <1>2, CacheUntouched DEF Stay, Refilling, Op
<1> QED
  BY <1>1, <1>2

\* A thread that goes on without the lock, within its section or outside of any.
LEMMA GoesOnSimulates ==
    ASSUME IInv, NEW t \in Threads, NEW l \in Labels, Goto(t, l), UNCHANGED lockVars,
           l # "idle" => FitsAt(l, Op(t)),
           SectionAt(l, Op(t)) = SectionAt(pc[t], Op(t)),
           SectionAt(l, Op(t)) = "write" => DepthAt(l, Op(t)) = DepthAt(pc[t], Op(t))
    PROVE  UNCHANGED Lock!vars /\ DepthFits' /\ FrameInv'
BY GotoMoves, GoesOnInSection DEF IInv

LEMMA InitIInv == Init => IInv
<1> SUFFICES ASSUME Init PROVE IInv
  OBVIOUS
<1> USE ConfigAssumption
<1>1. FrameInv
  BY DEF Init, FrameInv, FramesTyped, FramesFit, FitsAt, Op, NoCall, Labels, MaybeValue
<1>2. Section = [t \in Threads |-> "none"]
  BY DEF Init, Section, SectionAt, Reading, Writing
<1>3. Lock!Init
  BY <1>2 DEF Init, LockInit, Lock!Init, Lock!LockInit
<1>4. Lock!IInv
  BY <1>3, Lock!InitIInv, NoThreadAssumption, ThreadsFinite
<1>5. DepthFits
  BY <1>2 DEF DepthFits
<1>6. ConfigTyped
  BY DEF Init, ConfigTyped, Empty, MaybeValue
<1>7. CacheInv
  BY DEF Init, CacheInv, FilledOnceEnsured, EmptyUntilFilled, AlwaysAgrees, Empty,
         Present, Ensured
<1> QED
  BY <1>1, <1>4, <1>5, <1>6, <1>7 DEF IInv

\* Every step keeps the invariant, and is a step of the lock as RWThreads has
\* it or leaves the lock alone.
LEMMA StepSimulates ==
    IInv /\ [Next]_vars =>
        [Lock!Next]_(Lock!vars) /\ DepthFits' /\ FrameInv' /\ ConfigTyped' /\ CacheInv'
<1> SUFFICES ASSUME IInv, [Next]_vars
             PROVE  /\ [Lock!Next]_(Lock!vars)
                    /\ DepthFits' /\ FrameInv' /\ ConfigTyped' /\ CacheInv'
  OBVIOUS
<1> DEFINE Goal == /\ [Lock!Next]_(Lock!vars)
                   /\ DepthFits' /\ FrameInv' /\ ConfigTyped' /\ CacheInv'
<1> USE DEF Rebuilds, Reading, Writing, SectionAt, DepthAt, Labels, Ensured
<1>1. ASSUME NEW t \in Threads, Begin(t) PROVE Goal
  <2>1. PICK c \in Calls, l \in {"check", "lock_rebuild"} :
            /\ pc[t] = "idle" /\ pc' = [pc EXCEPT ![t] = l]
            /\ call' = [call EXCEPT ![t] = c]
            /\ l = "check" => c.op \in {"get", "snapshot", "update"}
            /\ l = "lock_rebuild" => c.op \notin {"get", "snapshot", "update"}
            /\ callsMade[t] < MaxOps /\ callsMade' = [callsMade EXCEPT ![t] = @ + 1]
            /\ UNCHANGED <<lockVars, configVars, found>>
    BY <1>1 DEF Begin
  <2>2. /\ pc'[t] = l /\ call'[t] = c
        /\ \A u \in Threads \ {t} : pc'[u] = pc[u] /\ call'[u] = call[u]
    BY <2>1 DEF IInv, FrameInv, FramesTyped
  <2>3. FrameInv'
    <3>1. callsMade' \in [Threads -> 0 .. MaxOps]
      BY <2>1, ConfigAssumption DEF IInv, FrameInv, FramesTyped
    <3>2. FramesTyped'
      BY <2>1, <3>1 DEF IInv, FrameInv, FramesTyped
    <3>3. FitsAt(l, c.op)
      BY <2>1, CallArguments DEF FitsAt
    <3>4. FramesFit'
      BY <2>2, <3>3 DEF IInv, FrameInv, FramesFit, Op
    <3> QED
      BY <3>2, <3>4 DEF FrameInv
  <2>4. Section' = Section
    <3>1. SectionAt(pc'[t], call'[t].op) = "none" /\ SectionAt(pc[t], call[t].op) = "none"
      BY <2>1, <2>2
    <3> HIDE DEF SectionAt
    <3>2. \A u \in Threads : SectionAt(pc'[u], call'[u].op) = SectionAt(pc[u], call[u].op)
      BY <2>2, <3>1
    <3> QED
      BY <3>2 DEF Section, Op
  <2>5. UNCHANGED Lock!vars
    BY <2>1, <2>4 DEF lockVars, Lock!vars, Lock!lockVars
  <2>6. DepthFits'
    <3> SUFFICES ASSUME NEW u \in Threads, Section[u] = "write"
                 PROVE  writeDepth' = DepthAt(pc'[u], call'[u].op)
      BY <2>4 DEF DepthFits, Op
    <3>1. u # t
      BY <2>1 DEF Section
    <3> QED
      BY <2>1, <2>2, <3>1 DEF IInv, DepthFits, lockVars, Op
  <2>7. ConfigTyped' /\ CacheInv'
    BY <2>1, <2>2, <2>3, CacheUntouched DEF Refilling
  <2> QED
    BY <2>3, <2>5, <2>6, <2>7
<1>2. ASSUME NEW t \in Threads, CheckInitialized(t) PROVE Goal
  <2>1. pc[t] = "check" /\ FitsAt("check", Op(t))
    BY <1>2 DEF CheckInitialized, IInv, FrameInv, FramesFit
  <2>2. Op(t) \in {"get", "snapshot", "update", "load", "reset", "switch"}
    BY <2>1, CallArguments DEF FitsAt, Op, IInv, FrameInv, FramesTyped
  <2>3. PICK l \in Labels :
            /\ Goto(t, l) /\ (l # "idle" => FitsAt(l, Op(t)))
            /\ SectionAt(l, Op(t)) = SectionAt("check", Op(t)) /\ DepthAt(l, Op(t)) = 1
            /\ l = "lock_fill" \/ cacheInitialized
    <3>1. CASE cacheInitialized
      BY <1>2, <2>1, <2>2, <3>1 DEF CheckInitialized, AfterEnsure, FitsAt
    <3>2. CASE ~cacheInitialized
      BY <1>2, <2>1, <2>2, <3>2 DEF CheckInitialized, FitsAt
    <3> QED
      BY <3>1, <3>2
  <2>4. UNCHANGED <<lockVars, configVars>>
    BY <1>2 DEF CheckInitialized
  <2>5. UNCHANGED Lock!vars /\ DepthFits' /\ FrameInv'
    BY <2>1, <2>3, <2>4, GoesOnSimulates
  <2>6. ConfigTyped' /\ CacheInv'
    BY <2>3, <2>4, <2>5, GoesOnKeepsCache
  <2> QED
    BY <2>5, <2>6
<1>3. ASSUME NEW t \in Threads, LockFill(t) PROVE Goal
  <2>1. pc[t] = "lock_fill" /\ FitsAt("lock_fill", Op(t))
    BY <1>3 DEF LockFill, LockWrite, IInv, FrameInv, FramesFit
  <2>2. LockWrite(t, "lock_fill", "fill")
    BY <1>3 DEF LockFill
  <2>3. Lock!Next /\ DepthFits' /\ FrameInv'
    BY <2>1, <2>2, LockWriteSimulates DEF FitsAt
  <2>4. ConfigTyped' /\ CacheInv'
    BY <2>1, <2>2, <2>3, GoesOnKeepsCache DEF LockWrite, FitsAt, Refilling
  <2> QED
    BY <2>3, <2>4
<1>4. ASSUME NEW t \in Threads, LockWriteBack(t) PROVE Goal
  <2>1. pc[t] = "lock_write_back" /\ FitsAt("lock_write_back", Op(t))
    BY <1>4 DEF LockWriteBack, LockWrite, IInv, FrameInv, FramesFit
  <2>2. LockWrite(t, "lock_write_back", "write_back")
    BY <1>4 DEF LockWriteBack
  <2>3. Lock!Next /\ DepthFits' /\ FrameInv'
    BY <2>1, <2>2, LockWriteSimulates DEF FitsAt
  <2>4. ConfigTyped' /\ CacheInv'
    BY <2>1, <2>2, <2>3, GoesOnKeepsCache DEF LockWrite, FitsAt, Refilling
  <2> QED
    BY <2>3, <2>4
<1>5. ASSUME NEW t \in Threads, LockUpdate(t) PROVE Goal
  <2>1. pc[t] = "lock_update" /\ FitsAt("lock_update", Op(t))
    BY <1>5 DEF LockUpdate, LockWrite, IInv, FrameInv, FramesFit
  <2>2. LockWrite(t, "lock_update", "update")
    BY <1>5 DEF LockUpdate
  <2>3. Lock!Next /\ DepthFits' /\ FrameInv'
    BY <2>1, <2>2, LockWriteSimulates DEF FitsAt
  <2>4. ConfigTyped' /\ CacheInv'
    BY <2>1, <2>2, <2>3, GoesOnKeepsCache DEF LockWrite, FitsAt, Refilling
  <2> QED
    BY <2>3, <2>4
<1>6. ASSUME NEW t \in Threads, LockRebuild(t) PROVE Goal
  <2>1. pc[t] = "lock_rebuild" /\ FitsAt("lock_rebuild", Op(t))
    BY <1>6 DEF LockRebuild, LockWrite, IInv, FrameInv, FramesFit
  <2>2. LockWrite(t, "lock_rebuild", "rebuild")
    BY <1>6 DEF LockRebuild
  <2>3. Lock!Next /\ DepthFits' /\ FrameInv'
    BY <2>1, <2>2, LockWriteSimulates DEF FitsAt
  <2>4. ConfigTyped' /\ CacheInv'
    BY <2>1, <2>2, <2>3, GoesOnKeepsCache DEF LockWrite, FitsAt, Refilling
  <2> QED
    BY <2>3, <2>4
<1>7. ASSUME NEW t \in Threads, UnlockWriteBack(t) PROVE Goal
  <2>1. pc[t] = "unlock_write_back" /\ FitsAt("unlock_write_back", Op(t))
    BY <1>7 DEF UnlockWriteBack, UnlockWrite, IInv, FrameInv, FramesFit
  <2>2. UnlockWrite(t, "unlock_write_back", "idle")
    BY <1>7 DEF UnlockWriteBack
  <2>3. Lock!Next /\ DepthFits' /\ FrameInv'
    BY <2>1, <2>2, UnlockWriteSimulates DEF FitsAt
  <2>4. ConfigTyped' /\ CacheInv'
    BY <2>1, <2>2, <2>3, GoesOnKeepsCache DEF UnlockWrite, FitsAt, Refilling
  <2> QED
    BY <2>3, <2>4
<1>8. ASSUME NEW t \in Threads, UnlockUpdate(t) PROVE Goal
  <2>1. pc[t] = "unlock_update" /\ FitsAt("unlock_update", Op(t))
    BY <1>8 DEF UnlockUpdate, UnlockWrite, IInv, FrameInv, FramesFit
  <2>2. UnlockWrite(t, "unlock_update", "idle")
    BY <1>8 DEF UnlockUpdate
  <2>3. Lock!Next /\ DepthFits' /\ FrameInv'
    BY <2>1, <2>2, UnlockWriteSimulates DEF FitsAt
  <2>4. ConfigTyped' /\ CacheInv'
    BY <2>1, <2>2, <2>3, GoesOnKeepsCache DEF UnlockWrite, FitsAt, Refilling
  <2> QED
    BY <2>3, <2>4
<1>9. ASSUME NEW t \in Threads, UnlockAfterRead(t) PROVE Goal
  <2>1. pc[t] = "unlock_read" /\ FitsAt("unlock_read", Op(t))
    BY <1>9 DEF UnlockAfterRead, UnlockRead, IInv, FrameInv, FramesFit
  <2>2. UnlockRead(t, "unlock_read", "idle")
    BY <1>9 DEF UnlockAfterRead
  <2>3. Lock!Next /\ DepthFits' /\ FrameInv'
    BY <2>1, <2>2, UnlockReadSimulates DEF FitsAt
  <2>4. ConfigTyped' /\ CacheInv'
    BY <2>1, <2>2, <2>3, GoesOnKeepsCache DEF UnlockRead, FitsAt, Refilling
  <2> QED
    BY <2>3, <2>4
<1>10. ASSUME NEW t \in Threads, UnlockMissed(t) PROVE Goal
  <2>1. pc[t] = "unlock_missed" /\ FitsAt("unlock_missed", Op(t))
    BY <1>10 DEF UnlockMissed, UnlockRead, IInv, FrameInv, FramesFit
  <2>2. UnlockRead(t, "unlock_missed", "hasattr")
    BY <1>10 DEF UnlockMissed
  <2>3. Lock!Next /\ DepthFits' /\ FrameInv'
    BY <2>1, <2>2, UnlockReadSimulates DEF FitsAt
  <2>4. ConfigTyped' /\ CacheInv'
    BY <2>1, <2>2, <2>3, GoesOnKeepsCache DEF UnlockRead, FitsAt, Refilling
  <2> QED
    BY <2>3, <2>4
<1>11. ASSUME NEW t \in Threads, UnlockFill(t) PROVE Goal
  <2>1. pc[t] = "unlock_fill" /\ FitsAt("unlock_fill", Op(t))
    BY <1>11 DEF UnlockFill, UnlockWrite, IInv, FrameInv, FramesFit
  <2>2. Op(t) \in {"get", "snapshot", "update", "load", "reset", "switch"}
    BY <2>1, CallArguments DEF FitsAt, Op, IInv, FrameInv, FramesTyped
  <2>3. PICK l \in Labels :
            /\ UnlockWrite(t, "unlock_fill", l) /\ (l # "idle" => FitsAt(l, Op(t)))
            /\ Op(t) \notin Rebuilds => SectionAt(l, Op(t)) = "none"
            /\ Op(t) \in Rebuilds => l = "unlock_rebuild"
    BY <1>11, <2>2 DEF UnlockFill, AfterEnsure, FitsAt
  <2>4. Lock!Next /\ DepthFits' /\ FrameInv'
    BY <2>3, UnlockWriteSimulates
  <2>5. ConfigTyped' /\ CacheInv'
    BY <2>1, <2>3, <2>4, GoesOnKeepsCache DEF UnlockWrite, Refilling
  <2> QED
    BY <2>4, <2>5
<1>12. ASSUME NEW t \in Threads, UnlockRebuild(t) PROVE Goal
  <2>1. pc[t] = "unlock_rebuild" /\ FitsAt("unlock_rebuild", Op(t))
    BY <1>12 DEF UnlockRebuild, UnlockWrite, IInv, FrameInv, FramesFit
  <2>2. PICK l \in {"check", "idle"} :
            /\ UnlockWrite(t, "unlock_rebuild", l)
            /\ l = "check" => Op(t) = "load"
    BY <1>12 DEF UnlockRebuild
  <2>3. Lock!Next /\ DepthFits' /\ FrameInv'
    BY <2>1, <2>2, UnlockWriteSimulates DEF FitsAt
  <2>4. ConfigTyped' /\ CacheInv'
    BY <2>1, <2>2, <2>3, GoesOnKeepsCache DEF UnlockWrite, FitsAt, Refilling
  <2> QED
    BY <2>3, <2>4
<1>13. ASSUME NEW t \in Threads, LockForReading(t) PROVE Goal
  <2>1. pc[t] = "lock_read" /\ FitsAt("lock_read", Op(t))
    BY <1>13 DEF LockForReading, LockRead, IInv, FrameInv, FramesFit
  <2>2. LockRead(t, "lock_read", "read")
    BY <1>13 DEF LockForReading
  <2>3. Lock!Next /\ DepthFits' /\ FrameInv'
    BY <2>1, <2>2, LockReadSimulates DEF FitsAt
  <2>4. ConfigTyped' /\ CacheInv'
    BY <2>1, <2>2, <2>3, GoesOnKeepsCache DEF LockRead, FitsAt, Refilling
  <2> QED
    BY <2>3, <2>4
<1>14. ASSUME NEW t \in Threads, ReadCache(t) \/ TakeSnapshot(t) \/ HasAttr(t) PROVE Goal
  <2>1. FitsAt(pc[t], Op(t))
    BY DEF IInv, FrameInv, FramesFit
  <2>2. PICK l \in {"unlock_read", "unlock_missed", "getattr", "idle"} :
            /\ Goto(t, l) /\ (l # "idle" => FitsAt(l, Op(t)))
            /\ SectionAt(l, Op(t)) = SectionAt(pc[t], Op(t))
            /\ pc[t] \in {"read", "hasattr"} /\ SectionAt(pc[t], Op(t)) # "write"
    BY <1>14, <2>1 DEF ReadCache, TakeSnapshot, HasAttr, FitsAt
  <2>3. UNCHANGED <<lockVars, configVars>>
    BY <1>14 DEF ReadCache, TakeSnapshot, HasAttr
  <2>4. UNCHANGED Lock!vars /\ DepthFits' /\ FrameInv'
    BY <2>2, <2>3, GoesOnSimulates
  <2>5. ConfigTyped' /\ CacheInv'
    BY <2>2, <2>3, <2>4, GoesOnKeepsCache DEF Refilling
  <2> QED
    BY <2>4, <2>5
<1>15. ASSUME NEW t \in Threads, GetAttr(t) PROVE Goal
  <2>1. pc[t] = "getattr" /\ Op(t) = "get" /\ call[t].key \in Keys
    BY <1>15, CallArguments DEF GetAttr, IInv, FrameInv, FramesTyped, FramesFit, FitsAt, Op
  <2>2. UNCHANGED <<lockVars, configVars>>
    BY <1>15 DEF GetAttr
  <2>3. CASE Goto(t, "idle")
    <3>1. UNCHANGED Lock!vars /\ DepthFits' /\ FrameInv'
      BY <2>1, <2>2, <2>3, GoesOnSimulates
    <3>2. ConfigTyped' /\ CacheInv'
      BY <2>1, <2>2, <2>3, <3>1, GoesOnKeepsCache DEF Refilling
    <3> QED
      BY <3>1, <3>2
  <2>4. CASE /\ found' = [found EXCEPT ![t] = attrs[activeClass][call[t].key]]
             /\ pc' = [pc EXCEPT ![t] = "lock_write_back"]
             /\ UNCHANGED <<call, callsMade>>
    <3>1. /\ pc'[t] = "lock_write_back" /\ call'[t] = call[t]
          /\ \A u \in Threads \ {t} : pc'[u] = pc[u] /\ call'[u] = call[u]
      BY <2>4 DEF IInv, FrameInv, FramesTyped
    <3>2. FramesTyped'
      BY <2>1, <2>4 DEF IInv, FrameInv, FramesTyped, ConfigTyped
    <3>3. FramesFit'
      BY <2>1, <3>1 DEF IInv, FrameInv, FramesFit, FitsAt, Op
    <3>4. Section' = [Section EXCEPT ![t] = SectionAt("lock_write_back", Op(t))]
      <4>1. \A u \in Threads \ {t} : SectionAt(pc'[u], call'[u].op) = SectionAt(pc[u], call[u].op)
        BY <3>1
      <4>2. SectionAt(pc'[t], call'[t].op) = SectionAt("lock_write_back", Op(t))
        BY <3>1 DEF Op
      <4> HIDE DEF SectionAt
      <4> QED
        BY <4>1, <4>2 DEF Section, Op
    <3>5. UNCHANGED Lock!vars /\ DepthFits'
      BY <2>1, <2>2, <3>1, <3>4, GoesOnInSection
    <3>6. ConfigTyped' /\ CacheInv'
      BY <2>1, <2>2, <3>1, <3>2, <3>3, CacheUntouched DEF Refilling, FrameInv
    <3> QED
      BY <3>2, <3>3, <3>5, <3>6 DEF FrameInv
  <2> QED
    BY <1>15, <2>3, <2>4 DEF GetAttr
<1>16. ASSUME NEW t \in Threads,
             Fill(t) \/ WriteBack(t) \/ ApplyUpdates(t) \/ ClearCache(t) \/ LoadFromDict(t)
      PROVE  Goal
  <2>1. FitsAt(pc[t], Op(t))
    BY DEF IInv, FrameInv, FramesFit
  <2>2. PICK l \in Labels \ {"idle"} :
            /\ Goto(t, l) /\ FitsAt(l, Op(t))
            /\ SectionAt(pc[t], Op(t)) = "write" /\ SectionAt(l, Op(t)) = "write"
            /\ DepthAt(l, Op(t)) = DepthAt(pc[t], Op(t))
    BY <1>16, <2>1 DEF Fill, WriteBack, ApplyUpdates, ClearCache, LoadFromDict, FitsAt
  <2>3. UNCHANGED lockVars
    BY <1>16 DEF Fill, WriteBack, ApplyUpdates, ClearCache, LoadFromDict
  <2>4. UNCHANGED Lock!vars /\ DepthFits' /\ FrameInv'
    BY <2>2, <2>3, GoesOnSimulates
  <2>5. ConfigTyped' /\ CacheInv'
    BY <1>16, <2>4, CriticalSection
  <2> QED
    BY <2>4, <2>5
<1>17. CASE UNCHANGED vars
  <2>1. Section' = Section
    BY <1>17 DEF vars, Section, Op
  <2>2. UNCHANGED Lock!vars
    BY <1>17, <2>1 DEF vars, lockVars, Lock!vars, Lock!lockVars
  <2>3. FrameInv' /\ DepthFits'
    BY <1>17, <2>1 DEF vars, lockVars, IInv, FrameInv, FramesTyped, FramesFit, DepthFits, Op
  <2>4. ConfigTyped' /\ CacheInv'
    BY <1>17 DEF vars, configVars, IInv, ConfigTyped, CacheInv, FilledOnceEnsured,
                  EmptyUntilFilled, AlwaysAgrees, Refilling, Op
  <2> QED
    BY <2>2, <2>3, <2>4
<1> QED
  BY <1>1, <1>2, <1>3, <1>4, <1>5, <1>6, <1>7, <1>8, <1>9, <1>10, <1>11, <1>12, <1>13, <1>14, <1>15, <1>16, <1>17
     DEF Next, Continue

LEMMA StepIInv == IInv /\ [Next]_vars => IInv'
BY StepSimulates, LockInvKept DEF IInv

\* The inductive invariant holds in every reachable state.
THEOREM Invariant == Spec => []IInv
<1>1. Init => IInv
  BY InitIInv
<1>2. IInv /\ [Next]_vars => IInv'
  BY StepIInv
<1> QED
  BY <1>1, <1>2, PTL DEF Spec

-----------------------------------------------------------------------------
(* Results                                                                  *)

\* The proxy uses its lock the way RWThreads says: every step of it is one of
\* the lock's callers or leaves the lock alone.
THEOREM UsesLockAsSpecified == Spec => Lock!Spec
<1>1. Init => Lock!Init
  <2> SUFFICES ASSUME Init PROVE Lock!Init
    OBVIOUS
  <2>1. Section = [t \in Threads |-> "none"]
    BY DEF Init, Section, SectionAt, Reading, Writing
  <2> QED
    BY <2>1 DEF Init, LockInit, Lock!Init, Lock!LockInit
<1>2. IInv /\ [Next]_vars => [Lock!Next]_(Lock!vars)
  BY StepSimulates
<1> QED
  BY <1>1, <1>2, Invariant, PTL DEF Spec, Lock!Spec

\* Every state has the declared types.
THEOREM TypeCorrect == Spec => []TypeOK
<1>1. IInv => TypeOK
  BY LockFacts DEF IInv, FrameInv, FramesTyped, ConfigTyped, TypeOK
<1> QED
  BY <1>1, Invariant, PTL

\* No reader sees the cache between the clear and the refill of a rebuild.
THEOREM ReadersAreServed == Spec => []ReadersSeeFilledCache
<1>1. IInv => ReadersSeeFilledCache
  <2> SUFFICES ASSUME IInv, numReaders > 0 PROVE cacheInitialized
    BY DEF ReadersSeeFilledCache
  <2>1. PICK t \in Threads : Section[t] = "read"
    BY LockFacts DEF IInv
  <2>2. pc[t] \in Ensured
    BY <2>1 DEF Section, SectionAt, Reading, Ensured, Labels
  <2>3. ASSUME NEW u \in Threads, Refilling(u) PROVE FALSE
    <3>1. Section[u] = "write"
      BY <2>3 DEF Section, SectionAt, Refilling, Reading, Writing
    <3>2. writerThread = u
      BY <3>1, LockFacts DEF IInv
    <3> QED
      BY <3>2, LockFacts, NoThreadAssumption DEF IInv
  <2> QED
    BY <2>2, <2>3 DEF IInv, CacheInv, FilledOnceEnsured
<1> QED
  BY <1>1, Invariant, PTL

\* Cached values agree with the active class, except for those written back.
THEOREM CacheIsFaithful == Spec => []CacheAgreesWithClass
<1>1. IInv => CacheAgreesWithClass
  BY DEF IInv, CacheInv, AlwaysAgrees, CacheAgreesWithClass
<1> QED
  BY <1>1, Invariant, PTL

\* No step changes the configuration while some thread reads it.
THEOREM ReadersSeeNoChange == Spec => StableUnderReaders
<1>1. IInv /\ [Next]_vars => [numReaders > 0 => UNCHANGED configVars]_vars
  <2> SUFFICES ASSUME IInv, Next, numReaders > 0 PROVE UNCHANGED configVars
    OBVIOUS
  <2>1. writerThread = NoThread
    BY LockFacts DEF IInv, LockTypeOK
  <2>2. ASSUME NEW t \in Threads PROVE pc[t] \notin Writing
    BY <2>1, <2>2, LockFacts, NoThreadAssumption DEF IInv, Section, SectionAt, Reading, Writing
  <2> QED
    BY <2>2 DEF Next, Begin, Continue, CheckInitialized, LockFill, Fill, UnlockFill,
       LockForReading, ReadCache, UnlockAfterRead, UnlockMissed, HasAttr, GetAttr,
       LockWriteBack, WriteBack, UnlockWriteBack, TakeSnapshot, LockUpdate, ApplyUpdates,
       UnlockUpdate, LockRebuild, ClearCache, LoadFromDict, UnlockRebuild, LockWrite,
       LockRead, UnlockWrite, UnlockRead, Writing
<1> QED
  BY <1>1, Invariant, PTL DEF Spec, StableUnderReaders
=============================================================================
