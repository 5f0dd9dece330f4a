-------------------------- MODULE RWThreadsProofs ---------------------------
(***************************************************************************)
(* Proofs about RWThreads for any finite set of threads and any depth.     *)
(*                                                                         *)
(* Exclusion and NoLostWakeup are not inductive: a step of one thread is   *)
(* decided by the counters, so the invariant has to tie the counters to    *)
(* what every thread is doing (CountsMatch), say that a thread in a section *)
(* waits for nothing (OneThing), and that readers and a writer never       *)
(* coexist in the counters (Apart).                                        *)
(***************************************************************************)
EXTENDS RWThreads, FiniteSetTheorems, TLAPS

OneThing == \A t \in Threads : holds[t] # "none" => waitsFor[t] = "none"

Apart == writerThread # NoThread => numReaders = 0

IInv == TypeOK /\ CountsMatch /\ OneThing /\ Apart /\ NoLostWakeup

-----------------------------------------------------------------------------

\* Readers and Writers are finite, so that their cardinalities are naturals.
LEMMA SubsetsFinite ==
    ASSUME NEW S \in SUBSET Threads
    PROVE  IsFiniteSet(S) /\ Cardinality(S) \in Nat
BY ThreadsAssumption, FS_Subset, FS_CardinalityType

\* One more or one less thread changes the cardinality by one.
LEMMA CountOneMore ==
    ASSUME NEW S \in SUBSET Threads, NEW t \in Threads, t \notin S
    PROVE  Cardinality(S \cup {t}) = Cardinality(S) + 1
BY SubsetsFinite, FS_AddElement

LEMMA CountOneLess ==
    ASSUME NEW S \in SUBSET Threads, NEW t \in S
    PROVE  Cardinality(S \ {t}) = Cardinality(S) - 1
BY SubsetsFinite, FS_RemoveElement

\* A count of zero is an empty set.
LEMMA CountZero ==
    ASSUME NEW S \in SUBSET Threads
    PROVE  Cardinality(S) = 0 <=> S = {}
BY SubsetsFinite, FS_EmptySet

\* A positive count has a reader behind it.
LEMMA SomeReader ==
    ASSUME TypeOK, CountsMatch, numReaders > 0
    PROVE  \E t \in Threads : holds[t] = "read"
BY CountZero DEF CountsMatch, Readers, TypeOK, LockTypeOK

-----------------------------------------------------------------------------

LEMMA InitIInv == Init => IInv
<1> SUFFICES ASSUME Init PROVE IInv
  OBVIOUS
<1>1. TypeOK
  BY DEF Init, LockInit, TypeOK, LockTypeOK
<1>2. Readers = {} /\ Writers = {}
  BY DEF Init, LockInit, Readers, Writers
<1>3. CountsMatch
  BY <1>2, FS_EmptySet, NoThreadAssumption
     DEF Init, LockInit, CountsMatch
<1>4. OneThing /\ Apart /\ NoLostWakeup
  BY DEF Init, LockInit, OneThing, Apart, NoLostWakeup
<1> QED
  BY <1>1, <1>3, <1>4 DEF IInv

-----------------------------------------------------------------------------

\* One case per branch of an action.  Each finds first how the thread moves
\* between Readers and Writers, and from it what becomes of the counts.
LEMMA StepIInv == IInv /\ [Next]_vars => IInv'
<1> SUFFICES ASSUME IInv, [Next]_vars PROVE IInv'
  OBVIOUS
<1> USE NoThreadAssumption DEF IInv
<1>1. ASSUME NEW t \in Threads, Outside(t) \/ WokenReader(t),
             TakeRead(t), Enter(t, "read")
      PROVE  IInv'
  <2>1. Readers' = Readers \cup {t} /\ Writers' = Writers \ {t}
    BY <1>1 DEF TypeOK, LockTypeOK, Readers, Writers, TakeRead, Enter
  <2>2. t \notin Readers /\ t \notin Writers /\ t \notin asleep
    BY <1>1 DEF Outside, WokenReader, Readers, Writers, OneThing, NoLostWakeup
  <2>3. Cardinality(Readers') = Cardinality(Readers) + 1 /\ Writers' = Writers
    BY <2>1, <2>2, CountOneMore DEF Readers
  <2>4. TypeOK'
    BY <1>1 DEF TypeOK, LockTypeOK, TakeRead, Enter
  <2>5. CountsMatch'
    BY <1>1, <2>3 DEF CountsMatch, TypeOK, LockTypeOK, TakeRead, ReadBlocked, Enter
  <2>6. OneThing' /\ Apart'
    BY <1>1 DEF TypeOK, LockTypeOK, OneThing, Apart, TakeRead, ReadBlocked, Enter
  <2>7. NoLostWakeup'
    BY <1>1, <2>2 DEF TypeOK, LockTypeOK, NoLostWakeup, TakeRead, ReadBlocked,
                      WriteBlocked
  <2> QED
    BY <2>4, <2>5, <2>6, <2>7
<1>2. ASSUME NEW t \in Threads, Outside(t) \/ WokenReader(t),
             SleepForRead(t), UNCHANGED holds
      PROVE  IInv'
  <2>1. holds' = [holds EXCEPT ![t] = "none"] /\ t \notin Readers
        /\ t \notin Writers
    BY <1>2 DEF Outside, WokenReader, OneThing, TypeOK, LockTypeOK, Readers, Writers
  <2>2. Readers' = Readers /\ Writers' = Writers
    BY <1>2, <2>1 DEF TypeOK, LockTypeOK, Readers, Writers, SleepForRead
  <2>3. TypeOK' /\ CountsMatch'
    BY <1>2, <2>2 DEF TypeOK, LockTypeOK, CountsMatch, SleepForRead
  <2>4. OneThing' /\ Apart' /\ NoLostWakeup'
    BY <1>2, <2>1 DEF TypeOK, LockTypeOK, OneThing, Apart, NoLostWakeup,
                      SleepForRead, ReadBlocked, WriteBlocked
  <2> QED
    BY <2>3, <2>4
<1>3. ASSUME NEW t \in Threads, ExitRead(t)
      PROVE  IInv'
  <2>1. /\ waitsFor' = [waitsFor EXCEPT ![t] = "none"]
        /\ t \in Readers /\ t \notin Writers
    BY <1>3 DEF ExitRead, ReleaseRead, OneThing, TypeOK, LockTypeOK, Readers,
                Writers
  <2>2. Readers' = Readers \ {t} /\ Writers' = Writers \ {t}
    BY <1>3, <2>1 DEF TypeOK, LockTypeOK, Readers, Writers, ExitRead, Leave
  <2>3. Cardinality(Readers') = Cardinality(Readers) - 1 /\ Writers' = Writers
    BY <2>1, <2>2, CountOneLess DEF Readers
  <2>4. TypeOK'
    BY <1>3 DEF TypeOK, LockTypeOK, ExitRead, ReleaseRead, ReleaseReadRaises,
                NotifyAll, Leave
  <2>5. CountsMatch'
    BY <1>3, <2>3 DEF CountsMatch, TypeOK, LockTypeOK, ExitRead, ReleaseRead, Leave
  <2>6. OneThing' /\ Apart'
    BY <1>3 DEF TypeOK, LockTypeOK, OneThing, Apart, ExitRead, ReleaseRead,
                ReleaseReadRaises, Leave
  <2>7. NoLostWakeup'
    <3>1. CASE numReaders = 1
      BY <1>3, <3>1 DEF NoLostWakeup, ExitRead, ReleaseRead, NotifyAll
    <3>2. CASE numReaders # 1
      BY <1>3, <3>2 DEF NoLostWakeup, ExitRead, ReleaseRead, ReleaseReadRaises,
                        TypeOK, LockTypeOK, ReadBlocked, WriteBlocked
    <3> QED
      BY <3>1, <3>2
  <2> QED
    BY <2>4, <2>5, <2>6, <2>7
<1>4. ASSUME NEW t \in Threads, Outside(t), TakeWriteAtOnce(t),
             Enter(t, "write")
      PROVE  IInv'
  <2>1. t \notin Readers /\ t \notin Writers /\ t \notin asleep
    BY <1>4 DEF Outside, Readers, Writers, NoLostWakeup
  <2>2. Readers' = Readers /\ Writers' = Writers
    BY <1>4, <2>1 DEF TypeOK, LockTypeOK, Readers, Writers, TakeWriteAtOnce, BecomeWriter, Enter
  <2>3. TypeOK'
    BY <1>4 DEF TypeOK, LockTypeOK, TakeWriteAtOnce, BecomeWriter, Enter
  <2>4. CountsMatch'
    BY <1>4, <2>2 DEF CountsMatch, TypeOK, LockTypeOK, TakeWriteAtOnce,
                      BecomeWriter, WriteBlocked, Enter
  <2>5. OneThing' /\ Apart' /\ NoLostWakeup'
    BY <1>4, <2>1 DEF TypeOK, LockTypeOK, OneThing, Apart, NoLostWakeup, Outside,
                      TakeWriteAtOnce, BecomeWriter, WriteBlocked, ReadBlocked, Enter
  <2> QED
    BY <2>3, <2>4, <2>5
<1>5. ASSUME NEW t \in Threads, Outside(t), AnnounceAndSleep(t), UNCHANGED holds
      PROVE  IInv'
  <2>1. holds' = [holds EXCEPT ![t] = "none"] /\ t \notin Readers
        /\ t \notin Writers
    BY <1>5 DEF Outside, TypeOK, LockTypeOK, Readers, Writers
  <2>2. Readers' = Readers /\ Writers' = Writers \cup {t}
    BY <1>5, <2>1 DEF TypeOK, LockTypeOK, Readers, Writers, AnnounceAndSleep
  <2>3. Cardinality(Writers') = Cardinality(Writers) + 1
    BY <2>1, <2>2, CountOneMore DEF Writers
  <2>4. TypeOK' /\ CountsMatch'
    BY <1>5, <2>2, <2>3 DEF TypeOK, LockTypeOK, CountsMatch, AnnounceAndSleep
  <2>5. OneThing' /\ Apart' /\ NoLostWakeup'
    BY <1>5, <2>1 DEF TypeOK, LockTypeOK, OneThing, Apart, NoLostWakeup, Outside,
                      AnnounceAndSleep, WriteBlocked, ReadBlocked
  <2> QED
    BY <2>4, <2>5
<1>6. ASSUME NEW t \in Threads, WokenWriter(t), TakeWriteWoken(t),
             Enter(t, "write")
      PROVE  IInv'
  <2>1. t \notin Readers /\ t \in Writers /\ t \notin asleep
    BY <1>6 DEF WokenWriter, Readers, Writers, OneThing
  <2>2. Readers' = Readers /\ Writers' = Writers \ {t}
    BY <1>6, <2>1 DEF TypeOK, LockTypeOK, Readers, Writers, TakeWriteWoken, BecomeWriter, Enter
  <2>3. Cardinality(Writers') = Cardinality(Writers) - 1
        /\ Cardinality(Writers') \in Nat
    BY <2>1, <2>2, CountOneLess, SubsetsFinite DEF Writers
  <2>4. TypeOK'
    BY <1>6, <2>2, <2>3 DEF CountsMatch, TypeOK, LockTypeOK, TakeWriteWoken,
                            BecomeWriter, Enter
  <2>5. CountsMatch'
    BY <1>6, <2>2, <2>3 DEF CountsMatch, TypeOK, LockTypeOK, TakeWriteWoken,
                            BecomeWriter, WriteBlocked, Enter
  <2>6. OneThing' /\ Apart'
    BY <1>6 DEF TypeOK, LockTypeOK, OneThing, Apart, WokenWriter, TakeWriteWoken,
                BecomeWriter, WriteBlocked, Enter
  <2>7. NoLostWakeup'
    BY <1>6, <2>1 DEF TypeOK, LockTypeOK, NoLostWakeup, TakeWriteWoken,
                      BecomeWriter, WriteBlocked, ReadBlocked
  <2> QED
    BY <2>4, <2>5, <2>6, <2>7
<1>7. ASSUME NEW t \in Threads, WokenWriter(t), SleepAgainForWrite(t),
             UNCHANGED holds
      PROVE  IInv'
  <2>1. Readers' = Readers /\ Writers' = Writers
    BY <1>7 DEF SleepAgainForWrite, Readers, Writers
  <2> QED
    BY <1>7, <2>1 DEF TypeOK, LockTypeOK, CountsMatch, OneThing, Apart, NoLostWakeup,
                WokenWriter, SleepAgainForWrite, WriteBlocked, ReadBlocked
<1>8. ASSUME NEW t \in Threads, NestWrite(t)
      PROVE  IInv'
  <2>1. Readers' = Readers /\ Writers' = Writers
    BY <1>8 DEF NestWrite, ReenterWrite, Readers, Writers
  <2> QED
    BY <1>8, <2>1 DEF TypeOK, LockTypeOK, CountsMatch, OneThing, Apart, NoLostWakeup,
                NestWrite, ReenterWrite, WriteBlocked, ReadBlocked
<1>9. ASSUME NEW t \in Threads, ExitWrite(t)
      PROVE  IInv'
  <2>1. writerThread = t /\ writeDepth \in Nat \ {0} /\ t \notin Readers
    BY <1>9 DEF ExitWrite, ReleaseWrite, ReleaseWriteRaises, CountsMatch, TypeOK,
                LockTypeOK, Readers
  <2>2. CASE writeDepth = 1
    <3>1. waitsFor' = [waitsFor EXCEPT ![t] = "none"] /\ t \notin Writers
      BY <1>9 DEF ExitWrite, ReleaseWrite, OneThing, TypeOK, LockTypeOK, Writers
    <3>2. Readers' = Readers /\ Writers' = Writers
      BY <1>9, <2>1, <2>2, <3>1 DEF TypeOK, LockTypeOK, Readers, Writers, ExitWrite, Leave
    <3>3. TypeOK' /\ CountsMatch'
      BY <1>9, <2>1, <2>2, <3>2 DEF TypeOK, LockTypeOK, CountsMatch, ExitWrite,
                                    ReleaseWrite, NotifyAll, Leave
    <3>4. OneThing' /\ Apart' /\ NoLostWakeup'
      BY <1>9, <2>2 DEF TypeOK, LockTypeOK, OneThing, Apart, NoLostWakeup,
                        ExitWrite, ReleaseWrite, NotifyAll, Leave
    <3> QED
      BY <3>3, <3>4
  <2>3. CASE writeDepth # 1
    <3>1. Readers' = Readers /\ Writers' = Writers
      BY <1>9, <2>3 DEF ExitWrite, ReleaseWrite, Readers, Writers
    <3> QED
      BY <1>9, <2>1, <2>3, <3>1
         DEF TypeOK, LockTypeOK, CountsMatch, OneThing, Apart, NoLostWakeup,
             ExitWrite, ReleaseWrite, WriteBlocked, ReadBlocked
  <2> QED
    BY <2>2, <2>3
<1>10. CASE UNCHANGED vars
  BY <1>10 DEF vars, lockVars, TypeOK, LockTypeOK, CountsMatch, OneThing, Apart,
               NoLostWakeup, Readers, Writers, ReadBlocked, WriteBlocked
<1>11. ASSUME NEW t \in Threads, Step(t)
       PROVE  IInv'
  BY <1>11, <1>1, <1>2, <1>3, <1>4, <1>5, <1>6, <1>7, <1>8, <1>9
     DEF Step, AcquireRead, ResumeRead, AcquireWrite, ResumeWrite
<1> QED
  BY <1>10, <1>11 DEF Next

\* The inductive invariant holds in every reachable state.
THEOREM Invariant == Spec => []IInv
<1>1. Init => IInv
  BY InitIInv
<1>2. IInv /\ [Next]_vars => IInv'
  BY StepIInv
<1> QED
  BY <1>1, <1>2, PTL DEF Spec

\* Every state has the declared types: in particular neither counter of the
\* monitor ever goes below zero.
THEOREM TypeCorrect == Spec => []TypeOK
<1>1. IInv => TypeOK
  BY DEF IInv
<1> QED
  BY <1>1, Invariant, PTL

\* The counters agree with what the threads are doing.
THEOREM CountsCorrect == Spec => []CountsMatch
<1>1. IInv => CountsMatch
  BY DEF IInv
<1> QED
  BY <1>1, Invariant, PTL

\* A thread in a write section is alone, for any number of threads and any
\* nesting of write sections.
THEOREM MutualExclusion == Spec => []Exclusion
<1>1. IInv => Exclusion
  <2> SUFFICES ASSUME IInv, NEW t \in Threads, NEW u \in Threads, t # u,
                      holds[t] = "write"
               PROVE  holds[u] = "none"
    BY DEF Exclusion
  <2>1. writerThread = t /\ holds[u] # "write"
    BY DEF IInv, CountsMatch
  <2>2. Readers = {}
    BY <2>1, CountZero, NoThreadAssumption DEF IInv, CountsMatch, Apart, Readers
  <2> QED
    BY <2>1, <2>2 DEF IInv, TypeOK, Readers
<1> QED
  BY <1>1, Invariant, PTL

\* No thread sleeps on the condition when its loop condition is false.
THEOREM NoWakeupIsLost == Spec => []NoLostWakeup
<1>1. IInv => NoLostWakeup
  BY DEF IInv
<1> QED
  BY <1>1, Invariant, PTL

-----------------------------------------------------------------------------

\* One step of a thread is one step of the abstract lock, or changes nothing
\* that the abstract lock can see.
LEMMA StepSimulates == IInv /\ [Next]_vars => [RW!Next]_(RW!vars)
<1> SUFFICES ASSUME IInv, [Next]_vars PROVE [RW!Next]_(RW!vars)
  OBVIOUS
<1> USE NoThreadAssumption DEF IInv
<1>1. ASSUME NEW t \in Threads, Outside(t) \/ WokenReader(t),
             TakeRead(t), Enter(t, "read")
      PROVE  RW!BeginRead(t)
  <2>1. writerThread = NoThread /\ numWritersWaiting = 0
    BY <1>1 DEF TakeRead, ReadBlocked, TypeOK, LockTypeOK
  <2>2. Writers = {}
    BY <2>1, CountZero DEF CountsMatch, Writers
  <2>3. t \notin Readers
    BY <1>1 DEF Outside, WokenReader, OneThing, Readers
  <2>4. Readers' = Readers \cup {t} /\ Writers' = Writers
    BY <1>1, <2>2 DEF TypeOK, LockTypeOK, Readers, Writers, TakeRead, Enter
  <2> QED
    BY <1>1, <2>1, <2>2, <2>3, <2>4 DEF RW!BeginRead, TakeRead
<1>2. ASSUME NEW t \in Threads, Outside(t) \/ WokenReader(t),
             SleepForRead(t), UNCHANGED holds
      PROVE  UNCHANGED RW!vars
  BY <1>2 DEF RW!vars, Outside, WokenReader, SleepForRead, TypeOK, LockTypeOK,
              Readers, Writers
<1>3. ASSUME NEW t \in Threads, ExitRead(t)
      PROVE  RW!EndRead(t)
  <2>1. Readers' = Readers \ {t} /\ Writers' = Writers /\ t \in Readers
    BY <1>3 DEF TypeOK, LockTypeOK, Readers, Writers, ExitRead, ReleaseRead, Leave
  <2> QED
    BY <1>3, <2>1 DEF RW!EndRead, ExitRead, ReleaseRead
<1>4. ASSUME NEW t \in Threads, BecomeWriter(t), Enter(t, "write"),
             Outside(t) \/ WokenWriter(t)
      PROVE  RW!BeginWrite(t)
  <2>1. writerThread = NoThread /\ numReaders = 0
    BY <1>4 DEF BecomeWriter, WriteBlocked, TypeOK, LockTypeOK
  <2>2. Readers = {}
    BY <2>1, CountZero DEF CountsMatch, Readers
  <2>3. Readers' = Readers /\ Writers' = Writers \ {t}
    BY <1>4, <2>2 DEF TypeOK, LockTypeOK, Readers, Writers, BecomeWriter, Enter
  <2> QED
    BY <1>4, <2>1, <2>2, <2>3 DEF RW!BeginWrite, BecomeWriter
<1>5. ASSUME NEW t \in Threads, Outside(t), AnnounceAndSleep(t), UNCHANGED holds
      PROVE  RW!RequestWrite(t)
  <2>1. Readers' = Readers /\ Writers' = Writers \cup {t}
        /\ t \notin Readers \cup Writers
    BY <1>5 DEF TypeOK, LockTypeOK, Readers, Writers, Outside, AnnounceAndSleep
  <2> QED
    BY <1>5, <2>1 DEF RW!RequestWrite, AnnounceAndSleep
<1>6. ASSUME NEW t \in Threads, SleepAgainForWrite(t), UNCHANGED holds
      PROVE  UNCHANGED RW!vars
  BY <1>6 DEF RW!vars, SleepAgainForWrite, Readers, Writers
<1>7. ASSUME NEW t \in Threads, NestWrite(t)
      PROVE  UNCHANGED RW!vars
  BY <1>7 DEF RW!vars, NestWrite, ReenterWrite, Readers, Writers
<1>8. ASSUME NEW t \in Threads, ExitWrite(t)
      PROVE  RW!EndWrite(t) \/ UNCHANGED RW!vars
  <2>1. writerThread = t
    BY <1>8 DEF ExitWrite, ReleaseWrite, ReleaseWriteRaises
  <2>2. Readers' = Readers /\ Writers' = Writers
    BY <1>8 DEF ExitWrite, ReleaseWrite, Leave, Readers, Writers, TypeOK, LockTypeOK
  <2> QED
    BY <1>8, <2>1, <2>2 DEF RW!vars, RW!EndWrite, ExitWrite, ReleaseWrite
<1>9. CASE UNCHANGED vars
  BY <1>9 DEF vars, lockVars, RW!vars, Readers, Writers
<1>10. ASSUME NEW t \in Threads, Step(t)
       PROVE  [RW!Next]_(RW!vars)
  BY <1>10, <1>1, <1>2, <1>3, <1>4, <1>5, <1>6, <1>7, <1>8
     DEF Step, AcquireRead, ResumeRead, AcquireWrite, ResumeWrite,
         TakeWriteAtOnce, TakeWriteWoken, RW!Next
<1> QED
  BY <1>9, <1>10 DEF Next

\* The monitor implements the abstract readers-writers lock, priority of the
\* pending writers included.
THEOREM Implementation == Spec => ImplementsReadersWriters
<1>1. Init => RW!Init
  BY DEF Init, LockInit, RW!Init, Readers, Writers
<1>2. IInv /\ [Next]_vars => [RW!Next]_(RW!vars)
  BY StepSimulates
<1> QED
  BY <1>1, <1>2, Invariant, PTL DEF Spec, ImplementsReadersWriters, RW!Spec
=============================================================================
