-------------------------- MODULE HttpClientProofs ---------------------------
(***************************************************************************)
(* Proofs about HttpClient for any set of calls, any limit of retries, any *)
(* number of closes and of event loops.                                    *)
(*                                                                         *)
(* That the bound on the number of sessions is never met needs an account  *)
(* of what each session was created for (SessionsAccounted); RetriesUsedUp *)
(* needs to know, at each place of the retry loop, how the requests sent   *)
(* relate to the attempts counted (AttemptsAccounted).                     *)
(***************************************************************************)
EXTENDS HttpClient, TLAPS

\* Each session but the first was created because one was closed by
\* graceful_close or lost its loop, and so will be the next one.
SessionsAccounted == created + (IF Usable THEN 0 ELSE 1) <= closes + loop

AttemptsAccounted ==
    \A c \in Calls :
        /\ pc[c] = "idle" => sent[c] = 0 /\ attempts[c] = first[c]
        /\ pc[c] \in {"attempt", "backoff"} =>
             /\ sent[c] + first[c] = attempts[c]
             /\ sent[c] > 0 => attempts[c] <= MaxRetries + 1
        /\ pc[c] = "sent" =>
             /\ sent[c] + first[c] = attempts[c] + 1
             /\ attempts[c] <= MaxRetries
        /\ pc[c] = "backoff" => attempts[c] <= MaxRetries

OnlyTheEndedAnswer == \A c \in Calls : pc[c] # "ended" => answer[c] = "none"

SessionInv == TypeOK /\ SessionsAccounted /\ OneOpenSession

CallInv == AttemptsAccounted /\ OnlyTheEndedAnswer /\ RetriesUsedUp

IInv == SessionInv /\ CallInv

-----------------------------------------------------------------------------

LEMMA InitIInv == Init => IInv
<1> SUFFICES ASSUME Init PROVE IInv
  OBVIOUS
<1> USE HttpAssumption
<1>1. attempts \in [Calls -> Nat] /\ sent \in [Calls -> Nat]
  BY DEF Init
<1>2. /\ loop \in 1 .. MaxLoops /\ created \in 0 .. MaxSessions /\ closes \in 0 .. MaxCloses
      /\ loopOf \in [1 .. MaxSessions -> 0 .. loop]
  BY DEF Init, MaxSessions
<1>3. TypeOK
  BY <1>1, <1>2 DEF Init, TypeOK, NoSession
<1>4. SessionsAccounted /\ OneOpenSession
  BY DEF Init, SessionsAccounted, OneOpenSession, Usable, NoSession
<1>5. CallInv
  BY DEF Init, CallInv, AttemptsAccounted, OnlyTheEndedAnswer, RetriesUsedUp
<1> QED
  BY <1>3, <1>4, <1>5 DEF IInv, SessionInv

\* ensure_session has a number left for the session it makes, and leaves one
\* open session, the current one.
LEMMA EnsureSessionKeeps ==
    ASSUME SessionInv, EnsureSession
    PROVE  /\ created' \in 0 .. MaxSessions
           /\ created <= created'
           /\ session' \in 0 .. created'
           /\ closed' \subseteq 1 .. created'
           /\ loopOf' \in [1 .. MaxSessions -> 0 .. loop']
           /\ loop' = loop /\ closes' = closes
           /\ SessionsAccounted'
           /\ OneOpenSession'
<1> USE HttpAssumption DEF SessionInv, TypeOK, MaxSessions, NoSession
<1>1. CASE Usable
  <2>1. UNCHANGED sessionVars
    BY <1>1 DEF EnsureSession
  <2>2. SessionsAccounted' /\ OneOpenSession'
    BY <2>1 DEF sessionVars, SessionsAccounted, OneOpenSession, Usable
  <2> QED
    BY <2>1, <2>2 DEF sessionVars
<1>2. CASE ~Usable
  <2>1. created + 1 <= closes + loop
    BY <1>2 DEF SessionsAccounted
  <2>2. created + 1 \in 1 .. MaxCloses + MaxLoops
    BY <2>1
  <2>3. /\ session' = created + 1 /\ created' = created + 1
        /\ loopOf' = [loopOf EXCEPT ![created + 1] = loop]
        /\ loop' = loop /\ closes' = closes
        /\ closed' = closed \cup ({session} \ {0})
    BY <1>2 DEF EnsureSession, NewSession
  <2>4. closed' \subseteq 1 .. created
    BY <2>3
  <2>5. Usable'
    BY <2>2, <2>3, <2>4 DEF Usable
  <2>6. SessionsAccounted'
    BY <2>1, <2>3, <2>5 DEF SessionsAccounted
  <2>7. OneOpenSession'
    BY <2>3 DEF OneOpenSession
  <2>8. loopOf' \in [1 .. MaxSessions -> 0 .. loop']
    BY <2>2, <2>3
  <2> QED
    BY <2>2, <2>3, <2>4, <2>6, <2>7, <2>8
<1> QED
  BY <1>1, <1>2

\* What a step of one call has to keep when it leaves the sessions alone.
LEMMA SessionsKept ==
    ASSUME SessionInv, UNCHANGED sessionVars, UNCHANGED mine,
           (/\ pc \in [Calls -> {"idle", "attempt", "sent", "backoff", "ended"}]
            /\ passthrough \in [Calls -> BOOLEAN]
            /\ first \in [Calls -> FirstAttempts]
            /\ {attempts, sent} \subseteq [Calls -> Nat]
            /\ answer \in [Calls -> {"none", "success", "server_error", "rejection",
                                     "error", "exhausted"}])'
    PROVE  SessionInv'
BY DEF SessionInv, sessionVars, TypeOK, SessionsAccounted, OneOpenSession, Usable

\* A request that failed is counted, and tried again at once or after a pause.
LEMMA CountedAgain ==
    ASSUME IInv, NEW c \in Calls, NEW l \in {"attempt", "backoff"},
           pc[c] = "sent", l = "backoff" => attempts[c] < MaxRetries,
           CountAttempt(c), Goto(c, l),
           UNCHANGED <<sessionVars, passthrough, first, mine, sent>>
    PROVE  IInv'
<1>0. TypeOK /\ SessionInv
  BY DEF IInv, SessionInv
<1>1. /\ attempts' \in [Calls -> Nat] /\ attempts'[c] = attempts[c] + 1
      /\ \A d \in Calls \ {c} : attempts'[d] = attempts[d] /\ pc'[d] = pc[d]
      /\ pc' \in [Calls -> {"idle", "attempt", "sent", "backoff", "ended"}]
      /\ pc'[c] = l
  BY <1>0 DEF TypeOK, CountAttempt, Goto
<1>2. SessionInv'
  <2>1. UNCHANGED <<passthrough, first, answer, sent, mine>> /\ UNCHANGED sessionVars
    BY DEF Goto
  <2>2. /\ passthrough' \in [Calls -> BOOLEAN]
        /\ first' \in [Calls -> FirstAttempts]
        /\ {attempts, sent}' \subseteq [Calls -> Nat]
        /\ answer' \in [Calls -> {"none", "success", "server_error", "rejection",
                                  "error", "exhausted"}]
    BY <1>0, <1>1, <2>1 DEF TypeOK
  <2>3. QED
    BY <1>0, <1>1, <2>1, <2>2, SessionsKept
<1> USE HttpAssumption DEF IInv, SessionInv, TypeOK, CallInv, AttemptsAccounted, OnlyTheEndedAnswer,
                           RetriesUsedUp, CountAttempt, Goto
<1>3. AttemptsAccounted'
  <2> SUFFICES ASSUME NEW d \in Calls PROVE AttemptsAccounted!(d)'
    OBVIOUS
  <2>1. CASE d = c
    BY <1>1, <2>1
  <2>2. CASE d # c
    BY <1>1, <2>2
  <2> QED
    BY <2>1, <2>2
<1>4. OnlyTheEndedAnswer' /\ RetriesUsedUp'
  BY <1>1
<1> QED
  BY <1>2, <1>3, <1>4

-----------------------------------------------------------------------------

LEMMA StepIInv == IInv /\ [Next]_vars => IInv'
<1> SUFFICES ASSUME IInv, [Next]_vars PROVE IInv'
  OBVIOUS
<1> USE HttpAssumption DEF IInv
<1>1. CASE GracefulClose
  <2>1. TypeOK' /\ OneOpenSession'
    BY <1>1 DEF GracefulClose, SessionInv, TypeOK, OneOpenSession, NoSession
  <2>2. SessionsAccounted'
    BY <1>1 DEF GracefulClose, SessionInv, TypeOK, SessionsAccounted
  <2>3. CallInv'
    BY <1>1 DEF GracefulClose, CallInv, AttemptsAccounted, OnlyTheEndedAnswer,
                RetriesUsedUp
  <2> QED
    BY <2>1, <2>2, <2>3 DEF SessionInv
<1>2. CASE LoopEnds
  <2>1. TypeOK' /\ OneOpenSession'
    BY <1>2 DEF LoopEnds, SessionInv, TypeOK, OneOpenSession
  <2>2. SessionsAccounted'
    BY <1>2 DEF LoopEnds, SessionInv, TypeOK, SessionsAccounted
  <2>3. CallInv'
    BY <1>2 DEF LoopEnds, CallInv, AttemptsAccounted, OnlyTheEndedAnswer,
                RetriesUsedUp
  <2> QED
    BY <2>1, <2>2, <2>3 DEF SessionInv
<1>3. ASSUME NEW c \in Calls, Begin(c) PROVE IInv'
  <2>1. EnsureSession /\ mine' = [mine EXCEPT ![c] = session']
    BY <1>3 DEF Begin
  <2>2. mine' \in [Calls -> 0 .. created']
    BY <2>1, EnsureSessionKeeps DEF SessionInv, TypeOK
  <2>3. SessionInv'
    BY <1>3, <2>1, <2>2, EnsureSessionKeeps DEF SessionInv, TypeOK, Begin, Goto
  <2>4. CallInv'
    BY <1>3 DEF Begin, Goto, SessionInv, TypeOK, CallInv, AttemptsAccounted,
                OnlyTheEndedAnswer, RetriesUsedUp
  <2> QED
    BY <2>3, <2>4
<1>4. ASSUME NEW c \in Calls, Attempt(c) PROVE IInv'
  <2> USE DEF SessionInv, TypeOK, CallInv, AttemptsAccounted, OnlyTheEndedAnswer,
              RetriesUsedUp
  <2>1. CASE mine[c] \in closed
    <3>1. End(c, "error") /\ UNCHANGED <<sessionVars, passthrough, first, mine, attempts, sent>>
      BY <1>4, <2>1 DEF Attempt
    <3>2. SessionInv'
      BY <3>1, SessionsKept DEF End
    <3>3. CallInv'
      BY <3>1 DEF End
    <3> QED
      BY <3>2, <3>3
  <2>2. CASE mine[c] \notin closed
    <3>1. /\ pc[c] = "attempt" /\ attempts[c] <= MaxRetries
          /\ pc' = [pc EXCEPT ![c] = "sent"]
          /\ sent' = [sent EXCEPT ![c] = @ + 1]
          /\ UNCHANGED <<sessionVars, passthrough, first, mine, attempts, answer>>
      BY <1>4, <2>2 DEF Attempt, Goto
    <3>2. sent' \in [Calls -> Nat]
      BY <3>1
    <3>3. SessionInv'
      BY <3>1, <3>2, SessionsKept
    <3>4. /\ sent'[c] = sent[c] + 1 /\ pc'[c] = "sent"
          /\ sent[c] + first[c] = attempts[c]
          /\ \A d \in Calls \ {c} : sent'[d] = sent[d] /\ pc'[d] = pc[d]
      BY <3>1
    <3>5. sent'[c] + first[c] = attempts[c] + 1 /\ sent'[c] + first[c] <= MaxRetries + 1
      <4>1. /\ sent[c] \in Nat /\ first[c] \in Nat /\ attempts[c] \in Nat
            /\ MaxRetries \in Nat
        OBVIOUS
      <4> QED
        BY ONLY <3>1, <3>4, <4>1
    <3>6. AttemptsAccounted'
      BY <3>1, <3>4, <3>5
    <3>7. OnlyTheEndedAnswer'
      BY <3>1
    <3>8. RetriesUsedUp'
      BY <3>1, <3>4, <3>5
    <3> QED
      BY <3>3, <3>6, <3>7, <3>8
  <2> QED
    BY <2>1, <2>2
<1>5. ASSUME NEW c \in Calls, GiveUp(c) PROVE IInv'
  <2>1. /\ pc[c] = "attempt" /\ attempts[c] > MaxRetries
        /\ End(c, "exhausted")
        /\ UNCHANGED <<sessionVars, passthrough, first, mine, attempts, sent>>
    BY <1>5 DEF GiveUp
  <2> USE DEF SessionInv, TypeOK, CallInv, AttemptsAccounted, OnlyTheEndedAnswer,
              RetriesUsedUp, End
  <2>2. SessionInv'
    BY <2>1, SessionsKept
  <2>3. first[c] <= MaxRetries => sent[c] + first[c] = MaxRetries + 1
    <3>1. /\ sent[c] \in Nat /\ first[c] \in Nat /\ attempts[c] \in Nat
          /\ MaxRetries \in Nat
      OBVIOUS
    <3>2. sent[c] + first[c] = attempts[c] /\ (sent[c] > 0 => attempts[c] <= MaxRetries + 1)
      BY <2>1
    <3> QED
      BY ONLY <2>1, <3>1, <3>2
  <2>4. AttemptsAccounted' /\ OnlyTheEndedAnswer'
    BY <2>1
  <2>5. RetriesUsedUp'
    BY <2>1, <2>3
  <2> QED
    BY <2>2, <2>4, <2>5
<1>6. ASSUME NEW c \in Calls, Success(c) \/ ClientRejection(c) \/ OtherException(c)
      PROVE  IInv'
  <2>1. PICK kind \in {"success", "rejection", "error"} :
            /\ pc[c] = "sent" /\ End(c, kind)
            /\ UNCHANGED <<sessionVars, passthrough, first, mine, sent, attempts>>
    BY <1>6 DEF Success, ClientRejection, OtherException, Answered
  <2>2. SessionInv'
    BY <2>1, SessionsKept DEF End, SessionInv, TypeOK
  <2>3. CallInv'
    BY <2>1 DEF End, SessionInv, TypeOK, CallInv, AttemptsAccounted,
                OnlyTheEndedAnswer, RetriesUsedUp
  <2> QED
    BY <2>2, <2>3
<1>7. ASSUME NEW c \in Calls, ServerError(c) PROVE IInv'
  <2>1. pc[c] = "sent" /\ UNCHANGED <<sessionVars, passthrough, first, mine, sent>>
    BY <1>7 DEF ServerError, Answered
  <2> USE DEF SessionInv, TypeOK, CallInv, AttemptsAccounted, OnlyTheEndedAnswer,
              RetriesUsedUp
  <2>2. CASE passthrough[c] /\ End(c, "server_error") /\ UNCHANGED attempts
    <3>1. SessionInv'
      BY <2>1, <2>2, SessionsKept DEF End
    <3>2. CallInv'
      BY <2>1, <2>2 DEF End
    <3> QED
      BY <3>1, <3>2
  <2>3. CASE attempts[c] < MaxRetries /\ CountAttempt(c) /\ Goto(c, "backoff")
    BY <2>1, <2>3, CountedAgain
  <2>4. CASE attempts[c] >= MaxRetries /\ End(c, "exhausted") /\ UNCHANGED attempts
    <3>1. SessionInv'
      BY <2>1, <2>4, SessionsKept DEF End
    <3>2. sent[c] + first[c] = MaxRetries + 1
      BY <2>1, <2>4
    <3>3. AttemptsAccounted' /\ OnlyTheEndedAnswer'
      BY <2>1, <2>4 DEF End
    <3>4. RetriesUsedUp'
      BY <2>1, <2>4, <3>2 DEF End
    <3> QED
      BY <3>1, <3>3, <3>4
  <2> QED
    BY <1>7, <2>2, <2>3, <2>4 DEF ServerError
<1>8. ASSUME NEW c \in Calls, Transient(c) PROVE IInv'
  <2>1. PICK l \in {"attempt", "backoff"} :
            /\ l = "backoff" => attempts[c] < MaxRetries
            /\ pc[c] = "sent" /\ CountAttempt(c) /\ Goto(c, l)
            /\ UNCHANGED <<sessionVars, passthrough, first, mine, sent>>
    BY <1>8 DEF Transient
  <2> QED
    BY <2>1, CountedAgain
<1>9. ASSUME NEW c \in Calls, Sleep(c) PROVE IInv'
  <2>1. SessionInv'
    BY <1>9, SessionsKept DEF Sleep, Goto, SessionInv, TypeOK
  <2>2. CallInv'
    BY <1>9 DEF Sleep, Goto, SessionInv, TypeOK, CallInv, AttemptsAccounted,
                OnlyTheEndedAnswer, RetriesUsedUp
  <2> QED
    BY <2>1, <2>2
<1>10. CASE UNCHANGED vars
  <2>1. SessionInv'
    BY <1>10, SessionsKept DEF vars, SessionInv, TypeOK
  <2>2. CallInv'
    BY <1>10 DEF vars, CallInv, AttemptsAccounted, OnlyTheEndedAnswer, RetriesUsedUp
  <2> QED
    BY <2>1, <2>2
<1> QED
  BY <1>1, <1>2, <1>3, <1>4, <1>5, <1>6, <1>7, <1>8, <1>9, <1>10 DEF Next, Continue

\* The inductive invariant holds in every reachable state.
THEOREM Invariant == Spec => []IInv
<1>1. Init => IInv
  BY InitIInv
<1>2. IInv /\ [Next]_vars => IInv'
  BY StepIInv
<1> QED
  BY <1>1, <1>2, PTL DEF Spec

\* Every state has the declared types.  In particular the sessions made never
\* outnumber the closes and the loops: concurrent first calls share one.
THEOREM TypeCorrect == Spec => []TypeOK
<1>1. IInv => TypeOK
  BY DEF IInv, SessionInv
<1> QED
  BY <1>1, Invariant, PTL

\* At most one session is open, the current one, however closes, new loops and
\* first calls interleave (ensure_session, graceful_close).
THEOREM SessionsAreClosed == Spec => []OneOpenSession
<1>1. IInv => OneOpenSession
  BY DEF IInv, SessionInv
<1> QED
  BY <1>1, Invariant, PTL

\* For any limit of retries and any first attempt number, a call sends at most
\* the requests the limit allows, and one that ends exhausted has sent them all.
THEOREM RetriesBounded == Spec => []RetriesUsedUp
<1>1. IInv => RetriesUsedUp
  BY DEF IInv, CallInv
<1> QED
  BY <1>1, Invariant, PTL
=============================================================================
