----------------------------- MODULE HttpClient ------------------------------
(***************************************************************************)
(* AsyncHTTPClient (core/http.py): calls of fetch share one session, which *)
(* ensure_session creates when there is none that can be used and          *)
(* graceful_close closes at any time.  A call keeps the session it began   *)
(* with through all its retries.                                           *)
(*                                                                         *)
(* aiohttp is modelled as fetch uses it: a request on a closed session     *)
(* raises RuntimeError, one that is under way when the session is closed   *)
(* ends with a ClientError.  Closing marks the session as closed before it *)
(* awaits, and ensure_session, which only closes sessions that are closed  *)
(* or whose loop has gone, never gives way to another task.                *)
(***************************************************************************)
EXTENDS Naturals, FiniteSets

CONSTANTS
    Calls,          \* calls of fetch, each made once
    MaxRetries,     \* max_retries
    FirstAttempts,  \* values of retry_attempts the callers give
    MaxCloses,      \* bound on the calls of graceful_close
    MaxLoops        \* bound on the event loops, one after the other

ASSUME HttpAssumption ==
    /\ {MaxRetries, MaxCloses} \subseteq Nat
    /\ MaxLoops \in Nat \ {0}
    /\ FirstAttempts \subseteq Nat

NoSession == 0

VARIABLES
    session,      \* _session, numbered in the order of creation
    created,      \* sessions created so far
    closed,       \* the sessions closed
    loop,         \* the event loop that runs
    loopOf,       \* session -> its loop
    closes,       \* calls of graceful_close so far
    pc,           \* call -> where it is
    passthrough,  \* call -> passthrough_errors
    first,        \* call -> retry_attempts as given by the caller
    mine,         \* call -> the session it uses
    attempts,     \* call -> retry_attempts as it counts them
    sent,         \* history: call -> requests it has sent
    answer        \* call -> kind of what it returned or raised at the end

sessionVars == <<session, created, closed, loop, loopOf, closes>>
vars == <<sessionVars, pc, passthrough, first, mine, attempts, sent, answer>>

MaxSessions == MaxCloses + MaxLoops

Init ==
    /\ session = NoSession
    /\ created = 0
    /\ closed = {}
    /\ loop = 1
    /\ loopOf = [s \in 1 .. MaxSessions |-> 0]
    /\ closes = 0
    /\ pc = [c \in Calls |-> "idle"]
    /\ passthrough \in [Calls -> BOOLEAN]
    /\ mine = [c \in Calls |-> NoSession]
    /\ first \in [Calls -> FirstAttempts]
    /\ attempts = first
    /\ sent = [c \in Calls |-> 0]
    /\ answer = [c \in Calls |-> "none"]

-----------------------------------------------------------------------------
(* The session                                                              *)

Usable == session # NoSession /\ session \notin closed /\ loopOf[session] = loop

NewSession ==
    /\ session' = created + 1
    /\ created' = created + 1
    /\ loopOf' = [loopOf EXCEPT ![created + 1] = loop]
    /\ UNCHANGED <<loop, closes>>

\* Mutant: the session of a loop that has gone is not closed.
EnsureSessionDropping ==
    IF Usable THEN UNCHANGED sessionVars ELSE NewSession /\ UNCHANGED closed

\* Mutant: closes what there is without looking whether there is anything.
EnsureSessionClosing ==
    IF Usable
      THEN UNCHANGED sessionVars
      ELSE NewSession /\ closed' = closed \cup {session}

\* A session that cannot be used is closed, and replaced.
EnsureSession ==
    IF Usable
      THEN UNCHANGED sessionVars
      ELSE NewSession /\ closed' = closed \cup ({session} \ {NoSession})

\* From shutdown, any number of times.
GracefulClose ==
    /\ closes < MaxCloses
    /\ closes' = closes + 1
    /\ closed' = closed \cup ({session} \ {NoSession})
    /\ UNCHANGED <<session, created, loop, loopOf, pc, passthrough, first, mine, attempts,
                   sent, answer>>

\* The loop is closed, its tasks with it, and another one runs.
LoopEnds ==
    /\ loop < MaxLoops
    /\ \A c \in Calls : pc[c] \in {"idle", "ended"}
    /\ loop' = loop + 1
    /\ UNCHANGED <<session, created, closed, loopOf, closes, pc, passthrough, first,
                   mine, attempts, sent, answer>>

-----------------------------------------------------------------------------
(* fetch                                                                    *)

Goto(c, l) == pc' = [pc EXCEPT ![c] = l] /\ UNCHANGED answer

End(c, kind) ==
    /\ pc' = [pc EXCEPT ![c] = "ended"]
    /\ answer' = [answer EXCEPT ![c] = kind]

Begin(c) ==
    /\ pc[c] = "idle"
    /\ EnsureSession
    /\ mine' = [mine EXCEPT ![c] = session']
    /\ Goto(c, "attempt")
    /\ UNCHANGED <<passthrough, first, attempts, sent>>

\* Mutant: waits for the session to be open.
AttemptWhenOpen(c) ==
    /\ pc[c] = "attempt"
    /\ attempts[c] <= MaxRetries
    /\ mine[c] \notin closed
    /\ Goto(c, "sent")
    /\ sent' = [sent EXCEPT ![c] = @ + 1]
    /\ UNCHANGED <<sessionVars, passthrough, first, mine, attempts>>

\* The head of the while loop.  Without an exception to raise again, it raises
\* LinglongHTTPError: retry_attempts was over the limit from the start.
Attempt(c) ==
    /\ pc[c] = "attempt"
    /\ attempts[c] <= MaxRetries
    /\ IF mine[c] \in closed
         THEN End(c, "error") /\ UNCHANGED sent
         ELSE Goto(c, "sent") /\ sent' = [sent EXCEPT ![c] = @ + 1]
    /\ UNCHANGED <<sessionVars, passthrough, first, mine, attempts>>

GiveUp(c) ==
    /\ pc[c] = "attempt"
    /\ attempts[c] > MaxRetries
    /\ End(c, "exhausted")
    /\ UNCHANGED <<sessionVars, passthrough, first, mine, attempts, sent>>

\* A request under way over an open session.
Answered(c) ==
    /\ pc[c] = "sent"
    /\ mine[c] \notin closed
    /\ UNCHANGED <<sessionVars, passthrough, first, mine, sent>>

CountAttempt(c) == attempts' = [attempts EXCEPT ![c] = @ + 1]

\* An answer of any other status, 400, 403, 405, 422 and 429 among them, is
\* returned to every caller.
Success(c) == Answered(c) /\ End(c, "success") /\ UNCHANGED attempts

\* 5xx: returned as it is to a caller that wants it, retried, and raised by
\* the last attempt.
ServerError(c) ==
    /\ Answered(c)
    /\ \/ passthrough[c] /\ End(c, "server_error") /\ UNCHANGED attempts
       \/ /\ ~passthrough[c]
          /\ attempts[c] < MaxRetries
          /\ CountAttempt(c)
          /\ Goto(c, "backoff")
       \/ /\ ~passthrough[c]
          /\ attempts[c] >= MaxRetries
          /\ End(c, "exhausted")
          /\ UNCHANGED attempts

\* 401 and 404 are raised and not retried.
ClientRejection(c) ==
    /\ Answered(c)
    /\ End(c, IF passthrough[c] THEN "rejection" ELSE "error")
    /\ UNCHANGED attempts

\* Mutant: a timed-out request counts twice, once for the exception.
TransientCountedTwice(c) ==
    /\ pc[c] = "sent"
    /\ attempts' = [attempts EXCEPT ![c] = @ + 2]
    /\ Goto(c, IF attempts[c] < MaxRetries THEN "backoff" ELSE "attempt")
    /\ UNCHANGED <<sessionVars, passthrough, first, mine, sent>>

\* A timeout or ClientError, the end of the session under way among them; after
\* the last attempt there is no pause.
Transient(c) ==
    /\ pc[c] = "sent"
    /\ CountAttempt(c)
    /\ Goto(c, IF attempts[c] < MaxRetries THEN "backoff" ELSE "attempt")
    /\ UNCHANGED <<sessionVars, passthrough, first, mine, sent>>

\* Any other exception, an answer that is no JSON for instance.
OtherException(c) == Answered(c) /\ End(c, "error") /\ UNCHANGED attempts

Sleep(c) ==
    /\ pc[c] = "backoff"
    /\ Goto(c, "attempt")
    /\ UNCHANGED <<sessionVars, passthrough, first, mine, attempts, sent>>

Continue(c) ==
    \/ Attempt(c) \/ GiveUp(c) \/ Success(c) \/ ServerError(c) \/ ClientRejection(c)
    \/ Transient(c) \/ OtherException(c) \/ Sleep(c)

Next ==
    \/ GracefulClose \/ LoopEnds
    \/ \E c \in Calls : Begin(c) \/ Continue(c)

Spec == Init /\ [][Next]_vars

\* A request ends by its own timeout and a pause by its delay.
FairSpec == Spec /\ \A c \in Calls : WF_vars(Continue(c))

-----------------------------------------------------------------------------

TypeOK ==
    /\ session \in 0 .. created
    /\ created \in 0 .. MaxSessions
    /\ closed \subseteq 1 .. created
    /\ loop \in 1 .. MaxLoops
    /\ loopOf \in [1 .. MaxSessions -> 0 .. loop]
    /\ closes \in 0 .. MaxCloses
    /\ pc \in [Calls -> {"idle", "attempt", "sent", "backoff", "ended"}]
    /\ passthrough \in [Calls -> BOOLEAN]
    /\ mine \in [Calls -> 0 .. created]
    /\ first \in [Calls -> FirstAttempts]
    /\ {attempts, sent} \subseteq [Calls -> Nat]
    /\ answer \in [Calls -> {"none", "success", "server_error", "rejection",
                             "error", "exhausted"}]

\* However closing, new loops and first requests interleave, at most one
\* session is open, the one that new calls get (http.py:284-295).
OneOpenSession == \A s \in 1 .. created : s = session \/ s \in closed

\* No call sends more requests than its first attempt and max_retries retries
\* allow, whatever mixture of exceptions and server errors it meets, and one
\* that ends for want of retries has used them all (http.py:148, 198-209,
\* 268-272).
RetriesUsedUp ==
    \A c \in Calls :
        /\ sent[c] > 0 => sent[c] + first[c] <= MaxRetries + 1
        /\ answer[c] = "exhausted" /\ first[c] <= MaxRetries =>
             sent[c] + first[c] = MaxRetries + 1

\* Every call ends, also when its session is closed between two attempts.
CallsEnd == \A c \in Calls : pc[c] # "idle" ~> pc[c] = "ended"
=============================================================================
