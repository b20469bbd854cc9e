------------------------------ MODULE LlmCalls ------------------------------
(***************************************************************************)
(* helpers/gpt_llm.py: calls of several threads to OpenAI.  They share the *)
(* circuit breaker (failures in a row, and the time until which new calls  *)
(* fail fast); each has its own attempts and deadline.  Time is ticks; a   *)
(* request ends within the timeout it is given.                            *)
(***************************************************************************)
EXTENDS Integers, FiniteSets

CONSTANTS
    LlmAsks,          \* calls
    Streamed,         \* those of stream_gpt_text
    LlmMaxTries,      \* OPENAI_MAX_ATTEMPTS
    LlmDeadline,      \* OPENAI_CALL_DEADLINE_SECONDS, in ticks
    LlmTimeout,       \* the timeout of one request, in ticks
    LlmDelays,        \* the waits _classify_failure asks for, in ticks
    StopAfter,        \* _STOP_AFTER_FAILURES
    Cooldown          \* _COOLDOWN_SECONDS, in ticks

ASSUME LlmCallsAssumption ==
    /\ Streamed \subseteq LlmAsks
    /\ LlmMaxTries \in Nat \ {0} /\ LlmDeadline \in Nat \ {0} /\ LlmTimeout \in Nat \ {0}
    /\ LlmDelays \subseteq Nat \ {0}
    /\ StopAfter \in Nat \ {0} /\ Cooldown \in Nat \ {0}

VARIABLES
    ask,         \* ask[a]: where the call is
    failures,    \* _consecutive_failures
    stopped,     \* ticks until _stopped_until
    llmKey,      \* OPENAI_KEY is set
    logged       \* the calls with a row in llm_usage

llmCallsVars == <<ask, failures, stopped, llmKey, logged>>

Ends == {"answer", "empty", "unavailable"}

\* left: ticks until the request times out, or until the wait is over.
AskStates ==
    [at : {"idle", "ready", "posting", "waiting"} \cup Ends, tries : 0 .. LlmMaxTries,
     elapsed : 0 .. LlmDeadline, left : 0 .. LlmDeadline]

LlmCallsTypeOK ==
    /\ ask \in [LlmAsks -> AskStates]
    /\ failures \in 0 .. StopAfter - 1
    /\ stopped \in 0 .. Cooldown
    /\ llmKey \in BOOLEAN
    /\ logged \subseteq LlmAsks

LlmCallsInit ==
    /\ ask = [a \in LlmAsks |-> [at |-> "idle", tries |-> 0, elapsed |-> 0, left |-> 0]]
    /\ failures = 0
    /\ stopped = 0
    /\ llmKey \in BOOLEAN
    /\ logged = {}

Finished(a, result) == ask' = [ask EXCEPT ![a].at = result, ![a].left = 0, ![a].elapsed = 0]

LeastOf(i, j) == IF i < j THEN i ELSE j

\* max(min(timeout, remaining), 1.0)
RequestTimeout(a) ==
    LET given == LeastOf(LlmTimeout, LlmDeadline - ask[a].elapsed) IN IF given < 1 THEN 1 ELSE given

\* No key: {}, "" or [] without a request (a stream raises).  An open breaker fails fast.
LlmStart(a) ==
    /\ ask[a].at = "idle"
    /\ IF ~llmKey THEN Finished(a, "empty")
       ELSE IF stopped > 0 THEN Finished(a, "unavailable")
       ELSE ask' = [ask EXCEPT ![a].at = "ready"]
    /\ UNCHANGED <<failures, stopped, llmKey, logged>>

LlmPost(a) ==
    /\ ask[a].at = "ready"
    /\ ask' = [ask EXCEPT ![a].at = "posting", ![a].tries = @ + 1, 
                         ![a].left = IF a \in Streamed THEN 0 ELSE RequestTimeout(a)]
    /\ UNCHANGED <<failures, stopped, llmKey, logged>>

\* _record_usage: it never raises, and the row may be lost.
Recorded(a) == logged' \in {logged, logged \cup {a}}

\* 200: the breaker's counter starts again, though not for a stream.  What comes
\* back may be unusable.
LlmAnswered(a) ==
    /\ ask[a].at = "posting"
    /\ \E result \in {"answer", "empty"} : Finished(a, result)
    /\ Recorded(a)
    /\ failures' = IF a \in Streamed THEN failures ELSE 0
    /\ UNCHANGED <<stopped, llmKey>>

\* 400, 404, 422: not an availability problem; the callers return nothing, a stream raises.
LlmInvalid(a) ==
    /\ ask[a].at = "posting"
    /\ Finished(a, "empty")
    /\ UNCHANGED <<failures, stopped, llmKey, logged>>

\* Mutant: only the breaker ends the retries, as it once did.
GivesUpByBreaker(a, delay) == FALSE

\* attempts >= attempts_allowed or elapsed + delay >= deadline_seconds
GivesUp(a, delay) == ask[a].tries >= LlmMaxTries \/ ask[a].elapsed + delay >= LlmDeadline

\* No credits, bad key, rate limit, 5xx, network: counted by the breaker, which opens at the limit.
LlmFailed(a, delay) ==
    /\ ask[a].at = "posting"
    /\ a \notin Streamed
    /\ IF failures + 1 >= StopAfter
         THEN failures' = 0 /\ stopped' = Cooldown /\ Finished(a, "unavailable")
         ELSE /\ failures' = failures + 1
              /\ IF GivesUp(a, delay)
                   THEN Finished(a, "unavailable")
                   ELSE ask' = [ask EXCEPT ![a].at = "waiting", ![a].left = delay]
              /\ UNCHANGED stopped
    /\ UNCHANGED <<llmKey, logged>>

\* stream_gpt_text: one attempt, and the breaker is not told.
StreamFailed(a) ==
    /\ ask[a].at = "posting"
    /\ a \in Streamed
    /\ Finished(a, "unavailable")
    /\ UNCHANGED <<failures, stopped, llmKey, logged>>

\* The next attempt does not look at the breaker.
LlmWake(a) ==
    /\ ask[a].at = "waiting"
    /\ ask[a].left = 0
    /\ ask' = [ask EXCEPT ![a].at = "ready"]
    /\ UNCHANGED <<failures, stopped, llmKey, logged>>

\* A request does not outlive its timeout (a stream may: its timeout is between
\* two pieces), and a wait is over when it is due.
LlmTick ==
    /\ \A a \in LlmAsks \ Streamed : ask[a].at \in {"posting", "waiting"} => ask[a].left > 0
    /\ stopped > 0 \/ \E a \in LlmAsks : ask[a].left > 0
    /\ ask' = [a \in LlmAsks |->
         IF ask[a].at \in {"posting", "waiting"} /\ a \notin Streamed
           THEN [ask[a] EXCEPT !.left = @ - 1, !.elapsed = @ + 1]
           ELSE ask[a]]
    /\ stopped' = IF stopped > 0 THEN stopped - 1 ELSE 0
    /\ UNCHANGED <<failures, llmKey, logged>>

LlmEnd(a) ==
    LlmAnswered(a) \/ LlmInvalid(a) \/ StreamFailed(a) \/ \E delay \in LlmDelays : LlmFailed(a, delay)

LlmCallsNext == (\E a \in LlmAsks : LlmStart(a) \/ LlmPost(a) \/ LlmEnd(a) \/ LlmWake(a)) \/ LlmTick

\* The thread goes on, a request ends, time passes.
LlmCallsFairness ==
    /\ \A a \in LlmAsks : WF_llmCallsVars(LlmPost(a)) /\ WF_llmCallsVars(LlmEnd(a)) /\ WF_llmCallsVars(LlmWake(a))
    /\ WF_llmCallsVars(LlmTick)

LlmCallsSpec == LlmCallsInit /\ [][LlmCallsNext]_llmCallsVars

-----------------------------------------------------------------------------
\* What the callers count on (gpt_llm.py:305-313): a call is sent at most
\* OPENAI_MAX_ATTEMPTS times within OPENAI_CALL_DEADLINE_SECONDS and ends, whatever
\* the calls of other threads do to the breaker they share.
Promise == INSTANCE LlmPromise WITH
    Asks <- LlmAsks,
    MaxTries <- LlmMaxTries,
    MaxTime <- LlmDeadline,
    asked <- [a \in LlmAsks |-> ask[a].at # "idle"],
    sent <- [a \in LlmAsks |-> ask[a].tries],
    spent <- [a \in LlmAsks |-> ask[a].elapsed],
    outcome <- [a \in LlmAsks |-> IF ask[a].at \in Ends THEN ask[a].at ELSE "none"]

LlmPromised == Promise!Spec
=============================================================================
